----------------------------- MODULE Monitoring -----------------------------
(***************************************************************************)
(* Monitoring end to end: the monitoring core (Monio) driven by a plugin   *)
(* that keeps the promise of MonitorPoll, over services whose health comes *)
(* and goes.  A poll reports the health the service has when it answers.   *)
(***************************************************************************)
EXTENDS MonioRefinement

CONSTANTS Regs,     \* the calls of monio_add_addr: a sequence of [ptr, svc], where
                    \*   svc is an address and a service type, maybe a fixed one
          Lossy     \* services of a plugin that may skip a poll (tcp_connect)

Registered == {Regs[i].svc : i \in DOMAIN Regs}
Polled == {k \in Registered \cap Smgr : ~ForcedUp(k)}

\* The words a service feeds.
Words(k) == {Regs[i].ptr : i \in {j \in DOMAIN Regs : Regs[j].svc = k}}

ASSUME MonitoringAssumption ==
    /\ Regs \in Seq([ptr : Ptr, svc : Addr \X (SvcType \cup FixedType)])
    /\ \A p \in Ptr : \E i \in DOMAIN Regs : \A j \in DOMAIN Regs : Regs[j].ptr = p <=> j = i
    /\ Lossy \subseteq Smgr

VARIABLES stage, polling, turn, last,   \* MonitorPoll
          health                        \* TRUE: the service would pass a poll now

MP == INSTANCE MonitorPoll WITH Mon <- Polled

pollVars == <<stage, polling, turn, last>>
sysvars == <<vars, pollVars, health>>

SysInit ==
    /\ Init /\ wkey = CHOOSE k \in Smgr : TRUE
    /\ MP!PInit
    /\ health \in [Polled -> BOOLEAN]

\* conf.c registers the plugins' state words one by one, in their order.
\* The end of conf_load(): what the plugins have asked to be monitored is registered
\* in the order of their lists, once service types are known.
Configure ==
    /\ fresh # {}
    /\ LET r == Regs[CHOOSE i \in DOMAIN Regs : \A j \in DOMAIN Regs : Regs[j].ptr \in fresh <=> j >= i]
       IN  IF r.svc[2] \in FixedType THEN AddFixed(r.ptr, r.svc[2]) ELSE AddAddr(r.ptr, r.svc)
    /\ UNCHANGED <<pollVars, health>>

\* The configuration of a word names no known service type or no address.
ConfigureInvalid ==
    /\ \E p \in fresh : AddInvalid(p)
    /\ UNCHANGED <<pollVars, health>>

\* monio_start begins the initial round of monitoring.
BeginInitialRound ==
    /\ fresh = {} /\ Start /\ MP!InitRound
    /\ UNCHANGED health

BeginPoll(k) ==
    /\ widx = 0 /\ MP!Begin(k)
    /\ UNCHANGED <<vars, health>>

\* (Mutant) A service that is DOWN is not polled any more.
MutEndPoll(k) ==
    /\ MP!Report(k, IF health[k] THEN "ok" ELSE "fail")
    /\ SvcState(k) # DOWN /\ state_updater(k, health[k])
    /\ UNCHANGED health

EndPoll(k) ==
    /\ MP!Report(k, IF health[k] THEN "ok" ELSE "fail")
    /\ state_updater(k, health[k])
    /\ UNCHANGED health

\* The plugin gets no socket: the poll is left out.
SkipPoll(k) ==
    /\ widx = 0 /\ MP!Skip(k)
    /\ UNCHANGED <<vars, health>>

Store == StoreState /\ UNCHANGED <<pollVars, health>>

\* (Mutant) monio_start does not wait for the initial round.
MutEndInitialRound ==
    /\ widx = 0 /\ stage = "init" /\ stage' = "run"
    /\ UNCHANGED <<vars, polling, turn, last, health>>

\* The initial ev_run returns to monio_start, which starts the regular polls.
EndInitialRound ==
    /\ widx = 0 /\ MP!StartRun
    /\ UNCHANGED <<vars, health>>

HealthChange(k) ==
    /\ stage = "run"
    /\ health' = [health EXCEPT ![k] = ~@]
    /\ UNCHANGED <<vars, pollVars>>

SysNext ==
    \/ Configure \/ ConfigureInvalid
    \/ BeginInitialRound
    \/ EndInitialRound
    \/ Store
    \/ \E k \in Polled : BeginPoll(k) \/ EndPoll(k) \/ SkipPoll(k) \/ HealthChange(k)

\* The main thread keeps running callbacks: polls are started by the interval
\* timer and ended, at the latest, by the timeout (PollsEnd of the plugins).
\* Strong fairness, because a store loop of another service only delays a
\* callback: the event loop serves every pending watcher before it polls again,
\* and a plugin that is short of descriptors gets one now and then.
SysFairness ==
    /\ WF_sysvars(Configure) /\ WF_sysvars(BeginInitialRound)
    /\ WF_sysvars(EndInitialRound) /\ WF_sysvars(Store)
    /\ \A k \in Polled : SF_sysvars(BeginPoll(k)) /\ SF_sysvars(EndPoll(k))

SysSpec == SysInit /\ [][SysNext]_sysvars /\ SysFairness

-----------------------------------------------------------------------------
(* Properties.                                                             *)

\* The comment at state_txt in monio.c, "should be unused in practice due to
\* startup ordering": when the daemon starts its I/O threads, after monio_start
\* has returned, no state word is UNINIT, except those of a service whose first
\* poll was left out, until the stores of its first result are through.
NoUninitAtRuntime ==
    stage = "run" => \A p \in Ptr :
        \/ state[p] # UNINIT
        \/ \E k \in Lossy \cap Polled :
              p \in Words(k) /\ (last[k] = "skip" \/ (widx # 0 /\ wkey = k))

\* A service that stays healthy is UP for good in every one of its words, and a
\* service that stays dead is DOWN for good (down_thresh at least 2), whatever
\* happened before: no history of results leaves the counters stuck.
Lasting(k, s) == <>[](\A p \in Words(k) : state[p] = s)
Converges ==
    /\ \A k \in Polled : <>[](phase = "run" /\ health[k]) => Lasting(k, UP)
    /\ \A k \in Polled \cap Settled : <>[](phase = "run" /\ ~health[k]) => Lasting(k, DOWN)
=============================================================================

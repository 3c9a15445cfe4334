------------------------------- MODULE Monio -------------------------------
(***************************************************************************)
(* The monitoring core: gdnsd/monio.c (which service managers exist, and   *)
(* which plugin-owned state words each of them feeds) and                  *)
(* gdnsd/libgdnsd/monio.c (the anti-flap state updater every monitoring    *)
(* plugin calls with the result of a poll).                                *)
(*                                                                         *)
(* A service manager (monio_smgr_t) is identified by its address and       *)
(* service type, because monio_add_addr keeps one per such pair.  The main *)
(* thread runs everything here; DNS threads read the state words at any    *)
(* time, so the updater's loop over monio_state_ptrs is modelled store by  *)
(* store.                                                                  *)
(***************************************************************************)
EXTENDS Naturals, Sequences

CONSTANTS Ptr,         \* the monio_state_t words resolver plugins register
          Addr,        \* monitored addresses
          V6,          \* the IPv6 addresses among them
          SvcType,     \* monitored service types ("default" and the configured ones)
          upThresh,    \* service_type_t thresholds, per service type
          okThresh,
          downThresh,
          ForceV6Up,   \* gconfig.monitor_force_v6_up
          UINT         \* the modulus of C's unsigned (2^32)

ThreshRange == {n \in Nat : 1 <= n /\ n < UINT}

ASSUME MonioAssumption ==
    /\ UINT \in Nat \ {0}
    /\ V6 \subseteq Addr
    /\ ForceV6Up \in BOOLEAN
    /\ upThresh \in [SvcType -> ThreshRange]
    /\ okThresh \in [SvcType -> ThreshRange]
    /\ downThresh \in [SvcType -> ThreshRange]

VARIABLES phase,      \* "config" while conf.c registers addresses, then "run";
                      \*   "fatal" once log_fatal has ended the process
          state,      \* the value of every state word
          fresh,      \* the words monio_add_addr has not been called for yet
          ptrs,       \* monio_state_ptrs of each service manager, in order
          n_success,
          n_failure,
          wkey,       \* the updater's pending loop: its service manager,
          wval,       \*   the state it stores,
          widx        \*   and the next index to store; 0 when no loop runs

regVars  == <<phase, fresh, ptrs>>
cntVars  == <<n_success, n_failure>>
loopVars == <<wkey, wval, widx>>
vars     == <<regVars, state, cntVars, loopVars>>

UNINIT == 0
DOWN   == 1
DANGER == 2
UP     == 3
MonioState == {UNINIT, DOWN, DANGER, UP}

\* The service types that fix a state instead of monitoring.
FixedType == {"none", "up", "danger", "down"}
FixedState(t) == CASE t = "danger" -> DANGER [] t = "down" -> DOWN [] OTHER -> UP

Smgr == Addr \X SvcType

\* gconfig.monitor_force_v6_up applies: state UP, add_monitor never called.
ForcedUp(k) == ForceV6Up /\ k[1] \in V6

\* Service managers a monitoring plugin polls.
Monitored == {k \in Smgr : ptrs[k] # <<>> /\ ~ForcedUp(k)}

\* The updater takes its own current state from the first pointer.
SvcState(k) == state[ptrs[k][1]]

TypeOK ==
    /\ phase \in {"config", "run", "fatal"}
    /\ state \in [Ptr -> MonioState]
    /\ fresh \subseteq Ptr
    /\ ptrs \in [Smgr -> Seq(Ptr)]
    /\ n_success \in [Smgr -> 0..(UINT - 1)]
    /\ n_failure \in [Smgr -> 0..(UINT - 1)]
    /\ wkey \in Smgr
    /\ wval \in MonioState
    /\ widx \in Nat

Init ==
    /\ phase = "config"
    /\ state = [p \in Ptr |-> UNINIT]
    /\ fresh = Ptr
    /\ ptrs = [k \in Smgr |-> <<>>]
    /\ n_success = [k \in Smgr |-> 0]
    /\ n_failure = [k \in Smgr |-> 0]
    /\ wkey \in Smgr
    /\ wval = UNINIT
    /\ widx = 0

-----------------------------------------------------------------------------
(* Configuration: conf.c calls monio_add_addr once per plugin state word.  *)

AddFixed(p, t) ==
    /\ phase = "config" /\ p \in fresh
    /\ state' = [state EXCEPT ![p] = FixedState(t)]
    /\ fresh' = fresh \ {p}
    /\ UNCHANGED <<phase, ptrs, cntVars, loopVars>>

\* A service type nobody defined, or an address getaddrinfo rejects.
AddInvalid(p) ==
    /\ phase = "config" /\ p \in fresh
    /\ phase' = "fatal"
    /\ UNCHANGED <<state, fresh, ptrs, cntVars, loopVars>>

\* (Mutant) Only the first word of a manager is forced UP.
MutAddAddr(p, k) ==
    /\ phase = "config" /\ p \in fresh
    /\ state' = [state EXCEPT ![p] = IF ForcedUp(k) /\ ptrs[k] = <<>> THEN UP ELSE UNINIT]
    /\ fresh' = fresh \ {p}
    /\ ptrs' = [ptrs EXCEPT ![k] = Append(@, p)]
    /\ UNCHANGED <<phase, cntVars, loopVars>>

\* A new service manager and one more pointer of an existing one alike: the
\* words of a manager nothing polls yet are still UNINIT, or forced UP.
AddAddr(p, k) ==
    /\ phase = "config" /\ p \in fresh
    /\ state' = [state EXCEPT ![p] = IF ForcedUp(k) THEN UP ELSE UNINIT]
    /\ fresh' = fresh \ {p}
    /\ ptrs' = [ptrs EXCEPT ![k] = Append(@, p)]
    /\ UNCHANGED <<phase, cntVars, loopVars>>

Start ==
    /\ phase = "config"
    /\ phase' = "run"
    /\ UNCHANGED <<state, fresh, ptrs, cntVars, loopVars>>

-----------------------------------------------------------------------------
(* gdnsd_monio_state_updater                                               *)

Bump(n) == (n + 1) % UINT

BeginStores(k, v) == wkey' = k /\ wval' = v /\ widx' = 1

OnSuccess(k) ==
    LET st    == SvcState(k)
        count == Bump(n_success[k])
        limit == IF st = DANGER THEN okThresh[k[2]] ELSE upThresh[k[2]]
    IN  /\ n_success' = IF st \in {DANGER, DOWN}
                        THEN [n_success EXCEPT ![k] = count] ELSE n_success
        /\ IF st = UNINIT \/ (st \in {DANGER, DOWN} /\ count = limit)
           THEN BeginStores(k, UP) ELSE UNCHANGED loopVars
        /\ UNCHANGED n_failure

\* (Mutant) A failure does not restart the count of successes.
MutOnFailure(k) ==
    LET st    == SvcState(k)
        count == Bump(n_failure[k])
    IN  /\ n_failure' = [n_failure EXCEPT ![k] = IF st = UP THEN 1
                                                 ELSE IF st = DANGER THEN count ELSE @]
        /\ \/ st = UP /\ BeginStores(k, DANGER)
           \/ st = DANGER /\ count = downThresh[k[2]] /\ BeginStores(k, DOWN)
           \/ st = UNINIT /\ BeginStores(k, DOWN)
           \/ /\ st = DOWN \/ (st = DANGER /\ count # downThresh[k[2]])
              /\ UNCHANGED loopVars
        /\ UNCHANGED n_success

OnFailure(k) ==
    LET st    == SvcState(k)
        count == Bump(n_failure[k])
    IN  /\ n_success' = [n_success EXCEPT ![k] = 0]
        /\ n_failure' = [n_failure EXCEPT ![k] = IF st = UP THEN 1
                                                 ELSE IF st = DANGER THEN count ELSE @]
        /\ \/ st = UP /\ BeginStores(k, DANGER)
           \/ st = DANGER /\ count = downThresh[k[2]] /\ BeginStores(k, DOWN)
           \/ st = UNINIT /\ BeginStores(k, DOWN)
           \/ /\ st = DOWN \/ (st = DANGER /\ count # downThresh[k[2]])
              /\ UNCHANGED loopVars

state_updater(k, latest) ==
    /\ phase = "run" /\ widx = 0 /\ k \in Monitored
    /\ IF latest THEN OnSuccess(k) ELSE OnFailure(k)
    /\ UNCHANGED <<regVars, state>>

\* (Mutant) "i <= num_state_ptrs" in the loop.
MutStoreState ==
    /\ widx > 0
    /\ state' = [state EXCEPT ![ptrs[wkey][widx]] = wval]
    /\ widx' = IF widx > Len(ptrs[wkey]) THEN 0 ELSE widx + 1
    /\ UNCHANGED <<regVars, cntVars, wkey, wval>>

\* One iteration of the updater's "for(i < num_state_ptrs) monio_state_set".
StoreState ==
    /\ widx > 0
    /\ state' = [state EXCEPT ![ptrs[wkey][widx]] = wval]
    /\ widx' = IF widx = Len(ptrs[wkey]) THEN 0 ELSE widx + 1
    /\ UNCHANGED <<regVars, cntVars, wkey, wval>>

Next ==
    \/ \E p \in Ptr, t \in FixedType : AddFixed(p, t)
    \/ \E p \in Ptr, k \in Smgr : AddAddr(p, k)
    \/ \E p \in Ptr : AddInvalid(p)
    \/ Start
    \/ \E k \in Smgr, latest \in BOOLEAN : state_updater(k, latest)
    \/ StoreState

Spec == Init /\ [][Next]_vars

-----------------------------------------------------------------------------
(* Properties.                                                             *)

\* All words fed by one service manager agree whenever its update loop is not
\* running, however the words were registered and whichever polls came in:
\* resources that share a monitored service never disagree for longer than one
\* call of gdnsd_monio_state_updater.
WordsAgree ==
    \A k \in Smgr : \A i, j \in DOMAIN ptrs[k] :
        (widx = 0 \/ k # wkey) => state[ptrs[k][i]] = state[ptrs[k][j]]

\* While the update loop runs, a DNS thread finds the new state in the words
\* already stored and the one common old state in the others, never a third
\* state.
OldOrNew ==
    widx > 0 => /\ widx \in DOMAIN ptrs[wkey]
                /\ \A i \in DOMAIN ptrs[wkey] :
                      IF i < widx THEN state[ptrs[wkey][i]] = wval
                      ELSE state[ptrs[wkey][i]] = state[ptrs[wkey][widx]]

\* monitor_force_v6_up and the fixed service types: polling never touches a
\* word that is not monitored.
OnlyMonitoredWordsChange ==
    [][phase = "run" =>
         \A p \in Ptr : state'[p] # state[p] =>
             \E k \in Monitored : \E i \in DOMAIN ptrs[k] : ptrs[k][i] = p]_vars

\* gdnsd.config.pod on down_thresh ("Number of monitoring requests which must
\* fail, regardless of any intervening successes, to transition ... from the
\* DANGER state to the DOWN state"): a service still in DANGER has failed fewer
\* than down_thresh times since it got there.  n_failure counts the failure
\* that entered DANGER as well.
DownThreshHonoured ==
    \A k \in Monitored :
        widx = 0 /\ SvcState(k) = DANGER => n_failure[k] - 1 < downThresh[k[2]]
=============================================================================

---------------------------- MODULE MonitorPoll ----------------------------
(***************************************************************************)
(* What the monitoring plugins promise to the monitoring core: polls of    *)
(* one service never overlap, every poll calls gdnsd_monio_state_updater   *)
(* exactly once, and monio_start returns only after every service has been *)
(* polled.  A plugin that gives up silently when it gets no socket may     *)
(* leave out a poll.  MonPlugins implements this specification.            *)
(***************************************************************************)
EXTENDS Naturals

CONSTANTS Mon,        \* the monitored services
          Lossy       \* the ones whose plugin may skip a poll without a report

VARIABLES stage,      \* "config", "init" (the initial round), then "run"
          polling,    \* per monitor, a poll is under way
          turn,       \* per monitor, the parity of its updater calls
          last        \* per monitor, the result of the last call, "none", or "skip"

pvars == <<stage, polling, turn, last>>

Result == {"ok", "fail"}

PInit ==
    /\ stage = "config"
    /\ polling = [m \in Mon |-> FALSE]
    /\ turn = [m \in Mon |-> 0]
    /\ last = [m \in Mon |-> "none"]

InitRound == stage = "config" /\ stage' = "init" /\ UNCHANGED <<polling, turn, last>>

\* In the initial round each service is polled once.
MayBegin(m) == ~polling[m] /\ (stage = "run" \/ (stage = "init" /\ last[m] = "none"))

Begin(m) ==
    /\ MayBegin(m)
    /\ polling' = [polling EXCEPT ![m] = TRUE]
    /\ UNCHANGED <<stage, turn, last>>

Report(m, r) ==
    /\ polling[m] \/ MayBegin(m)     \* a poll may begin and end in one step
    /\ polling' = [polling EXCEPT ![m] = FALSE]
    /\ turn' = [turn EXCEPT ![m] = 1 - @]
    /\ last' = [last EXCEPT ![m] = r]
    /\ UNCHANGED stage

Skip(m) ==
    /\ m \in Lossy /\ MayBegin(m)
    /\ last' = [last EXCEPT ![m] = IF @ = "none" THEN "skip" ELSE @]
    /\ UNCHANGED <<stage, polling, turn>>

StartRun ==
    /\ stage = "init" /\ \A m \in Mon : last[m] # "none" /\ ~polling[m]
    /\ stage' = "run"
    /\ UNCHANGED <<polling, turn, last>>

PNext ==
    \/ InitRound
    \/ StartRun
    \/ \E m \in Mon : Begin(m) \/ Skip(m) \/ \E r \in Result : Report(m, r)

PSpec == PInit /\ [][PNext]_pvars
=============================================================================

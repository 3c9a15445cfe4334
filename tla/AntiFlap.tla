------------------------------ MODULE AntiFlap ------------------------------
(***************************************************************************)
(* What the anti-flap logic promises for every monitored service, as the   *)
(* documentation of up_thresh, ok_thresh and down_thresh states it: the    *)
(* state of a service is determined by the results seen since it was last  *)
(* UP and since its last failure.  Monio implements this specification.    *)
(***************************************************************************)
EXTENDS Naturals

CONSTANTS Svc, upT, okT, downT

VARIABLES st,     \* 0 UNINIT, 1 DOWN, 2 DANGER, 3 UP
          run,    \* consecutive successes, while DOWN or DANGER
          fails   \* failures since the service was last UP, while DANGER

avars == <<st, run, fails>>

Becomes(s, v, r, f) ==
    /\ st' = [st EXCEPT ![s] = v]
    /\ run' = [run EXCEPT ![s] = r]
    /\ fails' = [fails EXCEPT ![s] = f]

AInit ==
    /\ st \in [Svc -> {0, 3}]
    /\ run = [s \in Svc |-> 0]
    /\ fails = [s \in Svc |-> 0]

\* The first poll decides the state at once.
First(s) == st[s] = 0 /\ \E v \in {1, 3} : Becomes(s, v, 0, 0)

Recover(s) ==
    /\ st[s] \in {1, 2}
    /\ IF run[s] + 1 >= (IF st[s] = 2 THEN okT[s] ELSE upT[s])
       THEN Becomes(s, 3, 0, 0)
       ELSE Becomes(s, st[s], run[s] + 1, fails[s])

Degrade(s) ==
    \/ st[s] = 3 /\ Becomes(s, 2, 0, 1)
    \/ st[s] = 2 /\ fails[s] + 1 >= downT[s] /\ Becomes(s, 1, 0, 0)
    \/ st[s] = 2 /\ fails[s] + 1 < downT[s] /\ Becomes(s, 2, 0, fails[s] + 1)
    \/ st[s] = 1 /\ Becomes(s, 1, 0, 0)

ANext == \E s \in Svc : First(s) \/ Recover(s) \/ Degrade(s)

ASpec == AInit /\ [][ANext]_avars
=============================================================================

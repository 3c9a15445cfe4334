-------------------------- MODULE MonioRefinement --------------------------
(***************************************************************************)
(* Every service manager of Monio implements the documented anti-flap      *)
(* behaviour.  The abstract state changes when the updater decides, before *)
(* the stores have reached the state words; the abstract counters are the  *)
(* concrete ones where the state makes them meaningful.                    *)
(***************************************************************************)
EXTENDS Monio

AbsState(k) ==
    IF widx > 0 /\ k = wkey THEN wval
    ELSE IF ptrs[k] # <<>> THEN SvcState(k)
    ELSE IF ForcedUp(k) THEN UP ELSE UNINIT

AbsRun(k) == IF AbsState(k) \in {DOWN, DANGER} THEN n_success[k] ELSE 0

AbsFails(k) == IF AbsState(k) = DANGER THEN n_failure[k] ELSE 0

\* The service managers whose down_thresh is at least 2.  With down_thresh 1
\* the updater enters DANGER with n_failure already at the threshold, and its
\* equality test never succeeds (see DownThreshHonoured).
Settled == {k \in Smgr : downThresh[k[2]] >= 2}

AF == INSTANCE AntiFlap WITH
        Svc <- Settled,
        upT <- [k \in Settled |-> upThresh[k[2]]],
        okT <- [k \in Settled |-> okThresh[k[2]]],
        downT <- [k \in Settled |-> downThresh[k[2]]],
        st <- [k \in Settled |-> AbsState(k)],
        run <- [k \in Settled |-> AbsRun(k)],
        fails <- [k \in Settled |-> AbsFails(k)]

\* libgdnsd/monio.c against gdnsd.config.pod: a service leaves DOWN after
\* exactly up_thresh successes with no failure between, leaves DANGER for UP
\* after exactly ok_thresh, and for DOWN at the down_thresh-th failure since it
\* was last UP; nothing else changes its state, and one poll never skips DANGER.
ImplementsAntiFlap == AF!ASpec
=============================================================================

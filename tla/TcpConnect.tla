----------------------------- MODULE TcpConnect -----------------------------
(***************************************************************************)
(* The tcp_connect monitoring plugin (plugins/trivial/tcp_connect.c): a    *)
(* poll is one non-blocking connect().  Callbacks and watchers are         *)
(* modelled as in HttpStatus.                                              *)
(***************************************************************************)
EXTENDS Naturals

CONSTANT Mon       \* monitored services (mons[])

VARIABLES stage,   \* "config", "init": the initial round of monio_start, "run"
          md,      \* tcp_events_t of every monitor
          rep      \* history: parity of updater calls and the last result

vars == <<stage, md, rep>>

TypeOK ==
    /\ stage \in {"config", "init", "run"}
    /\ md \in [Mon -> [tcp_state : {"WAITING", "CONNECTING"}, sock : BOOLEAN,
                       connect : BOOLEAN, timeout : BOOLEAN,
                       interval : {"off", "once", "repeat"}]]
    /\ rep \in [Mon -> [turn : {0, 1}, last : {"none", "skip", "ok", "fail"}]]

Init ==
    /\ stage = "config"
    /\ md = [m \in Mon |-> [tcp_state |-> "WAITING", sock |-> FALSE, connect |-> FALSE,
                            timeout |-> FALSE, interval |-> "off"]]
    /\ rep = [m \in Mon |-> [turn |-> 0, last |-> "none"]]

init_monitors ==
    /\ stage = "config" /\ stage' = "init"
    /\ md' = [m \in Mon |-> [md[m] EXCEPT !.interval = "once"]]
    /\ UNCHANGED rep

Drained ==
    \A m \in Mon : md[m].interval = "off" /\ ~md[m].connect /\ ~md[m].timeout

start_monitors ==
    /\ stage = "init" /\ Drained
    /\ stage' = "run"
    /\ md' = [m \in Mon |-> [md[m] EXCEPT !.interval = "repeat"]]
    /\ UNCHANGED rep

\* gdnsd_monio_state_updater(md->smgr, ok)
Updater(m, ok) ==
    rep' = [rep EXCEPT ![m] = [turn |-> 1 - @.turn, last |-> IF ok THEN "ok" ELSE "fail"]]

Closed(d) ==
    [d EXCEPT !.sock = FALSE, !.connect = FALSE, !.timeout = FALSE, !.tcp_state = "WAITING"]

-----------------------------------------------------------------------------
(* monio_interval_cb                                                       *)

Fired(d) == [d EXCEPT !.interval = IF @ = "once" THEN "off" ELSE @]

\* The previous poll is still running.
IntervalSkip(m) ==
    /\ md[m].interval # "off" /\ md[m].tcp_state # "WAITING"
    /\ md' = [md EXCEPT ![m] = Fired(@)]
    /\ UNCHANGED <<stage, rep>>

\* socket() or fcntl() fails: logged, and nothing is reported.
IntervalLocalFail(m) ==
    /\ md[m].interval # "off" /\ md[m].tcp_state = "WAITING"
    /\ md' = [md EXCEPT ![m] = Fired(@)]
    /\ rep' = [rep EXCEPT ![m].last = IF @ = "none" THEN "skip" ELSE @]
    /\ UNCHANGED stage

\* connect() succeeds or fails at once.
IntervalDone(m, ok) ==
    /\ md[m].interval # "off" /\ md[m].tcp_state = "WAITING"
    /\ md' = [md EXCEPT ![m] = Fired(@)]
    /\ Updater(m, ok)
    /\ UNCHANGED stage

\* EINPROGRESS
IntervalConnect(m) ==
    /\ md[m].interval # "off" /\ md[m].tcp_state = "WAITING"
    /\ md' = [md EXCEPT ![m] = [Fired(@) EXCEPT !.sock = TRUE, !.tcp_state = "CONNECTING",
                                                !.connect = TRUE, !.timeout = TRUE]]
    /\ UNCHANGED <<stage, rep>>

monio_interval_cb(m) ==
    \/ IntervalSkip(m)
    \/ IntervalLocalFail(m)
    \/ \E ok \in BOOLEAN : IntervalDone(m, ok)
    \/ IntervalConnect(m)

\* The connect ended; ok: SO_ERROR is 0.
monio_connect_cb(m, ok) ==
    /\ md[m].connect
    /\ md' = [md EXCEPT ![m] = Closed(@)]
    /\ Updater(m, ok)
    /\ UNCHANGED stage

\* (Mutant) A timed-out poll is not reported.
Mutmonio_timeout_cb(m) ==
    /\ md[m].timeout
    /\ md' = [md EXCEPT ![m] = Closed(@)]
    /\ UNCHANGED <<stage, rep>>

monio_timeout_cb(m) ==
    /\ md[m].timeout
    /\ md' = [md EXCEPT ![m] = Closed(@)]
    /\ Updater(m, FALSE)
    /\ UNCHANGED stage

Callback(m) ==
    \/ monio_interval_cb(m)
    \/ \E ok \in BOOLEAN : monio_connect_cb(m, ok)
    \/ monio_timeout_cb(m)

-----------------------------------------------------------------------------
\* The dmn_assert()s at the top of the callbacks, wherever they can run: a poll
\* in progress has its socket, its connect watcher and its timeout, and a
\* waiting monitor has none of them.
Assertions ==
    \A m \in Mon : LET d == md[m] IN
        /\ d.tcp_state = "WAITING" => ~d.sock /\ ~d.connect /\ ~d.timeout
        /\ d.tcp_state = "CONNECTING" => d.sock /\ d.connect /\ d.timeout
=============================================================================

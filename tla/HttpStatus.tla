----------------------------- MODULE HttpStatus -----------------------------
(***************************************************************************)
(* The http_status monitoring plugin (plugins/trivial/http_status.c): per  *)
(* monitored service a socket, two I/O watchers and two timers on the main *)
(* thread's event loop.  A callback runs to completion; between callbacks  *)
(* any active watcher may be the next to fire, which covers every timing   *)
(* of the peer, of the timeout and of the interval timer.  Stopping a      *)
(* watcher also cancels its pending event, as libev does.                  *)
(***************************************************************************)
EXTENDS Integers

CONSTANTS Mon,           \* monitored services (mons[])
          REQ,           \* req_data_len
          RESP,          \* bytes of the status line that are read (13 in the code)
          UINT,          \* the modulus of C's unsigned
          MaxDone,       \* bound on md->done while a request is being sent
          PartialSends   \* may send() accept only a part of the request?

ASSUME HttpAssumption ==
    /\ REQ \in Nat \ {0} /\ RESP \in Nat \ {0}
    /\ MaxDone \in Nat /\ REQ < MaxDone
    /\ UINT \in Nat /\ MaxDone + REQ < UINT /\ RESP < UINT
    /\ PartialSends \in BOOLEAN

VARIABLES stage,   \* "config", "init": the initial round of monio_start, "run"
          md,      \* http_events_t of every monitor
          poll,    \* history: request bytes sent and response positions read this poll
          rep      \* history: parity of updater calls and the last result

vars == <<stage, md, poll, rep>>

HState == {"WAITING", "WRITING", "READING"}

TypeOK ==
    /\ stage \in {"config", "init", "run"}
    /\ md \in [Mon -> [hstate : HState, sock : BOOLEAN, read : BOOLEAN, write : BOOLEAN,
                       timeout : BOOLEAN, interval : {"off", "once", "repeat"},
                       done : 0..(UINT - 1), connected : BOOLEAN]]
    /\ poll \in [Mon -> [out : Nat, fresh : SUBSET (1..RESP)]]
    /\ rep \in [Mon -> [turn : {0, 1}, last : {"none", "ok", "fail"}, fair : BOOLEAN]]

Init ==
    /\ stage = "config"
    /\ md = [m \in Mon |-> [hstate |-> "WAITING", sock |-> FALSE, read |-> FALSE,
                            write |-> FALSE, timeout |-> FALSE, interval |-> "off",
                            done |-> 0, connected |-> FALSE]]
    /\ poll = [m \in Mon |-> [out |-> 0, fresh |-> {}]]
    /\ rep = [m \in Mon |-> [turn |-> 0, last |-> "none", fair |-> TRUE]]

-----------------------------------------------------------------------------
(* Event loop plumbing.                                                    *)

\* (Mutant) The initial round is armed with repeating timers.
Mutinit_monitors ==
    /\ stage = "config" /\ stage' = "init"
    /\ md' = [m \in Mon |-> [md[m] EXCEPT !.interval = "repeat"]]
    /\ UNCHANGED <<poll, rep>>

init_monitors ==
    /\ stage = "config" /\ stage' = "init"
    /\ md' = [m \in Mon |-> [md[m] EXCEPT !.interval = "once"]]
    /\ UNCHANGED <<poll, rep>>

\* ev_run returns when no watcher is active.
Drained ==
    \A m \in Mon : /\ md[m].interval = "off"
                   /\ ~md[m].read /\ ~md[m].write /\ ~md[m].timeout

\* The initial ev_run of monio_start returns, and start_monitors arms the timers.
start_monitors ==
    /\ stage = "init" /\ Drained
    /\ stage' = "run"
    /\ md' = [m \in Mon |-> [md[m] EXCEPT !.interval = "repeat"]]
    /\ UNCHANGED <<poll, rep>>

\* gdnsd_monio_state_updater(md->smgr, ok), and whether the poll really went
\* through: the whole request was sent and every byte judged is of this poll.
Updater(m, ok) ==
    rep' = [rep EXCEPT ![m] =
              [turn |-> 1 - @.turn, last |-> IF ok THEN "ok" ELSE "fail",
               fair |-> ok => poll[m].out = REQ /\ poll'[m].fresh = 1..RESP]]

\* (Mutant) The timeout is left running.
MutClosed(d) ==
    [d EXCEPT !.sock = FALSE, !.read = FALSE, !.write = FALSE, !.hstate = "WAITING"]

\* What every end of a poll does: close the socket, stop the watchers, wait.
Closed(d) ==
    [d EXCEPT !.sock = FALSE, !.read = FALSE, !.write = FALSE, !.timeout = FALSE,
              !.hstate = "WAITING"]

-----------------------------------------------------------------------------
(* monio_interval_cb                                                       *)

\* A one-shot timer stops when it fires.
Fired(d) == [d EXCEPT !.interval = IF @ = "once" THEN "off" ELSE @]

\* The previous poll is still running.
IntervalSkip(m) ==
    /\ md[m].interval # "off" /\ md[m].hstate # "WAITING"
    /\ md' = [md EXCEPT ![m] = Fired(@)]
    /\ UNCHANGED <<stage, poll, rep>>

\* socket(), fcntl() or connect() failed at once.
IntervalFail(m) ==
    /\ md[m].interval # "off" /\ md[m].hstate = "WAITING"
    /\ md' = [md EXCEPT ![m] = Fired(@)]
    /\ poll' = poll
    /\ Updater(m, FALSE)
    /\ UNCHANGED stage

\* (Mutant) The poll starts without its timeout.
MutIntervalConnect(m, already) ==
    /\ md[m].interval # "off" /\ md[m].hstate = "WAITING"
    /\ md' = [md EXCEPT ![m] =
                [Fired(@) EXCEPT !.sock = TRUE, !.hstate = "WRITING", !.done = 0,
                                 !.connected = already, !.write = TRUE]]
    /\ poll' = [poll EXCEPT ![m] = [out |-> 0, fresh |-> {}]]
    /\ UNCHANGED <<stage, rep>>

\* connect() succeeded, or is in progress.
IntervalConnect(m, already) ==
    /\ md[m].interval # "off" /\ md[m].hstate = "WAITING"
    /\ md' = [md EXCEPT ![m] =
                [Fired(@) EXCEPT !.sock = TRUE, !.hstate = "WRITING", !.done = 0,
                                 !.connected = already, !.write = TRUE,
                                 !.timeout = TRUE]]
    /\ poll' = [poll EXCEPT ![m] = [out |-> 0, fresh |-> {}]]
    /\ UNCHANGED <<stage, rep>>

-----------------------------------------------------------------------------
(* monio_write_cb                                                          *)

\* The connect in progress failed (SO_ERROR).
WriteConnectFail(m) ==
    /\ md[m].write /\ ~md[m].connected
    /\ md' = [md EXCEPT ![m] = Closed(@)]
    /\ poll' = poll
    /\ Updater(m, FALSE)
    /\ UNCHANGED stage

\* EAGAIN or EINTR.
WriteAgain(m) ==
    /\ md[m].write
    /\ md' = [md EXCEPT ![m].connected = TRUE]
    /\ UNCHANGED <<stage, poll, rep>>

to_send(m) == (REQ - md[m].done) % UINT

\* The request is out: read the response next.
Reading(d) ==
    [d EXCEPT !.connected = TRUE, !.done = 0, !.hstate = "READING",
              !.write = FALSE, !.read = TRUE]

\* send() accepts n bytes.  The code passes req_data_len as the length, not
\* to_send, so after a partial send n may exceed what is left.
WriteSend(m, n) ==
    /\ md[m].write
    /\ n = REQ \/ PartialSends
    /\ md[m].done + n <= MaxDone
    /\ md' = [md EXCEPT ![m] =
                IF n = to_send(m) THEN Reading(@)
                ELSE [@ EXCEPT !.connected = TRUE, !.done = (@ + n) % UINT]]
    /\ poll' = [poll EXCEPT ![m].out = @ + n]
    /\ UNCHANGED <<stage, rep>>

\* send() fails for good: the poll ends, but control goes on to the comparison
\* of sent = -1 with to_send, and md->done moves by -1.
WriteError(m) ==
    /\ md[m].write
    /\ md' = [md EXCEPT ![m] =
                IF to_send(m) = (-1) % UINT THEN Reading(Closed(@))
                ELSE [Closed(@) EXCEPT !.connected = TRUE, !.done = (md[m].done - 1) % UINT]]
    /\ poll' = poll
    /\ Updater(m, FALSE)
    /\ UNCHANGED stage

-----------------------------------------------------------------------------
(* monio_read_cb.  A socket that is already closed can only return an error. *)

\* A short read, an end of file (n = 0), EAGAIN or EINTR.
ReadPart(m, n) ==
    /\ md[m].read /\ md[m].sock
    /\ n < RESP - md[m].done
    /\ md' = [md EXCEPT ![m].done = @ + n]
    /\ poll' = [poll EXCEPT ![m].fresh = @ \cup ((md[m].done + 1)..(md[m].done + n))]
    /\ UNCHANGED <<stage, rep>>

\* (Mutant) The line is judged one byte before its end.
MutReadLast(m, ok) ==
    /\ md[m].read /\ md[m].sock
    /\ md' = [md EXCEPT ![m] = Closed(@)]
    /\ poll' = [poll EXCEPT ![m].fresh = @ \cup ((md[m].done + 1)..(RESP - 1))]
    /\ Updater(m, ok)
    /\ UNCHANGED stage

\* The last bytes arrive; ok: the status code is one of ok_codes.
ReadLast(m, ok) ==
    /\ md[m].read /\ md[m].sock
    /\ md' = [md EXCEPT ![m] = Closed(@)]
    /\ poll' = [poll EXCEPT ![m].fresh = @ \cup ((md[m].done + 1)..RESP)]
    /\ Updater(m, ok)
    /\ UNCHANGED stage

ReadError(m) ==
    /\ md[m].read
    /\ md' = [md EXCEPT ![m] = Closed(@)]
    /\ poll' = poll
    /\ Updater(m, FALSE)
    /\ UNCHANGED stage

-----------------------------------------------------------------------------
\* monio_timeout_cb: the one-shot timer fires.
monio_timeout_cb(m) ==
    /\ md[m].timeout
    /\ md' = [md EXCEPT ![m] = Closed(@)]
    /\ poll' = poll
    /\ Updater(m, FALSE)
    /\ UNCHANGED stage

monio_interval_cb(m) ==
    \/ IntervalSkip(m)
    \/ IntervalFail(m)
    \/ \E already \in BOOLEAN : IntervalConnect(m, already)

monio_write_cb(m) ==
    \/ WriteConnectFail(m)
    \/ WriteAgain(m)
    \/ \E n \in 1..REQ : WriteSend(m, n)
    \/ WriteError(m)

monio_read_cb(m) ==
    \/ \E n \in 0..(RESP - 1) : ReadPart(m, n)
    \/ \E ok \in BOOLEAN : ReadLast(m, ok)
    \/ ReadError(m)

Callback(m) == monio_interval_cb(m) \/ monio_write_cb(m) \/ monio_read_cb(m) \/ monio_timeout_cb(m)

-----------------------------------------------------------------------------
(* Properties.                                                             *)

\* The dmn_assert()s at the top of the four callbacks, for every state in which
\* the callback can run: hstate, the socket and the watchers always match.
Assertions ==
    \A m \in Mon : LET d == md[m] IN
        /\ d.hstate = "WAITING" => ~d.sock /\ ~d.read /\ ~d.write /\ ~d.timeout
        /\ d.write => d.hstate = "WRITING" /\ ~d.read /\ d.timeout /\ d.sock
        /\ d.read => d.hstate = "READING" /\ ~d.write /\ d.sock
        /\ d.timeout => /\ d.sock
                        /\ \/ d.hstate = "READING" /\ d.read
                           \/ d.hstate = "WRITING" /\ d.write

\* A poll is reported as successful only if the complete request went out and
\* all the bytes of the status line that were judged arrived in that same poll:
\* res_buf and md->done survive from one poll, and from one phase, to the next.
FreshSuccess == \A m \in Mon : rep[m].fair
=============================================================================

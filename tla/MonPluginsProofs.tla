-------------------------- MODULE MonPluginsProofs --------------------------
(***************************************************************************)
(* The callbacks of http_status and tcp_connect for any number of services *)
(* of each kind, any intervals and timeouts and any sizes of requests and  *)
(* responses: no assertion fails, a success was earned by the poll that    *)
(* reports it, and every behaviour is one that MonitorPoll allows.         *)
(*                                                                         *)
(* PluginAssertions asks what a callback finds, so the invariant says for  *)
(* each state of a monitor which of its socket, watchers and timers exist  *)
(* (HttpMd, TcpMd), that what was sent and read belongs to the poll in     *)
(* progress (HttpPoll), and how the stage of startup, the interval timer   *)
(* and the last result go together while a monitor waits (Round): before   *)
(* the initial round it is idle without a result, and in it a timer that   *)
(* has fired and is not running again has led to a result.                 *)
(*                                                                         *)
(* PartialSends = FALSE is a hypothesis: after a partial send()            *)
(* http_status passes the whole length again (http_status.c:191), and the  *)
(* assertion of its next callback can fail.                                *)
(***************************************************************************)
EXTENDS MonPlugins, TLAPS

Bits == [hstate : HState, sock : BOOLEAN, read : BOOLEAN, write : BOOLEAN,
         timeout : BOOLEAN, interval : {"off", "once", "repeat"},
         done : 0..(UINT - 1), connected : BOOLEAN]

\* The record of an http_status monitor: what its callbacks rely on.
HttpMd(d) ==
    /\ d \in Bits
    /\ d.hstate = "WAITING" => ~d.sock /\ ~d.read /\ ~d.write /\ ~d.timeout
    /\ d.hstate = "WRITING" => d.sock /\ ~d.read /\ d.write /\ d.timeout /\ d.done = 0
    /\ d.hstate = "READING" => d.sock /\ d.read /\ ~d.write /\ d.timeout /\ d.done < RESP

LEMMA Modulus ==
  /\ REQ % UINT = REQ /\ (-1) % UINT = UINT - 1 /\ REQ # UINT - 1
  /\ UINT - 1 \in 0..(UINT - 1) /\ 0 \in 0..(UINT - 1)
<1>1. UINT \in Nat /\ UINT > 1 /\ REQ \in 0..(UINT - 1) /\ REQ # UINT - 1 BY HttpAssumption
<1>2. REQ % UINT = REQ BY <1>1
<1>3. (-1) % UINT = UINT - 1 BY <1>1
<1> QED BY <1>1, <1>2, <1>3

LEMMA ClosedMd ==
  ASSUME NEW d \in Bits
  PROVE  /\ HttpMd(Closed(d)) /\ Closed(d).hstate = "WAITING"
         /\ Closed(d).interval = d.interval
<1> DEFINE c == Closed(d)
<1>1. c \in Bits BY DEF Closed, Bits, HState
<1>2. /\ c.hstate = "WAITING" /\ c.sock = FALSE /\ c.read = FALSE /\ c.write = FALSE
      /\ c.timeout = FALSE /\ c.interval = d.interval
  BY DEF Closed, Bits
<1> HIDE DEF c
<1> QED BY <1>1, <1>2 DEF HttpMd, c

LEMMA FiredMd ==
  ASSUME NEW d, HttpMd(d)
  PROVE  /\ HttpMd(Fired(d)) /\ Fired(d).hstate = d.hstate /\ Fired(d).done = d.done
         /\ Fired(d).interval = IF d.interval = "once" THEN "off" ELSE d.interval
<1> DEFINE c == Fired(d)
<1>1. c \in Bits BY DEF HttpMd, Fired, Bits
<1>2. /\ c.hstate = d.hstate /\ c.sock = d.sock /\ c.read = d.read /\ c.write = d.write
      /\ c.timeout = d.timeout /\ c.done = d.done
      /\ c.interval = IF d.interval = "once" THEN "off" ELSE d.interval
  BY DEF HttpMd, Fired, Bits
<1> HIDE DEF c
<1> QED BY <1>1, <1>2 DEF HttpMd, c

LEMMA ConnectMd ==
  ASSUME NEW d, HttpMd(d), NEW already \in BOOLEAN
  PROVE  LET c == [Fired(d) EXCEPT !.sock = TRUE, !.hstate = "WRITING", !.done = 0,
                                   !.connected = already, !.write = TRUE, !.timeout = TRUE]
         IN  d.hstate = "WAITING" =>
               /\ HttpMd(c) /\ c.hstate = "WRITING" /\ c.done = 0
               /\ c.interval = IF d.interval = "once" THEN "off" ELSE d.interval
<1> DEFINE f == Fired(d)
           c == [f EXCEPT !.sock = TRUE, !.hstate = "WRITING", !.done = 0,
                          !.connected = already, !.write = TRUE, !.timeout = TRUE]
<1> SUFFICES ASSUME d.hstate = "WAITING"
             PROVE  /\ HttpMd(c) /\ c.hstate = "WRITING" /\ c.done = 0
                    /\ c.interval = IF d.interval = "once" THEN "off" ELSE d.interval
  OBVIOUS
<1>0. /\ f \in Bits /\ f.read = FALSE
      /\ f.interval = IF d.interval = "once" THEN "off" ELSE d.interval
  BY FiredMd DEF HttpMd, Bits
<1> HIDE DEF f
<1>1. c \in Bits BY <1>0, Modulus DEF Bits, HState
<1>2. /\ c.hstate = "WRITING" /\ c.sock = TRUE /\ c.read = FALSE /\ c.write = TRUE
      /\ c.timeout = TRUE /\ c.done = 0 /\ c.interval = f.interval
  BY <1>0 DEF Bits
<1> HIDE DEF c
<1> QED BY <1>0, <1>1, <1>2 DEF HttpMd

LEMMA AgainMd ==
  ASSUME NEW d, HttpMd(d)
  PROVE  LET c == [d EXCEPT !.connected = TRUE]
         IN  /\ HttpMd(c) /\ c.hstate = d.hstate /\ c.interval = d.interval /\ c.done = d.done
<1> DEFINE c == [d EXCEPT !.connected = TRUE]
<1>1. c \in Bits BY DEF HttpMd, Bits
<1>2. /\ c.hstate = d.hstate /\ c.sock = d.sock /\ c.read = d.read /\ c.write = d.write
      /\ c.timeout = d.timeout /\ c.done = d.done /\ c.interval = d.interval
  BY DEF HttpMd, Bits
<1> HIDE DEF c
<1> QED BY <1>1, <1>2 DEF HttpMd, c

LEMMA ReadingMd ==
  ASSUME NEW d, HttpMd(d), d.hstate = "WRITING"
  PROVE  LET c == Reading(d)
         IN  HttpMd(c) /\ c.hstate = "READING" /\ c.interval = d.interval /\ c.done = 0
<1> DEFINE c == Reading(d)
<1>1. c \in Bits BY Modulus DEF HttpMd, Bits, Reading, HState
<1>2. /\ c.hstate = "READING" /\ c.sock = d.sock /\ c.read = TRUE /\ c.write = FALSE
      /\ c.timeout = d.timeout /\ c.done = 0 /\ c.interval = d.interval
  BY DEF HttpMd, Bits, Reading
<1>3. 0 < RESP BY HttpAssumption
<1> HIDE DEF c
<1> QED BY <1>1, <1>2, <1>3 DEF HttpMd, c

LEMMA PartMd ==
  ASSUME NEW d, HttpMd(d), d.hstate = "READING", NEW n \in 0..(RESP - 1), n < RESP - d.done
  PROVE  LET c == [d EXCEPT !.done = @ + n]
         IN  HttpMd(c) /\ c.hstate = "READING" /\ c.interval = d.interval /\ c.done = d.done + n
<1> DEFINE c == [d EXCEPT !.done = @ + n]
<1>1. d.done \in Nat /\ d.done + n \in 0..(UINT - 1) /\ d.done + n < RESP
  BY HttpAssumption DEF HttpMd, Bits
<1>2. c \in Bits BY <1>1 DEF HttpMd, Bits
<1>3. /\ c.hstate = d.hstate /\ c.sock = d.sock /\ c.read = d.read /\ c.write = d.write
      /\ c.timeout = d.timeout /\ c.done = d.done + n /\ c.interval = d.interval
  BY DEF HttpMd, Bits
<1> HIDE DEF c
<1> QED BY <1>1, <1>2, <1>3 DEF HttpMd, c

LEMMA ErrorMd ==
  ASSUME NEW d, HttpMd(d)
  PROVE  LET c == [Closed(d) EXCEPT !.connected = TRUE, !.done = (d.done - 1) % UINT]
         IN  HttpMd(c) /\ c.hstate = "WAITING" /\ c.interval = d.interval
<1> DEFINE e == Closed(d)
           c == [e EXCEPT !.connected = TRUE, !.done = (d.done - 1) % UINT]
<1>0. e \in Bits /\ HttpMd(e) /\ e.hstate = "WAITING" /\ e.interval = d.interval
  BY ClosedMd DEF HttpMd
<1> HIDE DEF e
<1>1. (d.done - 1) % UINT \in 0..(UINT - 1) BY HttpAssumption DEF HttpMd, Bits
<1>2. c \in Bits BY <1>0, <1>1 DEF Bits
<1>3. /\ c.hstate = e.hstate /\ c.sock = e.sock /\ c.read = e.read /\ c.write = e.write
      /\ c.timeout = e.timeout /\ c.interval = e.interval
  BY <1>0 DEF Bits
<1> HIDE DEF c
<1>4. HttpMd(c) BY <1>0, <1>2, <1>3 DEF HttpMd
<1> QED BY <1>0, <1>3, <1>4 DEF c, e

-----------------------------------------------------------------------------
(* One callback of http_status.                                            *)

PollRec == [out : Nat, fresh : SUBSET (1..RESP)]
RepRec == [turn : {0, 1}, last : {"none", "ok", "fail"}, fair : BOOLEAN]

HttpTypes == md \in [Mon -> Bits] /\ poll \in [Mon -> PollRec] /\ rep \in [Mon -> RepRec]

\* What of the request and of the response belongs to the poll.
HttpPoll(d, q) ==
    /\ d.hstate = "WRITING" => q.out = 0 /\ q.fresh = {}
    /\ d.hstate = "READING" => q.out = REQ /\ q.fresh = 1..d.done

HttpOk(m) == HttpMd(md[m]) /\ HttpPoll(md[m], poll[m]) /\ rep[m].fair = TRUE

FiredFrom(i) == IF i = "once" THEN "off" ELSE i

\* Nothing that the monitoring core could see, a poll that begins, or a result.
Quiet(w, v, i, j, same) ==
    (w <=> v) /\ (j = i \/ (~w /\ j = FiredFrom(i))) /\ same
Begins(w, v, i, j, same) == w /\ ~v /\ i # "off" /\ j = FiredFrom(i) /\ same
Reports(w, v, i, j, turns) ==
    v /\ ((~w /\ j = i) \/ (w /\ i # "off" /\ j = FiredFrom(i))) /\ turns

HttpWaits(m) == md[m].hstate = "WAITING"
HttpSame(m) == rep'[m] = rep[m]
HttpTurns(m) == rep'[m].turn = 1 - rep[m].turn /\ rep'[m].last \in {"ok", "fail"}

HttpOthers(m) ==
    /\ stage' = stage /\ HttpTypes'
    /\ \A n \in Mon \ {m} : md'[n] = md[n] /\ poll'[n] = poll[n] /\ rep'[n] = rep[n]

HttpSteps(m) ==
    \/ Quiet(HttpWaits(m), HttpWaits(m)', md[m].interval, md'[m].interval, HttpSame(m))
    \/ Begins(HttpWaits(m), HttpWaits(m)', md[m].interval, md'[m].interval, HttpSame(m))
    \/ Reports(HttpWaits(m), HttpWaits(m)', md[m].interval, md'[m].interval, HttpTurns(m))

LEMMA MdChange ==
  ASSUME HttpTypes, NEW m \in Mon, NEW d \in Bits, md' = [md EXCEPT ![m] = d]
  PROVE  md' \in [Mon -> Bits] /\ md'[m] = d /\ \A n \in Mon \ {m} : md'[n] = md[n]
BY DEF HttpTypes

\* A call of the updater: with a failure, or with a poll that went through.
LEMMA RepChange ==
  ASSUME HttpTypes, NEW m \in Mon, NEW ok \in BOOLEAN, Updater(m, ok),
         ok => poll[m].out = REQ /\ poll'[m].fresh = 1..RESP
  PROVE  /\ rep' \in [Mon -> RepRec] /\ rep'[m].fair = TRUE /\ HttpTurns(m)
         /\ \A n \in Mon \ {m} : rep'[n] = rep[n]
<1> DEFINE f == ok => poll[m].out = REQ /\ poll'[m].fresh = 1..RESP
           l == IF ok THEN "ok" ELSE "fail"
           r == [turn |-> 1 - rep[m].turn, last |-> l, fair |-> f]
<1>1. f = TRUE OBVIOUS
<1>2. l \in {"ok", "fail"} OBVIOUS
<1>3. rep' = [rep EXCEPT ![m] = r] BY DEF Updater
<1>4. rep[m] \in RepRec /\ rep \in [Mon -> RepRec] BY DEF HttpTypes
<1> HIDE DEF f, l
<1>5. 1 - rep[m].turn \in {0, 1} BY <1>4 DEF RepRec
<1>6. r \in RepRec BY <1>1, <1>2, <1>5 DEF RepRec
<1>7. r.turn = 1 - rep[m].turn /\ r.last = l /\ r.fair = TRUE BY <1>1
<1> HIDE DEF r
<1>8. rep' \in [Mon -> RepRec] /\ rep'[m] = r /\ \A n \in Mon \ {m} : rep'[n] = rep[n]
  BY <1>3, <1>4, <1>6
<1> QED BY <1>2, <1>7, <1>8 DEF HttpTurns

LEMMA PollChange ==
  ASSUME HttpTypes, NEW m \in Mon, NEW q \in PollRec, poll' = [poll EXCEPT ![m] = q]
  PROVE  poll' \in [Mon -> PollRec] /\ poll'[m] = q /\ \A n \in Mon \ {m} : poll'[n] = poll[n]
BY DEF HttpTypes

LEMMA HttpInterval ==
  ASSUME HttpTypes, NEW m \in Mon, HttpOk(m), monio_interval_cb(m)
  PROVE  HttpOthers(m) /\ HttpOk(m)' /\ HttpSteps(m)
<1> DEFINE d == md[m]
<1>0. HttpMd(d) /\ HttpPoll(d, poll[m]) /\ rep[m].fair = TRUE BY DEF HttpOk
<1> HIDE DEF d
<1>1. CASE IntervalSkip(m)
  <2>1. /\ md' = [md EXCEPT ![m] = Fired(d)] /\ UNCHANGED <<stage, poll, rep>>
        /\ d.interval # "off" /\ d.hstate # "WAITING"
    BY <1>1 DEF IntervalSkip, d
  <2>2. /\ HttpMd(Fired(d)) /\ Fired(d).hstate = d.hstate /\ Fired(d).done = d.done
        /\ Fired(d).interval = FiredFrom(d.interval)
    BY <1>0, FiredMd DEF FiredFrom
  <2>3. md' \in [Mon -> Bits] /\ md'[m] = Fired(d) /\ \A n \in Mon \ {m} : md'[n] = md[n]
    BY <2>1, <2>2, MdChange DEF HttpMd
  <2>4. HttpOthers(m) BY <2>1, <2>3 DEF HttpOthers, HttpTypes
  <2>5. HttpOk(m)' BY <1>0, <2>1, <2>2, <2>3 DEF HttpOk, HttpPoll
  <2>6. HttpSteps(m) BY <2>1, <2>2, <2>3 DEF HttpSteps, Quiet, HttpWaits, HttpSame, d
  <2> QED BY <2>4, <2>5, <2>6
<1>2. CASE IntervalFail(m)
  <2>1. /\ md' = [md EXCEPT ![m] = Fired(d)] /\ poll' = poll /\ stage' = stage /\ Updater(m, FALSE)
        /\ d.interval # "off" /\ d.hstate = "WAITING"
    BY <1>2 DEF IntervalFail, d
  <2>2. /\ HttpMd(Fired(d)) /\ Fired(d).hstate = d.hstate
        /\ Fired(d).interval = FiredFrom(d.interval)
    BY <1>0, FiredMd DEF FiredFrom
  <2>3. md' \in [Mon -> Bits] /\ md'[m] = Fired(d) /\ \A n \in Mon \ {m} : md'[n] = md[n]
    BY <2>1, <2>2, MdChange DEF HttpMd
  <2>4. /\ rep' \in [Mon -> RepRec] /\ rep'[m].fair = TRUE /\ HttpTurns(m)
        /\ \A n \in Mon \ {m} : rep'[n] = rep[n]
    BY <2>1, RepChange
  <2>5. HttpOthers(m) BY <2>1, <2>3, <2>4 DEF HttpOthers, HttpTypes
  <2>6. HttpOk(m)' BY <2>1, <2>2, <2>3, <2>4 DEF HttpOk, HttpPoll
  <2>7. HttpSteps(m) BY <2>1, <2>2, <2>3, <2>4 DEF HttpSteps, Reports, HttpWaits, d
  <2> QED BY <2>5, <2>6, <2>7
<1>3. ASSUME NEW already \in BOOLEAN, IntervalConnect(m, already)
      PROVE  HttpOthers(m) /\ HttpOk(m)' /\ HttpSteps(m)
  <2> DEFINE c == [Fired(d) EXCEPT !.sock = TRUE, !.hstate = "WRITING", !.done = 0,
                                   !.connected = already, !.write = TRUE, !.timeout = TRUE]
             q == [out |-> 0, fresh |-> {}]
  <2>1. /\ md' = [md EXCEPT ![m] = c] /\ poll' = [poll EXCEPT ![m] = q]
        /\ UNCHANGED <<stage, rep>> /\ d.interval # "off" /\ d.hstate = "WAITING"
    BY <1>3 DEF IntervalConnect, d
  <2>2. /\ HttpMd(c) /\ c.hstate = "WRITING" /\ c.done = 0 /\ c.interval = FiredFrom(d.interval)
    BY <1>0, <2>1, ConnectMd DEF FiredFrom
  <2> HIDE DEF c
  <2>3. md' \in [Mon -> Bits] /\ md'[m] = c /\ \A n \in Mon \ {m} : md'[n] = md[n]
    BY <2>1, <2>2, MdChange DEF HttpMd
  <2>4. q \in PollRec /\ q.out = 0 /\ q.fresh = {} BY DEF PollRec
  <2> HIDE DEF q
  <2>5. poll' \in [Mon -> PollRec] /\ poll'[m] = q /\ \A n \in Mon \ {m} : poll'[n] = poll[n]
    BY <2>1, <2>4, PollChange
  <2>6. HttpOthers(m) BY <2>1, <2>3, <2>5 DEF HttpOthers, HttpTypes
  <2>7. HttpOk(m)' BY <1>0, <2>1, <2>2, <2>3, <2>4, <2>5 DEF HttpOk, HttpPoll
  <2>8. HttpSteps(m) BY <2>1, <2>2, <2>3 DEF HttpSteps, Begins, HttpWaits, HttpSame, d
  <2> QED BY <2>6, <2>7, <2>8
<1> QED BY <1>1, <1>2, <1>3 DEF monio_interval_cb

\* A callback that ends the poll.
LEMMA HttpEnd ==
  ASSUME HttpTypes, NEW m \in Mon, HttpOk(m), md[m].hstate # "WAITING", NEW c,
         HttpMd(c), c.hstate = "WAITING", c.interval = md[m].interval,
         md' = [md EXCEPT ![m] = c], stage' = stage,
         poll' \in [Mon -> PollRec], \A n \in Mon \ {m} : poll'[n] = poll[n],
         NEW ok \in BOOLEAN, Updater(m, ok),
         ok => poll[m].out = REQ /\ poll'[m].fresh = 1..RESP
  PROVE  HttpOthers(m) /\ HttpOk(m)' /\ HttpSteps(m)
<1>1. md' \in [Mon -> Bits] /\ md'[m] = c /\ \A n \in Mon \ {m} : md'[n] = md[n]
  BY MdChange DEF HttpMd
<1>2. /\ rep' \in [Mon -> RepRec] /\ rep'[m].fair = TRUE /\ HttpTurns(m)
      /\ \A n \in Mon \ {m} : rep'[n] = rep[n]
  BY RepChange
<1>3. HttpOthers(m) BY <1>1, <1>2 DEF HttpOthers, HttpTypes
<1>4. HttpOk(m)' BY <1>1, <1>2 DEF HttpOk, HttpPoll
<1>5. HttpSteps(m) BY <1>1, <1>2 DEF HttpSteps, Reports, HttpWaits
<1> QED BY <1>3, <1>4, <1>5

LEMMA HttpWrite ==
  ASSUME PartialSends = FALSE, HttpTypes, NEW m \in Mon, HttpOk(m), monio_write_cb(m)
  PROVE  HttpOthers(m) /\ HttpOk(m)' /\ HttpSteps(m)
<1> DEFINE d == md[m]
<1>0. HttpMd(d) /\ HttpPoll(d, poll[m]) /\ rep[m].fair = TRUE /\ poll \in [Mon -> PollRec]
  BY DEF HttpOk, HttpTypes
<1>1. d.write BY DEF monio_write_cb, WriteConnectFail, WriteAgain, WriteSend, WriteError
<1>2. d.hstate = "WRITING" /\ d.done = 0
  BY <1>0, <1>1 DEF HttpMd, Bits, HState
<1>3. to_send(m) = REQ /\ to_send(m) # (-1) % UINT
  BY <1>2, Modulus, HttpAssumption DEF to_send
<1>4. HttpMd(Closed(d)) /\ Closed(d).hstate = "WAITING" /\ Closed(d).interval = d.interval
  BY <1>0, ClosedMd DEF HttpMd
<1>5. CASE WriteConnectFail(m)
  <2>1. /\ md' = [md EXCEPT ![m] = Closed(d)] /\ poll' = poll /\ stage' = stage /\ Updater(m, FALSE)
    BY <1>5 DEF WriteConnectFail
  <2> QED BY <1>0, <1>2, <1>4, <2>1, HttpEnd
<1>6. CASE WriteAgain(m)
  <2> DEFINE c == [d EXCEPT !.connected = TRUE]
  <2>1. md' = [md EXCEPT ![m] = c] /\ UNCHANGED <<stage, poll, rep>> BY <1>6 DEF WriteAgain
  <2>2. HttpMd(c) /\ c.hstate = d.hstate /\ c.interval = d.interval /\ c.done = d.done
    BY <1>0, AgainMd
  <2> HIDE DEF c
  <2>3. md' \in [Mon -> Bits] /\ md'[m] = c /\ \A n \in Mon \ {m} : md'[n] = md[n]
    BY <2>1, <2>2, MdChange DEF HttpMd
  <2>4. HttpOthers(m) BY <2>1, <2>3 DEF HttpOthers, HttpTypes
  <2>5. HttpOk(m)' BY <1>0, <2>1, <2>2, <2>3 DEF HttpOk, HttpPoll
  <2>6. HttpSteps(m) BY <2>1, <2>2, <2>3 DEF HttpSteps, Quiet, HttpWaits, HttpSame
  <2> QED BY <2>4, <2>5, <2>6
<1>7. ASSUME NEW n \in 1..REQ, WriteSend(m, n)
      PROVE  HttpOthers(m) /\ HttpOk(m)' /\ HttpSteps(m)
  <2> DEFINE c == Reading(d)
             q == [poll[m] EXCEPT !.out = @ + n]
  <2>1. n = REQ BY <1>7 DEF WriteSend
  <2>2. /\ md' = [md EXCEPT ![m] = c] /\ poll' = [poll EXCEPT ![m] = q] /\ UNCHANGED <<stage, rep>>
    BY <1>3, <1>7, <2>1 DEF WriteSend
  <2>3. HttpMd(c) /\ c.hstate = "READING" /\ c.interval = d.interval /\ c.done = 0
    BY <1>0, <1>2, ReadingMd
  <2> HIDE DEF c
  <2>4. q \in PollRec /\ q.out = REQ /\ q.fresh = {}
    BY <1>0, <1>2, <2>1, HttpAssumption DEF PollRec, HttpPoll
  <2> HIDE DEF q
  <2>5. md' \in [Mon -> Bits] /\ md'[m] = c /\ \A k \in Mon \ {m} : md'[k] = md[k]
    BY <2>2, <2>3, MdChange DEF HttpMd
  <2>6. poll' \in [Mon -> PollRec] /\ poll'[m] = q /\ \A k \in Mon \ {m} : poll'[k] = poll[k]
    BY <2>2, <2>4, PollChange
  <2>7. HttpOthers(m) BY <2>2, <2>5, <2>6 DEF HttpOthers, HttpTypes
  <2>8. HttpOk(m)'
    <3>1. q.fresh = 1..c.done BY <2>3, <2>4
    <3> QED BY <1>0, <2>2, <2>3, <2>4, <2>5, <2>6, <3>1 DEF HttpOk, HttpPoll
  <2>9. HttpSteps(m) BY <1>2, <2>2, <2>3, <2>5 DEF HttpSteps, Quiet, HttpWaits, HttpSame
  <2> QED BY <2>7, <2>8, <2>9
<1>8. CASE WriteError(m)
  <2> DEFINE c == [Closed(d) EXCEPT !.connected = TRUE, !.done = (d.done - 1) % UINT]
  <2>1. /\ md' = [md EXCEPT ![m] = c] /\ poll' = poll /\ stage' = stage /\ Updater(m, FALSE)
    BY <1>3, <1>8 DEF WriteError
  <2>2. HttpMd(c) /\ c.hstate = "WAITING" /\ c.interval = d.interval BY <1>0, ErrorMd
  <2> HIDE DEF c
  <2> QED BY <1>0, <1>2, <2>1, <2>2, HttpEnd
<1> QED BY <1>5, <1>6, <1>7, <1>8 DEF monio_write_cb

LEMMA HttpRead ==
  ASSUME HttpTypes, NEW m \in Mon, HttpOk(m), monio_read_cb(m)
  PROVE  HttpOthers(m) /\ HttpOk(m)' /\ HttpSteps(m)
<1> DEFINE d == md[m]
<1>0. HttpMd(d) /\ HttpPoll(d, poll[m]) /\ rep[m].fair = TRUE /\ poll \in [Mon -> PollRec]
  BY DEF HttpOk, HttpTypes
<1>1. d.read BY DEF monio_read_cb, ReadPart, ReadLast, ReadError
<1>2. d.hstate = "READING" /\ d.done \in Nat /\ d.done < RESP /\ RESP \in Nat
  BY <1>0, <1>1, HttpAssumption DEF HttpMd, Bits, HState
<1>3. poll[m].out = REQ /\ poll[m].fresh = 1..d.done /\ poll[m] \in PollRec
  BY <1>0, <1>2 DEF HttpPoll
<1>4. HttpMd(Closed(d)) /\ Closed(d).hstate = "WAITING" /\ Closed(d).interval = d.interval
  BY <1>0, ClosedMd DEF HttpMd
<1>5. ASSUME NEW n \in 0..(RESP - 1), ReadPart(m, n)
      PROVE  HttpOthers(m) /\ HttpOk(m)' /\ HttpSteps(m)
  <2> DEFINE c == [d EXCEPT !.done = @ + n]
             q == [poll[m] EXCEPT !.fresh = @ \cup ((d.done + 1)..(d.done + n))]
  <2>1. /\ n < RESP - d.done /\ md' = [md EXCEPT ![m] = c] /\ poll' = [poll EXCEPT ![m] = q]
        /\ UNCHANGED <<stage, rep>>
    BY <1>5 DEF ReadPart
  <2>2. HttpMd(c) /\ c.hstate = "READING" /\ c.interval = d.interval /\ c.done = d.done + n
    BY <1>0, <1>2, <2>1, PartMd
  <2> HIDE DEF c
  <2>3. (1..d.done) \cup ((d.done + 1)..(d.done + n)) = 1..(d.done + n)
        /\ 1..(d.done + n) \in SUBSET (1..RESP)
    BY <1>2, <2>1
  <2>4. q \in PollRec /\ q.out = REQ /\ q.fresh = 1..(d.done + n)
    BY <1>3, <2>3 DEF PollRec
  <2> HIDE DEF q
  <2>5. md' \in [Mon -> Bits] /\ md'[m] = c /\ \A k \in Mon \ {m} : md'[k] = md[k]
    BY <2>1, <2>2, MdChange DEF HttpMd
  <2>6. poll' \in [Mon -> PollRec] /\ poll'[m] = q /\ \A k \in Mon \ {m} : poll'[k] = poll[k]
    BY <2>1, <2>4, PollChange
  <2>7. HttpOthers(m) BY <2>1, <2>5, <2>6 DEF HttpOthers, HttpTypes
  <2>8. HttpOk(m)' BY <1>0, <2>1, <2>2, <2>4, <2>5, <2>6 DEF HttpOk, HttpPoll
  <2>9. HttpSteps(m) BY <1>2, <2>1, <2>2, <2>5 DEF HttpSteps, Quiet, HttpWaits, HttpSame
  <2> QED BY <2>7, <2>8, <2>9
<1>6. ASSUME NEW ok \in BOOLEAN, ReadLast(m, ok)
      PROVE  HttpOthers(m) /\ HttpOk(m)' /\ HttpSteps(m)
  <2> DEFINE q == [poll[m] EXCEPT !.fresh = @ \cup ((d.done + 1)..RESP)]
  <2>1. /\ md' = [md EXCEPT ![m] = Closed(d)] /\ poll' = [poll EXCEPT ![m] = q]
        /\ stage' = stage /\ Updater(m, ok)
    BY <1>6 DEF ReadLast
  <2>2. (1..d.done) \cup ((d.done + 1)..RESP) = 1..RESP BY <1>2
  <2>3. q \in PollRec /\ q.fresh = 1..RESP BY <1>3, <2>2 DEF PollRec
  <2> HIDE DEF q
  <2>4. poll' \in [Mon -> PollRec] /\ poll'[m] = q /\ \A k \in Mon \ {m} : poll'[k] = poll[k]
    BY <2>1, <2>3, PollChange
  <2> QED BY <1>2, <1>3, <1>4, <2>1, <2>3, <2>4, HttpEnd
<1>7. CASE ReadError(m)
  <2>1. /\ md' = [md EXCEPT ![m] = Closed(d)] /\ poll' = poll /\ stage' = stage /\ Updater(m, FALSE)
    BY <1>7 DEF ReadError
  <2> QED BY <1>0, <1>2, <1>4, <2>1, HttpEnd
<1> QED BY <1>5, <1>6, <1>7 DEF monio_read_cb

LEMMA HttpEffect ==
  ASSUME PartialSends = FALSE, HttpTypes, NEW m \in Mon, HttpOk(m), Callback(m)
  PROVE  HttpOthers(m) /\ HttpOk(m)' /\ HttpSteps(m)
<1>1. CASE monio_timeout_cb(m)
  <2> DEFINE d == md[m]
  <2>1. /\ md' = [md EXCEPT ![m] = Closed(d)] /\ poll' = poll /\ stage' = stage
        /\ Updater(m, FALSE) /\ d.timeout
    BY <1>1 DEF monio_timeout_cb
  <2>2. HttpMd(d) /\ poll \in [Mon -> PollRec] BY DEF HttpOk, HttpTypes
  <2>3. d.hstate # "WAITING" BY <2>1, <2>2 DEF HttpMd
  <2>4. HttpMd(Closed(d)) /\ Closed(d).hstate = "WAITING" /\ Closed(d).interval = d.interval
    BY <2>2, ClosedMd DEF HttpMd
  <2> QED BY <2>1, <2>2, <2>3, <2>4, HttpEnd
<1> QED BY <1>1, HttpInterval, HttpWrite, HttpRead DEF Callback

-----------------------------------------------------------------------------
(* One callback of tcp_connect.                                            *)

TcpBits == [tcp_state : {"WAITING", "CONNECTING"}, sock : BOOLEAN, connect : BOOLEAN,
            timeout : BOOLEAN, interval : {"off", "once", "repeat"}]
TcpRep == [turn : {0, 1}, last : {"none", "skip", "ok", "fail"}]

\* The record of a tcp_connect monitor.
TcpMd(d) ==
    /\ d \in TcpBits
    /\ d.tcp_state = "WAITING" => ~d.sock /\ ~d.connect /\ ~d.timeout
    /\ d.tcp_state = "CONNECTING" => d.sock /\ d.connect /\ d.timeout

TcpTypes == tmd \in [TcpMon -> TcpBits] /\ trep \in [TcpMon -> TcpRep]

Skips(w, v, i, j, skipped) == w /\ v /\ i # "off" /\ j = FiredFrom(i) /\ skipped

TcpWaits(m) == tmd[m].tcp_state = "WAITING"
TcpSame(m) == trep'[m] = trep[m]
TcpTurns(m) == trep'[m].turn = 1 - trep[m].turn /\ trep'[m].last \in {"ok", "fail"}
TcpSkipped(m) ==
    /\ trep'[m].turn = trep[m].turn
    /\ trep'[m].last = IF trep[m].last = "none" THEN "skip" ELSE trep[m].last

TcpOthers(m) ==
    /\ stage' = stage /\ TcpTypes'
    /\ \A n \in TcpMon \ {m} : tmd'[n] = tmd[n] /\ trep'[n] = trep[n]

TcpSteps(m) ==
    \/ Quiet(TcpWaits(m), TcpWaits(m)', tmd[m].interval, tmd'[m].interval, TcpSame(m))
    \/ Begins(TcpWaits(m), TcpWaits(m)', tmd[m].interval, tmd'[m].interval, TcpSame(m))
    \/ Reports(TcpWaits(m), TcpWaits(m)', tmd[m].interval, tmd'[m].interval, TcpTurns(m))
    \/ Skips(TcpWaits(m), TcpWaits(m)', tmd[m].interval, tmd'[m].interval, TcpSkipped(m))

LEMMA TcpClosed ==
  ASSUME NEW d \in TcpBits
  PROVE  /\ TcpMd(T!Closed(d)) /\ T!Closed(d).tcp_state = "WAITING"
         /\ T!Closed(d).interval = d.interval
<1> DEFINE c == T!Closed(d)
<1>1. c \in TcpBits BY DEF T!Closed, TcpBits
<1>2. /\ c.tcp_state = "WAITING" /\ c.sock = FALSE /\ c.connect = FALSE
      /\ c.timeout = FALSE /\ c.interval = d.interval
  BY DEF T!Closed, TcpBits
<1> HIDE DEF c
<1> QED BY <1>1, <1>2 DEF TcpMd, c

LEMMA TcpFired ==
  ASSUME NEW d, TcpMd(d)
  PROVE  /\ TcpMd(T!Fired(d)) /\ T!Fired(d).tcp_state = d.tcp_state
         /\ T!Fired(d).interval = FiredFrom(d.interval)
<1> DEFINE c == T!Fired(d)
<1>1. c \in TcpBits BY DEF TcpMd, T!Fired, TcpBits
<1>2. /\ c.tcp_state = d.tcp_state /\ c.sock = d.sock /\ c.connect = d.connect
      /\ c.timeout = d.timeout /\ c.interval = FiredFrom(d.interval)
  BY DEF TcpMd, T!Fired, TcpBits, FiredFrom
<1> HIDE DEF c
<1> QED BY <1>1, <1>2 DEF TcpMd, c

LEMMA TcpConnecting ==
  ASSUME NEW d, TcpMd(d)
  PROVE  LET c == [T!Fired(d) EXCEPT !.sock = TRUE, !.tcp_state = "CONNECTING",
                                     !.connect = TRUE, !.timeout = TRUE]
         IN  TcpMd(c) /\ c.tcp_state = "CONNECTING" /\ c.interval = FiredFrom(d.interval)
<1> DEFINE f == T!Fired(d)
           c == [f EXCEPT !.sock = TRUE, !.tcp_state = "CONNECTING",
                          !.connect = TRUE, !.timeout = TRUE]
<1>0. f \in TcpBits /\ f.interval = FiredFrom(d.interval) BY TcpFired DEF TcpMd
<1> HIDE DEF f
<1>1. c \in TcpBits BY <1>0 DEF TcpBits
<1>2. /\ c.tcp_state = "CONNECTING" /\ c.sock = TRUE /\ c.connect = TRUE
      /\ c.timeout = TRUE /\ c.interval = f.interval
  BY <1>0 DEF TcpBits
<1> HIDE DEF c
<1>3. TcpMd(c) BY <1>1, <1>2 DEF TcpMd
<1> QED BY <1>0, <1>2, <1>3 DEF c, f

LEMMA TcpMdChange ==
  ASSUME TcpTypes, NEW m \in TcpMon, NEW d \in TcpBits, tmd' = [tmd EXCEPT ![m] = d]
  PROVE  tmd' \in [TcpMon -> TcpBits] /\ tmd'[m] = d /\ \A n \in TcpMon \ {m} : tmd'[n] = tmd[n]
BY DEF TcpTypes

LEMMA TcpRepChange ==
  ASSUME TcpTypes, NEW m \in TcpMon, NEW ok \in BOOLEAN, T!Updater(m, ok)
  PROVE  /\ trep' \in [TcpMon -> TcpRep] /\ TcpTurns(m)
         /\ \A n \in TcpMon \ {m} : trep'[n] = trep[n]
<1> DEFINE l == IF ok THEN "ok" ELSE "fail"
           r == [turn |-> 1 - trep[m].turn, last |-> l]
<1>1. l \in {"ok", "fail"} OBVIOUS
<1>2. trep' = [trep EXCEPT ![m] = r] BY DEF T!Updater
<1>3. trep[m] \in TcpRep /\ trep \in [TcpMon -> TcpRep] BY DEF TcpTypes
<1> HIDE DEF l
<1>4. 1 - trep[m].turn \in {0, 1} BY <1>3 DEF TcpRep
<1>5. r \in TcpRep /\ r.turn = 1 - trep[m].turn /\ r.last = l BY <1>1, <1>4 DEF TcpRep
<1> HIDE DEF r
<1>6. trep' \in [TcpMon -> TcpRep] /\ trep'[m] = r /\ \A n \in TcpMon \ {m} : trep'[n] = trep[n]
  BY <1>2, <1>3, <1>5
<1> QED BY <1>1, <1>5, <1>6 DEF TcpTurns

\* A callback that ends the poll, or a poll that ends in the callback that begins it.
LEMMA TcpEnd ==
  ASSUME TcpTypes, NEW m \in TcpMon, NEW c, TcpMd(c), c.tcp_state = "WAITING",
         \/ ~TcpWaits(m) /\ c.interval = tmd[m].interval
         \/ TcpWaits(m) /\ tmd[m].interval # "off" /\ c.interval = FiredFrom(tmd[m].interval),
         tmd' = [tmd EXCEPT ![m] = c], stage' = stage, NEW ok \in BOOLEAN, T!Updater(m, ok)
  PROVE  TcpOthers(m) /\ TcpMd(tmd'[m]) /\ TcpSteps(m)
<1>1. tmd' \in [TcpMon -> TcpBits] /\ tmd'[m] = c /\ \A n \in TcpMon \ {m} : tmd'[n] = tmd[n]
  BY TcpMdChange DEF TcpMd
<1>2. /\ trep' \in [TcpMon -> TcpRep] /\ TcpTurns(m)
      /\ \A n \in TcpMon \ {m} : trep'[n] = trep[n]
  BY TcpRepChange
<1>3. TcpOthers(m) BY <1>1, <1>2 DEF TcpOthers, TcpTypes
<1>4. TcpSteps(m) BY <1>1, <1>2 DEF TcpSteps, Reports, TcpWaits
<1> QED BY <1>1, <1>3, <1>4

LEMMA TcpEffect ==
  ASSUME TcpTypes, NEW m \in TcpMon, TcpMd(tmd[m]), T!Callback(m)
  PROVE  TcpOthers(m) /\ TcpMd(tmd'[m]) /\ TcpSteps(m)
<1> DEFINE d == tmd[m]
           f == T!Fired(d)
<1>0. /\ TcpMd(f) /\ f.tcp_state = d.tcp_state /\ f.interval = FiredFrom(d.interval)
  BY TcpFired
<1>1. /\ TcpMd(T!Closed(d)) /\ T!Closed(d).tcp_state = "WAITING"
      /\ T!Closed(d).interval = d.interval
  BY TcpClosed DEF TcpMd
<1>2. d.connect \/ d.timeout => ~TcpWaits(m) BY DEF TcpMd, TcpWaits
<1>3. CASE T!IntervalSkip(m)
  <2>1. /\ tmd' = [tmd EXCEPT ![m] = f] /\ UNCHANGED <<stage, trep>>
        /\ d.interval # "off" /\ d.tcp_state # "WAITING"
    BY <1>3 DEF T!IntervalSkip
  <2> HIDE DEF f
  <2>2. tmd' \in [TcpMon -> TcpBits] /\ tmd'[m] = f /\ \A n \in TcpMon \ {m} : tmd'[n] = tmd[n]
    BY <1>0, <2>1, TcpMdChange DEF TcpMd
  <2>3. TcpOthers(m) BY <2>1, <2>2 DEF TcpOthers, TcpTypes
  <2>4. TcpSteps(m) BY <1>0, <2>1, <2>2 DEF TcpSteps, Quiet, TcpWaits, TcpSame
  <2> QED BY <1>0, <2>2, <2>3, <2>4
<1>4. CASE T!IntervalLocalFail(m)
  <2> DEFINE l == IF trep[m].last = "none" THEN "skip" ELSE trep[m].last
             r == [trep[m] EXCEPT !.last = l]
  <2>1. /\ tmd' = [tmd EXCEPT ![m] = f] /\ stage' = stage /\ trep' = [trep EXCEPT ![m] = r]
        /\ d.interval # "off" /\ d.tcp_state = "WAITING"
    BY <1>4 DEF T!IntervalLocalFail
  <2> HIDE DEF f
  <2>2. tmd' \in [TcpMon -> TcpBits] /\ tmd'[m] = f /\ \A n \in TcpMon \ {m} : tmd'[n] = tmd[n]
    BY <1>0, <2>1, TcpMdChange DEF TcpMd
  <2>3. r \in TcpRep /\ r.turn = trep[m].turn /\ r.last = l BY DEF TcpTypes, TcpRep
  <2> HIDE DEF r
  <2>4. trep' \in [TcpMon -> TcpRep] /\ trep'[m] = r /\ \A n \in TcpMon \ {m} : trep'[n] = trep[n]
    BY <2>1, <2>3 DEF TcpTypes
  <2>5. TcpOthers(m) BY <2>1, <2>2, <2>4 DEF TcpOthers, TcpTypes
  <2>6. TcpSteps(m) BY <1>0, <2>1, <2>2, <2>3, <2>4 DEF TcpSteps, Skips, TcpWaits, TcpSkipped
  <2> QED BY <1>0, <2>2, <2>5, <2>6
<1>5. ASSUME NEW ok \in BOOLEAN, T!IntervalDone(m, ok)
      PROVE  TcpOthers(m) /\ TcpMd(tmd'[m]) /\ TcpSteps(m)
  <2>1. /\ tmd' = [tmd EXCEPT ![m] = f] /\ stage' = stage /\ T!Updater(m, ok)
        /\ d.interval # "off" /\ d.tcp_state = "WAITING"
    BY <1>5 DEF T!IntervalDone
  <2> HIDE DEF f
  <2> QED BY <1>0, <2>1, TcpEnd DEF TcpWaits
<1>6. CASE T!IntervalConnect(m)
  <2> DEFINE c == [f EXCEPT !.sock = TRUE, !.tcp_state = "CONNECTING",
                            !.connect = TRUE, !.timeout = TRUE]
  <2>1. /\ tmd' = [tmd EXCEPT ![m] = c] /\ UNCHANGED <<stage, trep>>
        /\ d.interval # "off" /\ d.tcp_state = "WAITING"
    BY <1>6 DEF T!IntervalConnect
  <2>2. TcpMd(c) /\ c.tcp_state = "CONNECTING" /\ c.interval = FiredFrom(d.interval)
    BY TcpConnecting
  <2> HIDE DEF c, f
  <2>3. tmd' \in [TcpMon -> TcpBits] /\ tmd'[m] = c /\ \A n \in TcpMon \ {m} : tmd'[n] = tmd[n]
    BY <2>1, <2>2, TcpMdChange DEF TcpMd
  <2>4. TcpOthers(m) BY <2>1, <2>3 DEF TcpOthers, TcpTypes
  <2>5. TcpSteps(m) BY <2>1, <2>2, <2>3 DEF TcpSteps, Begins, TcpWaits, TcpSame
  <2> QED BY <2>2, <2>3, <2>4, <2>5
<1>7. ASSUME NEW ok \in BOOLEAN, T!monio_connect_cb(m, ok)
      PROVE  TcpOthers(m) /\ TcpMd(tmd'[m]) /\ TcpSteps(m)
  <2>1. /\ tmd' = [tmd EXCEPT ![m] = T!Closed(d)] /\ stage' = stage /\ T!Updater(m, ok) /\ d.connect
    BY <1>7 DEF T!monio_connect_cb
  <2> QED BY <1>1, <1>2, <2>1, TcpEnd
<1>8. CASE T!monio_timeout_cb(m)
  <2>1. /\ tmd' = [tmd EXCEPT ![m] = T!Closed(d)] /\ stage' = stage /\ T!Updater(m, FALSE) /\ d.timeout
    BY <1>8 DEF T!monio_timeout_cb
  <2> QED BY <1>1, <1>2, <2>1, TcpEnd
<1> QED BY <1>3, <1>4, <1>5, <1>6, <1>7, <1>8 DEF T!Callback, T!monio_interval_cb

-----------------------------------------------------------------------------
(* The rounds of monio_start.                                              *)

\* Before the initial round nothing is armed; in it a monitor whose timer has not
\* fired has no result, and one that has fired and waits again has one.
Round(s, w, i, l) ==
    /\ s = "config" => w /\ i = "off" /\ l = "none"
    /\ s = "init" => /\ i # "repeat"
                     /\ i = "once" => w /\ l = "none"
                     /\ i = "off" /\ w => l # "none"

HttpRound(m) == Round(stage, HttpWaits(m), md[m].interval, rep[m].last)
TcpRound(m) == Round(stage, TcpWaits(m), tmd[m].interval, trep[m].last)

IInv ==
    /\ stage \in {"config", "init", "run"} /\ HttpTypes /\ TcpTypes
    /\ \A m \in Mon : HttpOk(m) /\ HttpRound(m)
    /\ \A m \in TcpMon : TcpMd(tmd[m]) /\ TcpRound(m)

LEMMA InvInit == PluginsInit => IInv
<1> SUFFICES ASSUME PluginsInit PROVE IInv OBVIOUS
<1> DEFINE d == [hstate |-> "WAITING", sock |-> FALSE, read |-> FALSE,
                 write |-> FALSE, timeout |-> FALSE, interval |-> "off",
                 done |-> 0, connected |-> FALSE]
           q == [out |-> 0, fresh |-> {}]
           r == [turn |-> 0, last |-> "none", fair |-> TRUE]
           e == [tcp_state |-> "WAITING", sock |-> FALSE, connect |-> FALSE,
                 timeout |-> FALSE, interval |-> "off"]
           s == [turn |-> 0, last |-> "none"]
<1>1. /\ stage = "config" /\ md = [m \in Mon |-> d] /\ poll = [m \in Mon |-> q]
      /\ rep = [m \in Mon |-> r]
      /\ tmd = [m \in TcpMon |-> e] /\ trep = [m \in TcpMon |-> s]
  BY DEF PluginsInit, Init, T!Init
<1>2. d \in Bits BY Modulus DEF Bits, HState
<1>3. HttpMd(d) BY <1>2 DEF HttpMd
<1>4. q \in PollRec /\ r \in RepRec /\ HttpPoll(d, q) BY DEF PollRec, RepRec, HttpPoll
<1>5. e \in TcpBits /\ s \in TcpRep BY DEF TcpBits, TcpRep
<1>6. TcpMd(e) BY <1>5 DEF TcpMd
<1>7. HttpTypes /\ TcpTypes BY <1>1, <1>2, <1>4, <1>5 DEF HttpTypes, TcpTypes
<1>8. ASSUME NEW m \in Mon PROVE HttpOk(m) /\ HttpRound(m)
  BY <1>1, <1>3, <1>4 DEF HttpOk, HttpRound, Round, HttpWaits
<1>9. ASSUME NEW m \in TcpMon PROVE TcpMd(tmd[m]) /\ TcpRound(m)
  BY <1>1, <1>6 DEF TcpRound, Round, TcpWaits
<1> QED BY <1>1, <1>7, <1>8, <1>9 DEF IInv

\* init_monitors and start_monitors arm all the interval timers.
LEMMA HttpArmed ==
  ASSUME HttpTypes, \A m \in Mon : HttpOk(m), NEW i \in {"once", "repeat"},
         md' = [m \in Mon |-> [md[m] EXCEPT !.interval = i]], UNCHANGED <<poll, rep>>
  PROVE  /\ HttpTypes'
         /\ \A m \in Mon : HttpOk(m)' /\ md'[m].hstate = md[m].hstate /\ md'[m].interval = i
<1>1. ASSUME NEW m \in Mon
      PROVE  md'[m] \in Bits /\ HttpOk(m)' /\ md'[m].hstate = md[m].hstate /\ md'[m].interval = i
  <2> DEFINE d == md[m]
             c == [d EXCEPT !.interval = i]
  <2>1. md'[m] = c OBVIOUS
  <2>2. HttpMd(d) /\ HttpPoll(d, poll[m]) /\ rep[m].fair = TRUE BY DEF HttpOk
  <2> HIDE DEF d
  <2>3. c \in Bits BY <2>2 DEF HttpMd, Bits
  <2>4. /\ c.hstate = d.hstate /\ c.sock = d.sock /\ c.read = d.read /\ c.write = d.write
        /\ c.timeout = d.timeout /\ c.done = d.done /\ c.interval = i
    BY <2>2 DEF HttpMd, Bits
  <2> HIDE DEF c
  <2>5. HttpMd(c) BY <2>2, <2>3, <2>4 DEF HttpMd
  <2>6. HttpOk(m)' BY <2>1, <2>2, <2>4, <2>5 DEF HttpOk, HttpPoll
  <2> QED BY <2>1, <2>3, <2>4, <2>6 DEF d
<1>2. md' \in [Mon -> Bits] BY <1>1
<1> QED BY <1>1, <1>2 DEF HttpTypes

LEMMA TcpArmed ==
  ASSUME TcpTypes, \A m \in TcpMon : TcpMd(tmd[m]), NEW i \in {"once", "repeat"},
         tmd' = [m \in TcpMon |-> [tmd[m] EXCEPT !.interval = i]], UNCHANGED trep
  PROVE  /\ TcpTypes'
         /\ \A m \in TcpMon : TcpMd(tmd'[m]) /\ tmd'[m].tcp_state = tmd[m].tcp_state
                              /\ tmd'[m].interval = i
<1>1. ASSUME NEW m \in TcpMon
      PROVE  tmd'[m] \in TcpBits /\ TcpMd(tmd'[m]) /\ tmd'[m].tcp_state = tmd[m].tcp_state
             /\ tmd'[m].interval = i
  <2> DEFINE d == tmd[m]
             c == [d EXCEPT !.interval = i]
  <2>1. tmd'[m] = c /\ TcpMd(d) OBVIOUS
  <2> HIDE DEF d
  <2>2. c \in TcpBits BY <2>1 DEF TcpMd, TcpBits
  <2>3. /\ c.tcp_state = d.tcp_state /\ c.sock = d.sock /\ c.connect = d.connect
        /\ c.timeout = d.timeout /\ c.interval = i
    BY <2>1 DEF TcpMd, TcpBits
  <2> HIDE DEF c
  <2>4. TcpMd(c) BY <2>1, <2>2, <2>3 DEF TcpMd
  <2> QED BY <2>1, <2>2, <2>3, <2>4 DEF d
<1>2. tmd' \in [TcpMon -> TcpBits] BY <1>1
<1> QED BY <1>1, <1>2 DEF TcpTypes

\* A loop with no active watcher has no poll under way.
LEMMA AllDrained ==
  ASSUME IInv, stage = "init", Drained, T!Drained
  PROVE  /\ \A m \in Mon : HttpWaits(m) /\ rep[m].last # "none"
         /\ \A m \in TcpMon : TcpWaits(m) /\ trep[m].last # "none"
<1>1. ASSUME NEW m \in Mon PROVE HttpWaits(m) /\ rep[m].last # "none"
  <2>1. HttpMd(md[m]) /\ HttpRound(m) BY DEF IInv, HttpOk
  <2>2. md[m].interval = "off" /\ ~md[m].timeout BY DEF Drained
  <2>3. md[m].hstate = "WAITING" BY <2>1, <2>2 DEF HttpMd, Bits, HState
  <2> QED BY <2>1, <2>2, <2>3 DEF HttpRound, Round, HttpWaits
<1>2. ASSUME NEW m \in TcpMon PROVE TcpWaits(m) /\ trep[m].last # "none"
  <2>1. TcpMd(tmd[m]) /\ TcpRound(m) BY DEF IInv
  <2>2. tmd[m].interval = "off" /\ ~tmd[m].timeout BY DEF T!Drained
  <2>3. tmd[m].tcp_state = "WAITING" BY <2>1, <2>2 DEF TcpMd, TcpBits
  <2> QED BY <2>1, <2>2, <2>3 DEF TcpRound, Round, TcpWaits
<1> QED BY <1>1, <1>2

LEMMA RoundNext ==
  ASSUME NEW s \in {"config", "init", "run"}, NEW w \in BOOLEAN, NEW v \in BOOLEAN,
         NEW i \in {"off", "once", "repeat"}, NEW j, NEW l, NEW k, Round(s, w, i, l),
         \/ Quiet(w, v, i, j, k = l)
         \/ Begins(w, v, i, j, k = l)
         \/ Reports(w, v, i, j, k \in {"ok", "fail"})
         \/ Skips(w, v, i, j, k = IF l = "none" THEN "skip" ELSE l)
  PROVE  Round(s, v, j, k)
BY DEF Round, Quiet, Begins, Reports, Skips, FiredFrom

LEMMA InvNext == ASSUME PartialSends = FALSE, IInv, [PluginsNext]_allVars PROVE IInv'
<1>1. CASE BeginInitialRound
  <2>1. /\ stage = "config" /\ stage' = "init"
        /\ md' = [m \in Mon |-> [md[m] EXCEPT !.interval = "once"]] /\ UNCHANGED <<poll, rep>>
        /\ tmd' = [m \in TcpMon |-> [tmd[m] EXCEPT !.interval = "once"]] /\ UNCHANGED trep
    BY <1>1 DEF BeginInitialRound, init_monitors, T!init_monitors
  <2>2. /\ HttpTypes'
        /\ \A m \in Mon : HttpOk(m)' /\ md'[m].hstate = md[m].hstate /\ md'[m].interval = "once"
    BY <2>1, HttpArmed DEF IInv
  <2>3. /\ TcpTypes'
        /\ \A m \in TcpMon : TcpMd(tmd'[m]) /\ tmd'[m].tcp_state = tmd[m].tcp_state
                             /\ tmd'[m].interval = "once"
    BY <2>1, TcpArmed DEF IInv
  <2>4. \A m \in Mon : HttpRound(m)' BY <2>1, <2>2 DEF IInv, HttpRound, Round, HttpWaits
  <2>5. \A m \in TcpMon : TcpRound(m)' BY <2>1, <2>3 DEF IInv, TcpRound, Round, TcpWaits
  <2> QED BY <2>1, <2>2, <2>3, <2>4, <2>5 DEF IInv
<1>2. CASE monio_start
  <2>1. /\ stage = "init" /\ stage' = "run"
        /\ md' = [m \in Mon |-> [md[m] EXCEPT !.interval = "repeat"]] /\ UNCHANGED <<poll, rep>>
        /\ tmd' = [m \in TcpMon |-> [tmd[m] EXCEPT !.interval = "repeat"]] /\ UNCHANGED trep
    BY <1>2 DEF monio_start, start_monitors, T!start_monitors
  <2>2. HttpTypes' /\ \A m \in Mon : HttpOk(m)' BY <2>1, HttpArmed DEF IInv
  <2>3. TcpTypes' /\ \A m \in TcpMon : TcpMd(tmd'[m]) BY <2>1, TcpArmed DEF IInv
  <2>4. (\A m \in Mon : HttpRound(m)') /\ \A m \in TcpMon : TcpRound(m)'
    BY <2>1 DEF HttpRound, TcpRound, Round
  <2> QED BY <2>1, <2>2, <2>3, <2>4 DEF IInv
<1>3. ASSUME NEW m \in Mon, HttpCallback(m) PROVE IInv'
  <2>1. HttpOthers(m) /\ HttpOk(m)' /\ HttpSteps(m) /\ UNCHANGED <<tmd, trep>>
    BY <1>3, HttpEffect DEF IInv, HttpCallback, tcpVars
  <2>2. ASSUME NEW n \in Mon \ {m} PROVE HttpOk(n)' /\ HttpRound(n)'
    <3>1. /\ md'[n] = md[n] /\ poll'[n] = poll[n] /\ rep'[n] = rep[n] /\ stage' = stage
          /\ HttpOk(n) /\ HttpRound(n)
      BY <2>1 DEF HttpOthers, IInv
    <3> QED BY <3>1 DEF HttpOk, HttpRound, HttpWaits
  <2>3. HttpRound(m)'
    <3> DEFINE w == HttpWaits(m)
               v == HttpWaits(m)'
               i == md[m].interval
               j == md'[m].interval
               l == rep[m].last
               k == rep'[m].last
    <3>1. Round(stage, w, i, l) /\ i \in {"off", "once", "repeat"} /\ stage' = stage
      BY <2>1 DEF IInv, HttpRound, HttpTypes, Bits, HttpOthers
    <3>2. w \in BOOLEAN /\ v \in BOOLEAN BY DEF HttpWaits
    <3>3. \/ Quiet(w, v, i, j, k = l)
          \/ Begins(w, v, i, j, k = l)
          \/ Reports(w, v, i, j, k \in {"ok", "fail"})
      BY <2>1 DEF HttpSteps, HttpSame, HttpTurns, Quiet, Begins, Reports
    <3>4. stage \in {"config", "init", "run"} BY DEF IInv
    <3> HIDE DEF w, v, i, j, l, k
    <3>5. Round(stage, v, j, k) BY <3>1, <3>2, <3>3, <3>4, RoundNext
    <3> QED BY <3>1, <3>5 DEF HttpRound, v, j, k
  <2>4. \A n \in TcpMon : TcpMd(tmd'[n]) /\ TcpRound(n)'
    BY <2>1 DEF IInv, TcpRound, TcpWaits, HttpOthers
  <2> QED BY <2>1, <2>2, <2>3, <2>4 DEF IInv, HttpOthers, TcpTypes
<1>4. ASSUME NEW m \in TcpMon, TcpCallback(m) PROVE IInv'
  <2>1. TcpOthers(m) /\ TcpMd(tmd'[m]) /\ TcpSteps(m) /\ UNCHANGED <<md, poll, rep>>
    BY <1>4, TcpEffect DEF IInv, TcpCallback, httpVars
  <2>2. ASSUME NEW n \in TcpMon \ {m} PROVE TcpMd(tmd'[n]) /\ TcpRound(n)'
    <3>1. /\ tmd'[n] = tmd[n] /\ trep'[n] = trep[n] /\ stage' = stage
          /\ TcpMd(tmd[n]) /\ TcpRound(n)
      BY <2>1 DEF TcpOthers, IInv
    <3> QED BY <3>1 DEF TcpRound, TcpWaits
  <2>3. TcpRound(m)'
    <3> DEFINE w == TcpWaits(m)
               v == TcpWaits(m)'
               i == tmd[m].interval
               j == tmd'[m].interval
               l == trep[m].last
               k == trep'[m].last
    <3>1. Round(stage, w, i, l) /\ i \in {"off", "once", "repeat"} /\ stage' = stage
      BY <2>1 DEF IInv, TcpRound, TcpTypes, TcpBits, TcpOthers
    <3>2. w \in BOOLEAN /\ v \in BOOLEAN BY DEF TcpWaits
    <3>3. \/ Quiet(w, v, i, j, k = l)
          \/ Begins(w, v, i, j, k = l)
          \/ Reports(w, v, i, j, k \in {"ok", "fail"})
          \/ Skips(w, v, i, j, k = IF l = "none" THEN "skip" ELSE l)
      BY <2>1 DEF TcpSteps, TcpSame, TcpTurns, TcpSkipped, Quiet, Begins, Reports, Skips
    <3>4. stage \in {"config", "init", "run"} BY DEF IInv
    <3> HIDE DEF w, v, i, j, l, k
    <3>5. Round(stage, v, j, k) BY <3>1, <3>2, <3>3, <3>4, RoundNext
    <3> QED BY <3>1, <3>5 DEF TcpRound, v, j, k
  <2>4. \A n \in Mon : HttpOk(n)' /\ HttpRound(n)'
    BY <2>1 DEF IInv, HttpOk, HttpRound, HttpWaits, TcpOthers
  <2> QED BY <2>1, <2>2, <2>3, <2>4 DEF IInv, TcpOthers, HttpTypes
<1>5. CASE UNCHANGED allVars
  <2>1. UNCHANGED <<stage, md, poll, rep, tmd, trep>> BY <1>5 DEF allVars, httpVars, tcpVars
  <2> QED BY <2>1 DEF IInv, HttpTypes, TcpTypes, HttpOk, HttpRound, TcpRound, HttpWaits, TcpWaits
<1> QED BY <1>1, <1>2, <1>3, <1>4, <1>5 DEF PluginsNext

-----------------------------------------------------------------------------
(* What the monitoring core sees of a step.                                *)

All == Mon \cup TcpMon
TurnOf(m) == IF m \in Mon THEN rep[m].turn ELSE trep[m].turn
LastOf(m) == IF m \in Mon THEN rep[m].last ELSE trep[m].last
May(m) == ~Polling(m) /\ (stage = "run" \/ (stage = "init" /\ LastOf(m) = "none"))

\* Only monitor m moves.
OnlyOne(m) ==
    /\ stage' = stage
    /\ \A n \in All \ {m} : /\ Polling(n)' <=> Polling(n)
                            /\ TurnOf(n)' = TurnOf(n) /\ LastOf(n)' = LastOf(n)

LEMMA PollingType == \A m : Polling(m) \in BOOLEAN /\ Polling(m)' \in BOOLEAN
BY DEF Polling

LEMMA AbsQuiet ==
  ASSUME NEW m \in All, OnlyOne(m), Polling(m)' <=> Polling(m),
         TurnOf(m)' = TurnOf(m), LastOf(m)' = LastOf(m)
  PROVE  UNCHANGED MP!pvars
<1>1. \A n \in All : Polling(n)' = Polling(n) BY PollingType DEF OnlyOne
<1>2. \A n \in All : TurnOf(n)' = TurnOf(n) /\ LastOf(n)' = LastOf(n) BY DEF OnlyOne
<1>3. [n \in All |-> Polling(n)]' = [n \in All |-> Polling(n)] BY <1>1
<1>4. [n \in All |-> TurnOf(n)]' = [n \in All |-> TurnOf(n)] BY <1>2
<1>5. [n \in All |-> LastOf(n)]' = [n \in All |-> LastOf(n)] BY <1>2
<1> QED BY <1>3, <1>4, <1>5 DEF MP!pvars, All, TurnOf, LastOf, OnlyOne

LEMMA AbsBegin ==
  ASSUME NEW m \in All, OnlyOne(m), May(m), Polling(m)',
         TurnOf(m)' = TurnOf(m), LastOf(m)' = LastOf(m)
  PROVE  MP!Begin(m)
<1> DEFINE p == [n \in All |-> Polling(n)]
           t == [n \in All |-> TurnOf(n)]
           l == [n \in All |-> LastOf(n)]
<1>1. \A n \in All \ {m} : Polling(n)' = Polling(n) BY PollingType DEF OnlyOne
<1>2. Polling(m)' = TRUE BY PollingType
<1>3. p' = [p EXCEPT ![m] = TRUE] BY <1>1, <1>2
<1>4. t' = t /\ l' = l BY DEF OnlyOne
<1>5. ~p[m] /\ (stage = "run" \/ (stage = "init" /\ l[m] = "none")) BY DEF May
<1> QED BY <1>3, <1>4, <1>5 DEF MP!Begin, MP!MayBegin, All, TurnOf, LastOf, OnlyOne

LEMMA AbsReport ==
  ASSUME NEW m \in All, OnlyOne(m), Polling(m) \/ May(m), ~Polling(m)',
         TurnOf(m)' = 1 - TurnOf(m), LastOf(m)' \in {"ok", "fail"}
  PROVE  \E r \in MP!Result : MP!Report(m, r)
<1> DEFINE p == [n \in All |-> Polling(n)]
           t == [n \in All |-> TurnOf(n)]
           l == [n \in All |-> LastOf(n)]
<1>0. PICK r \in {"ok", "fail"} : LastOf(m)' = r OBVIOUS
<1>1. \A n \in All \ {m} : Polling(n)' = Polling(n) BY PollingType DEF OnlyOne
<1>2. Polling(m)' = FALSE BY PollingType
<1>3. p' = [p EXCEPT ![m] = FALSE] BY <1>1, <1>2
<1>4. t' = [t EXCEPT ![m] = 1 - @] BY DEF OnlyOne
<1>5. l' = [l EXCEPT ![m] = r] BY <1>0 DEF OnlyOne
<1>6. p[m] \/ (~p[m] /\ (stage = "run" \/ (stage = "init" /\ l[m] = "none"))) BY DEF May
<1>7. MP!Report(m, r)
  BY <1>3, <1>4, <1>5, <1>6 DEF MP!Report, MP!MayBegin, All, TurnOf, LastOf, OnlyOne
<1> QED BY <1>7 DEF MP!Result

LEMMA AbsSkip ==
  ASSUME NEW m \in TcpMon, OnlyOne(m), May(m), ~Polling(m)', TurnOf(m)' = TurnOf(m),
         LastOf(m)' = IF LastOf(m) = "none" THEN "skip" ELSE LastOf(m)
  PROVE  MP!Skip(m)
<1> DEFINE p == [n \in All |-> Polling(n)]
           t == [n \in All |-> TurnOf(n)]
           l == [n \in All |-> LastOf(n)]
<1>1. \A n \in All : Polling(n)' = Polling(n) BY PollingType DEF OnlyOne, May
<1>2. p' = p BY <1>1
<1>3. t' = t BY DEF OnlyOne
<1>4. m \in All BY DEF All
<1>5. l' = [l EXCEPT ![m] = IF @ = "none" THEN "skip" ELSE @] BY <1>4 DEF OnlyOne
<1>6. ~p[m] /\ (stage = "run" \/ (stage = "init" /\ l[m] = "none")) BY <1>4 DEF May
<1> QED BY <1>2, <1>3, <1>5, <1>6 DEF MP!Skip, MP!MayBegin, All, TurnOf, LastOf, OnlyOne

\* When the interval timer of a waiting monitor fires, a poll may begin.
LEMMA MayPoll ==
  ASSUME NEW s \in {"config", "init", "run"}, NEW i \in {"off", "once", "repeat"}, NEW l,
         Round(s, TRUE, i, l), i # "off"
  PROVE  s = "run" \/ (s = "init" /\ l = "none")
<1>1. s = "init" => i = "once"
  BY DEF Round
<1> QED BY <1>1 DEF Round

LEMMA AbsHttp ==
  ASSUME PartialSends = FALSE, IInv, NEW m \in Mon, HttpCallback(m)
  PROVE  [MP!PNext]_(MP!pvars)
<1>1. HttpOthers(m) /\ HttpSteps(m) /\ UNCHANGED <<tmd, trep>>
  BY HttpEffect DEF IInv, HttpCallback, tcpVars
<1>2. m \in All /\ stage \in {"config", "init", "run"} BY DEF All, IInv
<1>3. OnlyOne(m) BY <1>1 DEF OnlyOne, All, Polling, TurnOf, LastOf, HttpOthers
<1>4. /\ Polling(m) <=> ~HttpWaits(m)
      /\ Polling(m)' <=> ~HttpWaits(m)'
      /\ TurnOf(m) = rep[m].turn /\ LastOf(m) = rep[m].last
      /\ TurnOf(m)' = rep'[m].turn /\ LastOf(m)' = rep'[m].last
  BY DEF Polling, HttpWaits, TurnOf, LastOf
<1>5. HttpWaits(m) /\ md[m].interval # "off" => May(m)
  <2> SUFFICES ASSUME HttpWaits(m), md[m].interval # "off" PROVE May(m) OBVIOUS
  <2>1. Round(stage, HttpWaits(m), md[m].interval, rep[m].last) BY DEF IInv, HttpRound
  <2>2. Round(stage, TRUE, md[m].interval, rep[m].last) BY <2>1 DEF Round
  <2>3. stage = "run" \/ (stage = "init" /\ rep[m].last = "none")
    <3>1. md[m].interval \in {"off", "once", "repeat"} BY DEF IInv, HttpTypes, Bits
    <3> QED BY <1>2, <2>2, <3>1, MayPoll
  <2> QED BY <1>4, <2>3 DEF May
<1>6. CASE Quiet(HttpWaits(m), HttpWaits(m)', md[m].interval, md'[m].interval, HttpSame(m))
  <2>1. UNCHANGED MP!pvars BY <1>2, <1>3, <1>4, <1>6, AbsQuiet DEF Quiet, HttpSame
  <2> QED BY <2>1
<1>7. CASE Begins(HttpWaits(m), HttpWaits(m)', md[m].interval, md'[m].interval, HttpSame(m))
  <2>1. MP!Begin(m) BY <1>2, <1>3, <1>4, <1>5, <1>7, AbsBegin DEF Begins, HttpSame
  <2> QED BY <1>2, <2>1 DEF MP!PNext, All
<1>8. CASE Reports(HttpWaits(m), HttpWaits(m)', md[m].interval, md'[m].interval, HttpTurns(m))
  <2>1. Polling(m) \/ May(m) BY <1>4, <1>5, <1>8 DEF Reports
  <2>2. \E r \in MP!Result : MP!Report(m, r)
    BY <1>2, <1>3, <1>4, <1>8, <2>1, AbsReport DEF Reports, HttpTurns
  <2> QED BY <1>2, <2>2 DEF MP!PNext, All
<1> QED BY <1>1, <1>6, <1>7, <1>8 DEF HttpSteps

LEMMA AbsTcp ==
  ASSUME IInv, NEW m \in TcpMon, TcpCallback(m)
  PROVE  [MP!PNext]_(MP!pvars)
<1>1. TcpOthers(m) /\ TcpSteps(m) /\ UNCHANGED <<md, rep>>
  BY TcpEffect DEF IInv, TcpCallback, httpVars
<1>2. m \in All /\ m \notin Mon /\ stage \in {"config", "init", "run"}
  BY PluginsAssumption DEF All, IInv
<1>3. OnlyOne(m) BY <1>1 DEF OnlyOne, All, Polling, TurnOf, LastOf, TcpOthers
<1>4. /\ Polling(m) <=> ~TcpWaits(m)
      /\ Polling(m)' <=> ~TcpWaits(m)'
      /\ TurnOf(m) = trep[m].turn /\ LastOf(m) = trep[m].last
      /\ TurnOf(m)' = trep'[m].turn /\ LastOf(m)' = trep'[m].last
  BY <1>2 DEF Polling, TcpWaits, TurnOf, LastOf
<1>5. TcpWaits(m) /\ tmd[m].interval # "off" => May(m)
  <2> SUFFICES ASSUME TcpWaits(m), tmd[m].interval # "off" PROVE May(m) OBVIOUS
  <2>1. Round(stage, TcpWaits(m), tmd[m].interval, trep[m].last) BY DEF IInv, TcpRound
  <2>2. Round(stage, TRUE, tmd[m].interval, trep[m].last) BY <2>1 DEF Round
  <2>3. stage = "run" \/ (stage = "init" /\ trep[m].last = "none")
    <3>1. tmd[m].interval \in {"off", "once", "repeat"} BY DEF IInv, TcpTypes, TcpBits
    <3> QED BY <1>2, <2>2, <3>1, MayPoll
  <2> QED BY <1>4, <2>3 DEF May
<1>6. CASE Quiet(TcpWaits(m), TcpWaits(m)', tmd[m].interval, tmd'[m].interval, TcpSame(m))
  <2>1. UNCHANGED MP!pvars BY <1>2, <1>3, <1>4, <1>6, AbsQuiet DEF Quiet, TcpSame
  <2> QED BY <2>1
<1>7. CASE Begins(TcpWaits(m), TcpWaits(m)', tmd[m].interval, tmd'[m].interval, TcpSame(m))
  <2>1. MP!Begin(m) BY <1>2, <1>3, <1>4, <1>5, <1>7, AbsBegin DEF Begins, TcpSame
  <2> QED BY <1>2, <2>1 DEF MP!PNext, All
<1>8. CASE Reports(TcpWaits(m), TcpWaits(m)', tmd[m].interval, tmd'[m].interval, TcpTurns(m))
  <2>1. Polling(m) \/ May(m) BY <1>4, <1>5, <1>8 DEF Reports
  <2>2. \E r \in MP!Result : MP!Report(m, r)
    BY <1>2, <1>3, <1>4, <1>8, <2>1, AbsReport DEF Reports, TcpTurns
  <2> QED BY <1>2, <2>2 DEF MP!PNext, All
<1>9. CASE Skips(TcpWaits(m), TcpWaits(m)', tmd[m].interval, tmd'[m].interval, TcpSkipped(m))
  <2>1. MP!Skip(m) BY <1>2, <1>3, <1>4, <1>5, <1>9, AbsSkip DEF Skips, TcpSkipped
  <2> QED BY <1>2, <2>1 DEF MP!PNext, All
<1> QED BY <1>1, <1>6, <1>7, <1>8, <1>9 DEF TcpSteps

\* Arming the timers is seen only as the next stage.
LEMMA AbsArmed ==
  ASSUME IInv, NEW i \in {"once", "repeat"},
         md' = [m \in Mon |-> [md[m] EXCEPT !.interval = i]], UNCHANGED <<poll, rep, trep>>,
         tmd' = [m \in TcpMon |-> [tmd[m] EXCEPT !.interval = i]]
  PROVE  \A n \in All : Polling(n)' = Polling(n) /\ TurnOf(n)' = TurnOf(n) /\ LastOf(n)' = LastOf(n)
<1>1. \A n \in Mon : md'[n].hstate = md[n].hstate BY HttpArmed DEF IInv
<1>2. \A n \in TcpMon : tmd'[n].tcp_state = tmd[n].tcp_state BY TcpArmed DEF IInv
<1>3. \A n \in All : Polling(n)' <=> Polling(n) BY <1>1, <1>2 DEF All, Polling
<1> QED BY <1>3, PollingType DEF TurnOf, LastOf

LEMMA AbsNext ==
  ASSUME PartialSends = FALSE, IInv, [PluginsNext]_allVars
  PROVE  [MP!PNext]_(MP!pvars)
<1> DEFINE p == [n \in All |-> Polling(n)]
           t == [n \in All |-> TurnOf(n)]
           l == [n \in All |-> LastOf(n)]
<1>1. CASE BeginInitialRound
  <2>1. /\ stage = "config" /\ stage' = "init"
        /\ md' = [m \in Mon |-> [md[m] EXCEPT !.interval = "once"]] /\ UNCHANGED <<poll, rep>>
        /\ tmd' = [m \in TcpMon |-> [tmd[m] EXCEPT !.interval = "once"]] /\ UNCHANGED trep
    BY <1>1 DEF BeginInitialRound, init_monitors, T!init_monitors
  <2>2. \A n \in All : Polling(n)' = Polling(n) /\ TurnOf(n)' = TurnOf(n) /\ LastOf(n)' = LastOf(n)
    BY <2>1, AbsArmed
  <2>3. p' = p /\ t' = t /\ l' = l BY <2>2
  <2>4. MP!InitRound BY <2>1, <2>3 DEF MP!InitRound, All, TurnOf, LastOf
  <2> QED BY <2>4 DEF MP!PNext
<1>2. CASE monio_start
  <2>1. /\ stage = "init" /\ stage' = "run" /\ Drained /\ T!Drained
        /\ md' = [m \in Mon |-> [md[m] EXCEPT !.interval = "repeat"]] /\ UNCHANGED <<poll, rep>>
        /\ tmd' = [m \in TcpMon |-> [tmd[m] EXCEPT !.interval = "repeat"]] /\ UNCHANGED trep
    BY <1>2 DEF monio_start, start_monitors, T!start_monitors
  <2>2. \A n \in All : Polling(n)' = Polling(n) /\ TurnOf(n)' = TurnOf(n) /\ LastOf(n)' = LastOf(n)
    BY <2>1, AbsArmed
  <2>3. p' = p /\ t' = t /\ l' = l BY <2>2
  <2>4. \A n \in All : ~Polling(n) /\ LastOf(n) # "none"
    BY <2>1, AllDrained DEF All, Polling, LastOf, HttpWaits, TcpWaits
  <2>5. \A n \in All : l[n] # "none" /\ ~p[n] BY <2>4
  <2>6. MP!StartRun BY <2>1, <2>3, <2>5 DEF MP!StartRun, All, TurnOf, LastOf
  <2> QED BY <2>6 DEF MP!PNext
<1>3. CASE UNCHANGED allVars
  <2>1. UNCHANGED <<stage, md, rep, tmd, trep>> BY <1>3 DEF allVars, httpVars, tcpVars
  <2> QED BY <2>1 DEF MP!pvars, Polling
<1> QED BY <1>1, <1>2, <1>3, AbsHttp, AbsTcp DEF PluginsNext

LEMMA AbsInit == PluginsInit => MP!PInit
<1> SUFFICES ASSUME PluginsInit PROVE MP!PInit OBVIOUS
<1>1. stage = "config" BY DEF PluginsInit, Init
<1>2. \A m \in Mon : md[m].hstate = "WAITING" /\ rep[m].turn = 0 /\ rep[m].last = "none"
  BY DEF PluginsInit, Init
<1>3. \A m \in TcpMon : tmd[m].tcp_state = "WAITING" /\ trep[m].turn = 0 /\ trep[m].last = "none"
  BY DEF PluginsInit, T!Init
<1>4. \A m \in All : Polling(m) = FALSE /\ TurnOf(m) = 0 /\ LastOf(m) = "none"
  BY <1>2, <1>3 DEF All, Polling, TurnOf, LastOf
<1>5. /\ [m \in All |-> Polling(m)] = [m \in All |-> FALSE]
      /\ [m \in All |-> TurnOf(m)] = [m \in All |-> 0]
      /\ [m \in All |-> LastOf(m)] = [m \in All |-> "none"]
  BY <1>4
<1> QED BY <1>1, <1>5 DEF MP!PInit, All, TurnOf, LastOf

-----------------------------------------------------------------------------
LEMMA Always == ASSUME PartialSends = FALSE PROVE PluginsSpec => []IInv
<1>1. PluginsInit => IInv BY InvInit
<1>2. IInv /\ [PluginsNext]_allVars => IInv' BY InvNext
<1> QED BY <1>1, <1>2, PTL DEF PluginsSpec

LEMMA InvImplies == IInv => PluginAssertions /\ FreshSuccess
<1> SUFFICES ASSUME IInv PROVE PluginAssertions /\ FreshSuccess OBVIOUS
<1>1. Assertions
  <2> SUFFICES ASSUME NEW m \in Mon
               PROVE  LET d == md[m] IN
                        /\ d.hstate = "WAITING" => ~d.sock /\ ~d.read /\ ~d.write /\ ~d.timeout
                        /\ d.write => d.hstate = "WRITING" /\ ~d.read /\ d.timeout /\ d.sock
                        /\ d.read => d.hstate = "READING" /\ ~d.write /\ d.sock
                        /\ d.timeout => /\ d.sock
                                        /\ \/ d.hstate = "READING" /\ d.read
                                           \/ d.hstate = "WRITING" /\ d.write
    BY DEF Assertions
  <2>1. HttpMd(md[m]) /\ md[m].hstate \in HState BY DEF IInv, HttpOk, HttpMd, Bits
  <2> QED BY <2>1 DEF HttpMd, HState
<1>2. T!Assertions BY DEF IInv, TcpMd, T!Assertions
<1>3. FreshSuccess BY DEF IInv, HttpOk, FreshSuccess
<1> QED BY <1>1, <1>2, <1>3 DEF PluginAssertions

\* Unless send() accepts a part of the request only, no dmn_assert() of the
\* callbacks of http_status.c and tcp_connect.c can fail, for any number of
\* services and any order of events.
THEOREM PluginAssertionsAlways == ASSUME PartialSends = FALSE PROVE PluginsSpec => []PluginAssertions
<1>1. IInv => PluginAssertions BY InvImplies
<1> QED BY <1>1, Always, PTL

\* Unless send() accepts a part of the request only, http_status reports success
\* only for a poll whose request went out whole and whose status line, every byte
\* of it, was read in that poll.
THEOREM FreshSuccessAlways == ASSUME PartialSends = FALSE PROVE PluginsSpec => []FreshSuccess
<1>1. IInv => FreshSuccess BY InvImplies
<1> QED BY <1>1, Always, PTL

\* Unless send() accepts a part of the request only, the two plugins keep what the
\* monitoring core relies on: polls of a service do not overlap, every poll calls
\* gdnsd_monio_state_updater() once, and monio_start() returns only after each
\* service has been polled or, by tcp_connect, left out.
THEOREM MonitorPollImplemented == ASSUME PartialSends = FALSE PROVE PluginsSpec => ImplementsMonitorPoll
<1>1. PluginsInit => MP!PInit BY AbsInit
<1>2. IInv /\ [PluginsNext]_allVars => [MP!PNext]_(MP!pvars) BY AbsNext
<1> QED BY <1>1, <1>2, Always, PTL DEF PluginsSpec, ImplementsMonitorPoll, MP!PSpec
=============================================================================

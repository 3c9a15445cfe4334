----------------------------- MODULE DmnDaemon -----------------------------
(***************************************************************************)
(* Daemon management (libgdnsd/libdmn/dmn_daemon.c and the actions of      *)
(* main.c): concurrent invocations of gdnsd that share one pidfile.        *)
(*                                                                         *)
(* A daemon holds an fcntl write lock on the pidfile for its lifetime.     *)
(* check_pidfile asks the kernel for the holder and, if there is none,     *)
(* falls back to the pid written in the file.  The kernel drops the lock   *)
(* when its holder exits or closes any descriptor of the file.             *)
(***************************************************************************)
EXTENDS Naturals, FiniteSets

CONSTANTS Inv,           \* invocations of the gdnsd command
          Pid,           \* process ids (of the processes modelled)
          Privileged,    \* invocations that may signal a daemon
          maxtries,      \* 10 in the code
          PidReuse,      \* may the kernel give a used pid to another program?
          none, foreign

ASSUME DmnAssumption ==
    /\ IsFiniteSet(Inv) /\ Privileged \subseteq Inv
    /\ maxtries \in Nat \ {0} /\ PidReuse \in BOOLEAN
    /\ none \notin Inv \cup Pid /\ foreign \notin Inv \cup {none}

VARIABLES pc, cmd,    \* per invocation: its control point and its action
          pid,        \* per invocation: its process id
          owner,      \* per pid: the invocation running under it, foreign or none
          lock,       \* the pid that holds the fcntl lock on the pidfile
          text,       \* the pid written in the pidfile
          found,      \* per invocation: what check_pidfile returned (none: 0)
          tries,      \* per invocation: attempts of the restart or stop loop
          pend,       \* per invocation: signals not yet delivered or handled
          status,     \* per invocation: exit status its user sees ("wait": none yet)
          target,     \* history: the invocation a stop found running
          ran         \* history: invocations that became a complete daemon

vars == <<pc, cmd, pid, owner, lock, text, found, tries, pend, status,
          target, ran>>

Starts == {"start", "restart"}
Cmd == Starts \cup {"condrestart", "stop", "status", "lpe"}

\* Control points at which the invocation holds the lock; in Serving it also
\* owns, or is opening, the listening sockets.
Serving == {"init", "initsig", "run"}
Locked == {"truncate", "write"} \cup Serving

TypeOK ==
    /\ pc \in [Inv -> {"new", "check", "legacy", "act", "lock", "kill0", "done"} \cup Locked]
    /\ cmd \in [Inv -> Cmd \cup {none}]
    /\ pid \in [Inv -> Pid \cup {none}] /\ owner \in [Pid -> Inv \cup {none, foreign}]
    /\ lock \in Pid \cup {none} /\ text \in Pid \cup {none}
    /\ found \in [Inv -> Pid \cup {none}] /\ tries \in [Inv -> 0..maxtries]
    /\ pend \in [Inv -> SUBSET {"TERM", "USR"}] /\ status \in [Inv -> {"wait", "0", "1", "3"}]
    /\ target \in [Inv -> Inv \cup {none, foreign}] /\ ran \subseteq Inv

Init ==
    /\ pc = [i \in Inv |-> "new"] /\ cmd = [i \in Inv |-> none]
    /\ pid = [i \in Inv |-> none] /\ owner = [p \in Pid |-> none]
    /\ lock = none /\ text = none
    /\ found = [i \in Inv |-> none] /\ tries = [i \in Inv |-> 0]
    /\ pend = [i \in Inv |-> {}] /\ status = [i \in Inv |-> "wait"]
    /\ target = [i \in Inv |-> none] /\ ran = {}

history == <<target, ran>>

-----------------------------------------------------------------------------
(* Processes.                                                              *)

\* Invocation i exits with status s: its pid is free and its lock is gone.  The
\* parent of a daemon saw the status pipe close before, or has its answer.
Exit(i, s) ==
    /\ pc' = [pc EXCEPT ![i] = "done"]
    /\ owner' = [owner EXCEPT ![pid[i]] = none]
    /\ lock' = IF lock = pid[i] THEN none ELSE lock
    /\ status' = [status EXCEPT ![i] = IF @ = "wait" THEN s ELSE @]

\* The user runs gdnsd; for start and restart the process that takes part is the
\* grandchild of dmn_daemonize, and the parent waits on the status pipe.
Invoke(i, c, p) ==
    /\ pc[i] = "new" /\ owner[p] = none
    /\ pc' = [pc EXCEPT ![i] = "check"] /\ cmd' = [cmd EXCEPT ![i] = c]
    /\ pid' = [pid EXCEPT ![i] = p] /\ owner' = [owner EXCEPT ![p] = i]
    /\ UNCHANGED <<lock, text, found, tries, pend, status, history>>

\* Another program is given a pid of an earlier daemon.
ReusePid(p) ==
    /\ PidReuse /\ owner[p] = none
    /\ owner' = [owner EXCEPT ![p] = foreign]
    /\ UNCHANGED <<pc, cmd, pid, lock, text, found, tries, pend, status, history>>

\* kill(p, 0) by i succeeds.
Alive(i, p) == owner[p] # none /\ (i \in Privileged \/ owner[p] = i)

-----------------------------------------------------------------------------
(* check_pidfile                                                           *)

\* F_GETLK, which never reports the caller's own lock.
GetLk(i) ==
    /\ pc[i] = "check" /\ lock \notin {none, pid[i]}
    /\ found' = [found EXCEPT ![i] = lock]
    /\ target' = [target EXCEPT ![i] = owner[lock]]
    /\ pc' = [pc EXCEPT ![i] = "act"]
    /\ UNCHANGED <<cmd, pid, owner, lock, text, tries, pend, status, ran>>

GetLkFree(i) ==
    /\ pc[i] = "check" /\ lock \in {none, pid[i]}
    /\ pc' = [pc EXCEPT ![i] = "legacy"]
    /\ UNCHANGED <<cmd, pid, owner, lock, text, found, tries, pend, status, history>>

\* "Backwards-compat check for pre-1.6.8 instances", then close().
ReadPid(i) ==
    /\ pc[i] = "legacy"
    /\ found' = [found EXCEPT ![i] = IF text # none /\ Alive(i, text) THEN text ELSE none]
    /\ target' = [target EXCEPT ![i] = IF found'[i] = none THEN none ELSE owner[text]]
    /\ lock' = IF lock = pid[i] THEN none ELSE lock
    /\ pc' = [pc EXCEPT ![i] = "act"]
    /\ UNCHANGED <<cmd, pid, owner, text, tries, pend, status, ran>>

-----------------------------------------------------------------------------
(* Signals.                                                                *)

\* kill(p, sig) by i; it fails if the process is gone or belongs to another user.
Kill(i, p, sig) ==
    LET o == owner[p] IN
    pend' = IF Alive(i, p) /\ o \in Inv THEN [pend EXCEPT ![o] = @ \cup {sig}] ELSE pend

Caught(i) == pc[i] \in {"initsig", "run"}

\* Before setup_signals the default action of any of the signals ends the process.
DefaultAction(i) ==
    /\ pc[i] \notin {"new", "done"} /\ ~Caught(i) /\ pend[i] # {}
    /\ Exit(i, "1")
    /\ UNCHANGED <<cmd, pid, text, found, tries, pend, history>>

\* terminal_signal breaks the main loop, and main() exits with 0.
terminal_signal(i) ==
    /\ pc[i] = "run" /\ "TERM" \in pend[i]
    /\ Exit(i, "0")
    /\ UNCHANGED <<cmd, pid, text, found, tries, pend, history>>

lpe_signal(i) ==
    /\ pc[i] = "run" /\ "USR" \in pend[i]
    /\ pend' = [pend EXCEPT ![i] = @ \ {"USR"}]
    /\ UNCHANGED <<pc, cmd, pid, owner, lock, text, found, tries, status, history>>

-----------------------------------------------------------------------------
(* What main() and dmn_daemon.c do with the answer of check_pidfile.       *)

Status(i) ==
    /\ pc[i] = "act" /\ cmd[i] = "status"
    /\ Exit(i, IF found[i] = none THEN "3" ELSE "0")
    /\ UNCHANGED <<cmd, pid, text, found, tries, pend, history>>

dmn_signal(i) ==
    /\ pc[i] = "act" /\ cmd[i] = "lpe"
    /\ IF found[i] = none THEN UNCHANGED pend ELSE Kill(i, found[i], "USR")
    /\ Exit(i, "0")
    /\ UNCHANGED <<cmd, pid, text, found, tries, history>>

CondRestart(i) ==
    /\ pc[i] = "act" /\ cmd[i] = "condrestart"
    /\ IF found[i] = none
       THEN Exit(i, "0") /\ UNCHANGED cmd
       ELSE /\ cmd' = [cmd EXCEPT ![i] = "restart"] /\ pc' = [pc EXCEPT ![i] = "check"]
            /\ UNCHANGED <<owner, lock, status>>
    /\ UNCHANGED <<pid, text, found, tries, pend, history>>

(* dmn_stop *)

StopNotRunning(i) ==
    /\ pc[i] = "act" /\ cmd[i] = "stop" /\ found[i] = none
    /\ Exit(i, "0")
    /\ UNCHANGED <<cmd, pid, text, found, tries, pend, history>>

StopKill(i) ==
    /\ pc[i] = "act" /\ cmd[i] = "stop" /\ found[i] # none
    /\ tries[i] < maxtries /\ Alive(i, found[i])
    /\ Kill(i, found[i], "TERM")
    /\ tries' = [tries EXCEPT ![i] = @ + 1]
    /\ UNCHANGED <<pc, cmd, pid, owner, lock, text, found, status, history>>

\* kill() failed, or the attempts are used up.
StopEndLoop(i) ==
    /\ pc[i] = "act" /\ cmd[i] = "stop" /\ found[i] # none
    /\ tries[i] = maxtries \/ ~Alive(i, found[i])
    /\ pc' = [pc EXCEPT ![i] = "kill0"]
    /\ UNCHANGED <<cmd, pid, owner, lock, text, found, tries, pend, status, history>>

\* (Mutant) The result of the last kill() of the loop is trusted.
MutStopResult(i) ==
    /\ pc[i] = "kill0"
    /\ Exit(i, "0")
    /\ UNCHANGED <<cmd, pid, text, found, tries, pend, history>>

StopResult(i) ==
    /\ pc[i] = "kill0"
    /\ Exit(i, IF Alive(i, found[i]) THEN "1" ELSE "0")
    /\ UNCHANGED <<cmd, pid, text, found, tries, pend, history>>

(* startup_pidrace *)

StartRefused(i) ==
    /\ pc[i] = "act" /\ cmd[i] = "start" /\ found[i] # none
    /\ Exit(i, "1")
    /\ UNCHANGED <<cmd, pid, text, found, tries, pend, history>>

NotRunning(i) ==
    /\ pc[i] = "act" /\ cmd[i] \in Starts /\ found[i] = none
    /\ pc' = [pc EXCEPT ![i] = "lock"]
    /\ UNCHANGED <<cmd, pid, owner, lock, text, found, tries, pend, status, history>>

\* The next round of the restart loop, or its fatal end.
Again(i) ==
    /\ tries' = [tries EXCEPT ![i] = @ + 1]
    /\ IF tries'[i] = maxtries
       THEN Exit(i, "1")
       ELSE pc' = [pc EXCEPT ![i] = "check"] /\ UNCHANGED <<owner, lock, status>>

RestartKill(i) ==
    /\ pc[i] = "act" /\ cmd[i] = "restart" /\ found[i] # none
    /\ Kill(i, found[i], "TERM")
    /\ Again(i)
    /\ UNCHANGED <<cmd, pid, text, found, history>>

\* F_SETLK
TakeLock(i) ==
    /\ pc[i] = "lock" /\ lock \in {none, pid[i]}
    /\ lock' = pid[i]
    /\ pc' = [pc EXCEPT ![i] = "truncate"]
    /\ UNCHANGED <<cmd, pid, owner, text, found, tries, pend, status, history>>

\* (Mutant) A lost race for the lock is not counted as an attempt.
MutLockLost(i) ==
    /\ pc[i] = "lock" /\ lock \notin {none, pid[i]}
    /\ UNCHANGED vars

LockLost(i) ==
    /\ pc[i] = "lock" /\ lock \notin {none, pid[i]}
    /\ IF cmd[i] = "restart" THEN Again(i) ELSE Exit(i, "1") /\ UNCHANGED tries
    /\ UNCHANGED <<cmd, pid, text, found, pend, history>>

Truncate(i) ==
    /\ pc[i] = "truncate"
    /\ text' = none
    /\ pc' = [pc EXCEPT ![i] = "write"]
    /\ UNCHANGED <<cmd, pid, owner, lock, found, tries, pend, status, history>>

\* (Mutant) The pidfile is closed when it has been written.
MutWritePid(i) ==
    /\ pc[i] = "write"
    /\ text' = pid[i] /\ lock' = none
    /\ pc' = [pc EXCEPT ![i] = "init"]
    /\ UNCHANGED <<cmd, pid, owner, found, tries, pend, status, history>>

WritePid(i) ==
    /\ pc[i] = "write"
    /\ text' = pid[i]
    /\ pc' = [pc EXCEPT ![i] = "init"]
    /\ UNCHANGED <<cmd, pid, owner, lock, found, tries, pend, status, history>>

(* The rest of main(). *)

\* (Mutant) Success is reported before the threads are started.
Mutsetup_signals(i) ==
    /\ pc[i] = "init"
    /\ pc' = [pc EXCEPT ![i] = "initsig"] /\ status' = [status EXCEPT ![i] = "0"]
    /\ UNCHANGED <<cmd, pid, owner, lock, text, found, tries, pend, history>>

\* Sockets are open, privileges dropped and monio_start has returned.
setup_signals(i) ==
    /\ pc[i] = "init"
    /\ pc' = [pc EXCEPT ![i] = "initsig"]
    /\ UNCHANGED <<cmd, pid, owner, lock, text, found, tries, pend, status, history>>

\* The threads run: '$' goes to the waiting parent, and the main loop starts.
dmn_daemonize_finish(i) ==
    /\ pc[i] = "initsig"
    /\ pc' = [pc EXCEPT ![i] = "run"]
    /\ status' = [status EXCEPT ![i] = "0"] /\ ran' = ran \cup {i}
    /\ UNCHANGED <<cmd, pid, owner, lock, text, found, tries, pend, target>>

\* log_fatal() during startup, or a crash.  parent_status_wait() then reads the
\* end of file of the status pipe.
Fatal(i) ==
    /\ cmd[i] \in Starts /\ pc[i] \notin {"new", "done"}
    /\ Exit(i, "1")
    /\ UNCHANGED <<cmd, pid, text, found, tries, pend, history>>

Step(i) ==
    \/ GetLk(i) \/ GetLkFree(i) \/ ReadPid(i)
    \/ DefaultAction(i) \/ terminal_signal(i) \/ lpe_signal(i)
    \/ Status(i) \/ dmn_signal(i) \/ CondRestart(i)
    \/ StopNotRunning(i) \/ StopKill(i) \/ StopEndLoop(i) \/ StopResult(i)
    \/ StartRefused(i) \/ NotRunning(i) \/ RestartKill(i)
    \/ TakeLock(i) \/ LockLost(i) \/ Truncate(i) \/ WritePid(i)
    \/ setup_signals(i) \/ dmn_daemonize_finish(i)

Next ==
    \/ \E i \in Inv : Step(i) \/ Fatal(i) \/ \E c \in Cmd, p \in Pid : Invoke(i, c, p)
    \/ \E p \in Pid : ReusePid(p)

Spec == Init /\ [][Next]_vars

\* Every process is scheduled.
FairSpec == Spec /\ \A i \in Inv : WF_vars(Step(i))

-----------------------------------------------------------------------------
(* Properties.                                                             *)

\* At most one process at a time is a daemon, or on its way from the pidfile to
\* being one, however starts, restarts, stops and crashes interleave; it holds
\* the lock for all of that time.
OneDaemon ==
    \A i \in Inv : pc[i] \in Serving =>
        /\ lock = pid[i]
        /\ \A j \in Inv \ {i} : pc[j] \notin Serving

\* The status the invoking user sees tells the truth: 0 only after the daemon
\* finished its startup, failure only if it is gone.
StatusTruthful ==
    \A i \in Inv : cmd[i] \in Starts =>
        /\ status[i] = "0" => i \in ran
        /\ status[i] # "0" => pc[i] # "run"
        /\ status[i] = "1" => pc[i] = "done"

\* dmn.h on dmn_stop: "retval == 0 means daemon was not running, or was
\* successfully killed": the process the pidfile pointed to is gone.  Stopping
\* needs the right to signal it; without it kill() fails, and dmn_stop takes the
\* failure for an absent process.
StopMeansStopped ==
    \A i \in Privileged :
        cmd[i] = "stop" /\ status[i] = "0" /\ target[i] \in Inv => pc[target[i]] = "done"

\* Every invocation ends or becomes a running daemon: the loops of stop and
\* restart give up in the end, and no two invocations wait for each other.
CommandsEnd == \A i \in Inv : pc[i] = "check" ~> pc[i] \in {"run", "done"}
=============================================================================

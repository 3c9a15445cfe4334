--------------------------- MODULE DmnDaemonProofs ---------------------------
(***************************************************************************)
(* At most one daemon per pidfile, a truthful status, and a stop that      *)
(* stops, for every number of concurrent invocations, process ids and      *)
(* attempts.                                                               *)
(*                                                                         *)
(* OneDaemon follows from two facts that are inductive together: a live    *)
(* invocation is the owner of its pid (so no two share one, although pids  *)
(* are reused), and whoever is past F_SETLK is the holder of the lock.     *)
(* The second one is what the close() in check_pidfile could break: it     *)
(* drops the caller's own lock, and is harmless because it is only called  *)
(* before the lock is taken.                                               *)
(*                                                                         *)
(* StatusTruthful and StopMeansStopped rest on what an invocation's        *)
(* control point says of its command and status (Purpose, Told) and of     *)
(* the process its check_pidfile found (Owned, Known): the pid that a stop *)
(* signals may change hands, but only after the process it was read for    *)
(* has exited.                                                             *)
(***************************************************************************)
EXTENDS DmnDaemon, TLAPS

Pc == {"new", "check", "legacy", "act", "lock", "kill0", "done"} \cup Locked

Live(i) == pc[i] \notin {"new", "done"}

CoreType ==
    /\ pc \in [Inv -> Pc]
    /\ pid \in [Inv -> Pid \cup {none}]
    /\ owner \in [Pid -> Inv \cup {none, foreign}]
    /\ lock \in Pid \cup {none}

OwnsPid == \A i \in Inv : Live(i) => pid[i] \in Pid /\ owner[pid[i]] = i

HoldsLock == \A i \in Inv : pc[i] \in Locked => lock = pid[i]

Core == CoreType /\ OwnsPid /\ HoldsLock

\* Exit of a live process: the others keep their pids, and the lock if it is theirs.
LEMMA ExitCore ==
  ASSUME Core, NEW i \in Inv, Live(i), NEW s, Exit(i, s), pid' = pid
  PROVE  Core'
<1>1. pc' = [pc EXCEPT ![i] = "done"] /\ owner' = [owner EXCEPT ![pid[i]] = none]
      /\ lock' = IF lock = pid[i] THEN none ELSE lock
  BY DEF Exit
<1>2. CoreType'
  BY <1>1 DEF Core, CoreType, Pc, Locked, Serving
<1>3. OwnsPid'
  BY <1>1 DEF Core, CoreType, OwnsPid, Live
<1>4. HoldsLock'
  BY <1>1 DEF Core, CoreType, OwnsPid, HoldsLock, Live, Locked, Serving
<1> QED BY <1>2, <1>3, <1>4 DEF Core

\* A live process that does not take the lock yet moves to a control point below it.
LEMMA MoveCore ==
  ASSUME Core, NEW i \in Inv, Live(i), NEW to \in Pc \ {"new", "done"},
         to \in Locked => pc[i] \in Locked,
         pc' = [pc EXCEPT ![i] = to],
         lock' = lock \/ (pc[i] \notin Locked /\ lock' = IF lock = pid[i] THEN none ELSE lock),
         pid' = pid, owner' = owner
  PROVE  Core'
<1>1. lock' \in Pid \cup {none} BY DEF Core, CoreType
<1>2. CoreType' BY <1>1 DEF Core, CoreType
<1>3. OwnsPid' BY DEF Core, CoreType, OwnsPid, Live
<1>4. HoldsLock'
  <2> SUFFICES ASSUME NEW j \in Inv, pc'[j] \in Locked PROVE lock = pid[j] /\ lock' = lock
    BY DEF HoldsLock
  <2>1. pc[j] \in Locked BY DEF Core, CoreType
  <2>2. lock = pid[j] BY <2>1 DEF Core, HoldsLock
  <2>3. Live(j) BY <2>1 DEF Live, Locked, Serving
  <2>4. CASE j = i BY <2>1, <2>2, <2>4
  <2>5. CASE j # i
    <3>1. pid[i] # pid[j] BY <2>3, <2>5 DEF Core, OwnsPid
    <3> QED BY <2>2, <3>1
  <2> QED BY <2>4, <2>5
<1> QED BY <1>2, <1>3, <1>4 DEF Core

LEMMA SameCore ==
  ASSUME Core, pc' = pc, pid' = pid, owner' = owner, lock' = lock
  PROVE  Core'
BY DEF Core, CoreType, OwnsPid, HoldsLock, Live

LEMMA AgainCore ==
  ASSUME Core, NEW i \in Inv, Live(i), pc[i] \notin Locked, Again(i), pid' = pid
  PROVE  Core'
<1>1. CASE Exit(i, "1") BY <1>1, ExitCore
<1>2. CASE pc' = [pc EXCEPT ![i] = "check"] /\ UNCHANGED <<owner, lock, status>>
  BY <1>2, MoveCore DEF Pc, Locked, Serving
<1> QED BY <1>1, <1>2 DEF Again

LEMMA CoreInit == Init => Core
BY DmnAssumption DEF Init, Core, CoreType, OwnsPid, HoldsLock, Live, Pc, Locked, Serving

LEMMA CoreStep ==
  ASSUME Core, NEW i \in Inv, Step(i)
  PROVE  Core'
<1> USE DEF history, Live, Pc, Locked, Serving
<1>1. CASE GetLk(i) BY <1>1, MoveCore DEF GetLk
<1>2. CASE GetLkFree(i) BY <1>2, MoveCore DEF GetLkFree
<1>3. CASE ReadPid(i) BY <1>3, MoveCore DEF ReadPid
<1>4. CASE DefaultAction(i) BY <1>4, ExitCore DEF DefaultAction
<1>5. CASE terminal_signal(i) BY <1>5, ExitCore DEF terminal_signal
<1>6. CASE lpe_signal(i) BY <1>6, SameCore DEF lpe_signal
<1>7. CASE Status(i)
  <2>1. Live(i) BY <1>7 DEF Status
  <2>2. PICK s : Exit(i, s) BY <1>7 DEF Status
  <2> QED BY <1>7, <2>1, <2>2, ExitCore DEF Status
<1>8. CASE dmn_signal(i) BY <1>8, ExitCore DEF dmn_signal
<1>9. CASE CondRestart(i)
  <2>1. CASE Exit(i, "0") BY <1>9, <2>1, ExitCore DEF CondRestart
  <2>2. CASE pc' = [pc EXCEPT ![i] = "check"] /\ UNCHANGED <<owner, lock, status>>
    BY <1>9, <2>2, MoveCore DEF CondRestart
  <2> QED BY <1>9, <2>1, <2>2 DEF CondRestart
<1>10. CASE StopNotRunning(i) BY <1>10, ExitCore DEF StopNotRunning
<1>11. CASE StopKill(i) BY <1>11, SameCore DEF StopKill
<1>12. CASE StopEndLoop(i) BY <1>12, MoveCore DEF StopEndLoop
<1>13. CASE StopResult(i)
  <2>1. Live(i) BY <1>13 DEF StopResult
  <2>2. PICK s : Exit(i, s) BY <1>13 DEF StopResult
  <2> QED BY <1>13, <2>1, <2>2, ExitCore DEF StopResult
<1>14. CASE StartRefused(i) BY <1>14, ExitCore DEF StartRefused
<1>15. CASE NotRunning(i) BY <1>15, MoveCore DEF NotRunning
<1>16. CASE RestartKill(i) BY <1>16, AgainCore DEF RestartKill
<1>17. CASE TakeLock(i)
  <2>1. pc[i] = "lock" /\ pc' = [pc EXCEPT ![i] = "truncate"] /\ lock' = pid[i]
        /\ lock \in {none, pid[i]} /\ pid' = pid /\ owner' = owner
    BY <1>17 DEF TakeLock
  <2>2. pid[i] \in Pid BY <2>1 DEF Core, OwnsPid
  <2>3. CoreType' BY <2>1, <2>2 DEF Core, CoreType
  <2>4. OwnsPid' BY <2>1 DEF Core, CoreType, OwnsPid
  <2>5. HoldsLock'
    <3> SUFFICES ASSUME NEW j \in Inv, pc'[j] \in Locked PROVE j = i
      BY <2>1 DEF HoldsLock
    <3>1. SUFFICES ASSUME j # i PROVE FALSE OBVIOUS
    <3>2. pc[j] \in Locked BY <2>1, <3>1 DEF Core, CoreType
    <3>3. lock = pid[j] /\ pid[j] \in Pid /\ owner[pid[j]] = j
      BY <3>2 DEF Core, HoldsLock, OwnsPid
    <3>4. lock = pid[i] BY <2>1, <3>3, DmnAssumption
    <3> QED BY <2>1, <3>1, <3>3, <3>4 DEF Core, OwnsPid
  <2> QED BY <2>3, <2>4, <2>5 DEF Core
<1>18. CASE LockLost(i)
  <2>1. CASE Again(i) BY <1>18, <2>1, AgainCore DEF LockLost
  <2>2. CASE Exit(i, "1") BY <1>18, <2>2, ExitCore DEF LockLost
  <2> QED BY <1>18, <2>1, <2>2 DEF LockLost
<1>19. CASE Truncate(i) BY <1>19, MoveCore DEF Truncate
<1>20. CASE WritePid(i) BY <1>20, MoveCore DEF WritePid
<1>21. CASE setup_signals(i) BY <1>21, MoveCore DEF setup_signals
<1>22. CASE dmn_daemonize_finish(i) BY <1>22, MoveCore DEF dmn_daemonize_finish
<1> QED
  BY <1>1, <1>2, <1>3, <1>4, <1>5, <1>6, <1>7, <1>8, <1>9, <1>10, <1>11, <1>12, <1>13,
     <1>14, <1>15, <1>16, <1>17, <1>18, <1>19, <1>20, <1>21, <1>22 DEF Step

LEMMA CoreNext == Core /\ [Next]_vars => Core'
<1> SUFFICES ASSUME Core, [Next]_vars PROVE Core'
  OBVIOUS
<1>1. ASSUME NEW i \in Inv, Step(i) PROVE Core' BY <1>1, CoreStep
<1>2. ASSUME NEW i \in Inv, Fatal(i) PROVE Core'
  BY <1>2, ExitCore DEF Fatal, Live
<1>3. ASSUME NEW i \in Inv, NEW c \in Cmd, NEW p \in Pid, Invoke(i, c, p) PROVE Core'
  <2>1. pc[i] = "new" /\ owner[p] = none /\ pc' = [pc EXCEPT ![i] = "check"]
        /\ pid' = [pid EXCEPT ![i] = p] /\ owner' = [owner EXCEPT ![p] = i] /\ lock' = lock
    BY <1>3 DEF Invoke
  <2>2. CoreType' BY <2>1 DEF Core, CoreType, Pc
  <2>3. OwnsPid' BY <2>1, DmnAssumption DEF Core, CoreType, OwnsPid, Live
  <2>4. HoldsLock' BY <2>1 DEF Core, CoreType, HoldsLock, Locked, Serving
  <2> QED BY <2>2, <2>3, <2>4 DEF Core
<1>4. ASSUME NEW p \in Pid, ReusePid(p) PROVE Core'
  <2>1. owner[p] = none /\ owner' = [owner EXCEPT ![p] = foreign]
        /\ pc' = pc /\ pid' = pid /\ lock' = lock
    BY <1>4 DEF ReusePid
  <2> QED BY <2>1, DmnAssumption DEF Core, CoreType, OwnsPid, HoldsLock, Live
<1>5. CASE UNCHANGED vars BY <1>5, SameCore DEF vars
<1> QED BY <1>1, <1>2, <1>3, <1>4, <1>5 DEF Next

LEMMA CoreOneDaemon == Core => OneDaemon
<1> SUFFICES ASSUME Core, NEW i \in Inv, pc[i] \in Serving
             PROVE  lock = pid[i] /\ \A j \in Inv \ {i} : pc[j] \notin Serving
  BY DEF OneDaemon
<1>1. lock = pid[i] BY DEF Core, HoldsLock, Locked
<1>2. ASSUME NEW j \in Inv \ {i}, pc[j] \in Serving PROVE FALSE
  <2>1. lock = pid[j] BY <1>2 DEF Core, HoldsLock, Locked
  <2>2. Live(i) /\ Live(j) BY <1>2 DEF Live, Serving
  <2> QED BY <1>1, <2>1, <2>2 DEF Core, OwnsPid
<1> QED BY <1>1, <1>2

(***************************************************************************)
(* However many starts, restarts, stops and crashes interleave, at most    *)
(* one process at a time is past the pidfile race of startup_pidrace, and  *)
(* it holds the fcntl lock for as long as it is there.                     *)
(***************************************************************************)
THEOREM OneDaemonAlways == Spec => []OneDaemon
<1>1. Spec => []Core BY CoreInit, CoreNext, PTL DEF Spec
<1> QED BY <1>1, CoreOneDaemon, PTL

-----------------------------------------------------------------------------
(* What the users are told.                                                *)

\* The steps on the way to a daemon are those of start and restart.
Purpose ==
    \A i \in Inv : /\ pc[i] \in {"lock"} \cup Locked => cmd[i] \in Starts
                   /\ pc[i] = "kill0" => cmd[i] = "stop"

\* The parent is told "0" at the moment the daemon is complete, and nothing
\* before the process is either that or gone.
Told ==
    /\ \A i \in Inv : pc[i] \notin {"run", "done"} => status[i] = "wait"
    /\ \A i \in Inv : pc[i] = "run" => status[i] = "0" /\ i \in ran
    /\ \A i \in Inv : cmd[i] \in Starts /\ status[i] = "0" => i \in ran

ReportType ==
    /\ pc \in [Inv -> Pc] /\ cmd \in [Inv -> Cmd \cup {none}]
    /\ status \in [Inv -> {"wait", "0", "1", "3"}] /\ ran \subseteq Inv

LEMMA ReportStep ==
  ASSUME ReportType, NEW i \in Inv, Step(i)
  PROVE  ReportType'
<1> USE DEF ReportType, Pc, Locked, Serving, history, Cmd, Starts
<1>1. CASE GetLk(i) BY <1>1 DEF GetLk
<1>2. CASE GetLkFree(i) BY <1>2 DEF GetLkFree
<1>3. CASE ReadPid(i) BY <1>3 DEF ReadPid
<1>4. CASE DefaultAction(i) BY <1>4 DEF DefaultAction, Exit
<1>5. CASE terminal_signal(i) BY <1>5 DEF terminal_signal, Exit
<1>6. CASE lpe_signal(i) BY <1>6 DEF lpe_signal
<1>7. CASE Status(i) BY <1>7 DEF Status, Exit
<1>8. CASE dmn_signal(i) BY <1>8 DEF dmn_signal, Exit
<1>9. CASE CondRestart(i) BY <1>9 DEF CondRestart, Exit
<1>10. CASE StopNotRunning(i) BY <1>10 DEF StopNotRunning, Exit
<1>11. CASE StopKill(i) BY <1>11 DEF StopKill
<1>12. CASE StopEndLoop(i) BY <1>12 DEF StopEndLoop
<1>13. CASE StopResult(i) BY <1>13 DEF StopResult, Exit
<1>14. CASE StartRefused(i) BY <1>14 DEF StartRefused, Exit
<1>15. CASE NotRunning(i) BY <1>15 DEF NotRunning
<1>16. CASE RestartKill(i) BY <1>16 DEF RestartKill, Again, Exit
<1>17. CASE TakeLock(i) BY <1>17 DEF TakeLock
<1>18. CASE LockLost(i) BY <1>18 DEF LockLost, Again, Exit
<1>19. CASE Truncate(i) BY <1>19 DEF Truncate
<1>20. CASE WritePid(i) BY <1>20 DEF WritePid
<1>21. CASE setup_signals(i) BY <1>21 DEF setup_signals
<1>22. CASE dmn_daemonize_finish(i) BY <1>22 DEF dmn_daemonize_finish
<1> QED
  BY <1>1, <1>2, <1>3, <1>4, <1>5, <1>6, <1>7, <1>8, <1>9, <1>10, <1>11,
     <1>12, <1>13, <1>14, <1>15, <1>16, <1>17, <1>18, <1>19, <1>20, <1>21, <1>22 DEF Step

LEMMA PurposeStep ==
  ASSUME ReportType, Purpose, NEW i \in Inv, Step(i)
  PROVE  Purpose'
<1> USE DEF ReportType, Purpose, Locked, Serving, history, Starts
<1>1. CASE GetLk(i) BY <1>1 DEF GetLk
<1>2. CASE GetLkFree(i) BY <1>2 DEF GetLkFree
<1>3. CASE ReadPid(i) BY <1>3 DEF ReadPid
<1>4. CASE DefaultAction(i) BY <1>4 DEF DefaultAction, Exit
<1>5. CASE terminal_signal(i) BY <1>5 DEF terminal_signal, Exit
<1>6. CASE lpe_signal(i) BY <1>6 DEF lpe_signal
<1>7. CASE Status(i) BY <1>7 DEF Status, Exit
<1>8. CASE dmn_signal(i) BY <1>8 DEF dmn_signal, Exit
<1>9. CASE CondRestart(i) BY <1>9 DEF CondRestart, Exit
<1>10. CASE StopNotRunning(i) BY <1>10 DEF StopNotRunning, Exit
<1>11. CASE StopKill(i) BY <1>11 DEF StopKill
<1>12. CASE StopEndLoop(i) BY <1>12 DEF StopEndLoop
<1>13. CASE StopResult(i) BY <1>13 DEF StopResult, Exit
<1>14. CASE StartRefused(i) BY <1>14 DEF StartRefused, Exit
<1>15. CASE NotRunning(i) BY <1>15 DEF NotRunning
<1>16. CASE RestartKill(i) BY <1>16 DEF RestartKill, Again, Exit
<1>17. CASE TakeLock(i) BY <1>17 DEF TakeLock
<1>18. CASE LockLost(i) BY <1>18 DEF LockLost, Again, Exit
<1>19. CASE Truncate(i) BY <1>19 DEF Truncate
<1>20. CASE WritePid(i) BY <1>20 DEF WritePid
<1>21. CASE setup_signals(i) BY <1>21 DEF setup_signals
<1>22. CASE dmn_daemonize_finish(i) BY <1>22 DEF dmn_daemonize_finish
<1> QED
  BY <1>1, <1>2, <1>3, <1>4, <1>5, <1>6, <1>7, <1>8, <1>9, <1>10, <1>11,
     <1>12, <1>13, <1>14, <1>15, <1>16, <1>17, <1>18, <1>19, <1>20, <1>21, <1>22 DEF Step

LEMMA ToldStep ==
  ASSUME ReportType, Purpose, Told, NEW i \in Inv, Step(i)
  PROVE  Told'
<1> USE DEF ReportType, Purpose, Told, Locked, Serving, history, Starts
<1>1. CASE GetLk(i) BY <1>1 DEF GetLk
<1>2. CASE GetLkFree(i) BY <1>2 DEF GetLkFree
<1>3. CASE ReadPid(i) BY <1>3 DEF ReadPid
<1>4. CASE DefaultAction(i) BY <1>4 DEF DefaultAction, Exit
<1>5. CASE terminal_signal(i) BY <1>5 DEF terminal_signal, Exit
<1>6. CASE lpe_signal(i) BY <1>6 DEF lpe_signal
<1>7. CASE Status(i) BY <1>7 DEF Status, Exit
<1>8. CASE dmn_signal(i) BY <1>8 DEF dmn_signal, Exit
<1>9. CASE CondRestart(i) BY <1>9 DEF CondRestart, Exit
<1>10. CASE StopNotRunning(i) BY <1>10 DEF StopNotRunning, Exit
<1>11. CASE StopKill(i) BY <1>11 DEF StopKill
<1>12. CASE StopEndLoop(i) BY <1>12 DEF StopEndLoop
<1>13. CASE StopResult(i) BY <1>13 DEF StopResult, Exit
<1>14. CASE StartRefused(i) BY <1>14 DEF StartRefused, Exit
<1>15. CASE NotRunning(i) BY <1>15 DEF NotRunning
<1>16. CASE RestartKill(i) BY <1>16 DEF RestartKill, Again, Exit
<1>17. CASE TakeLock(i) BY <1>17 DEF TakeLock
<1>18. CASE LockLost(i) BY <1>18 DEF LockLost, Again, Exit
<1>19. CASE Truncate(i) BY <1>19 DEF Truncate
<1>20. CASE WritePid(i) BY <1>20 DEF WritePid
<1>21. CASE setup_signals(i) BY <1>21 DEF setup_signals
<1>22. CASE dmn_daemonize_finish(i) BY <1>22 DEF dmn_daemonize_finish
<1> QED
  BY <1>1, <1>2, <1>3, <1>4, <1>5, <1>6, <1>7, <1>8, <1>9, <1>10, <1>11,
     <1>12, <1>13, <1>14, <1>15, <1>16, <1>17, <1>18, <1>19, <1>20, <1>21, <1>22 DEF Step

Report == ReportType /\ Purpose /\ Told

LEMMA ReportNext == Report /\ [Next]_vars => Report'
<1> SUFFICES ASSUME Report, [Next]_vars PROVE Report'
  OBVIOUS
<1> USE DEF Report, ReportType, Purpose, Told
<1>1. ASSUME NEW i \in Inv, Step(i) PROVE Report'
  BY <1>1, ReportStep, PurposeStep, ToldStep
<1>2. ASSUME NEW i \in Inv, Fatal(i) PROVE Report'
  BY <1>2 DEF Fatal, Exit, Pc, Starts, Locked, Serving, history
<1>3. ASSUME NEW i \in Inv, NEW c \in Cmd, NEW p \in Pid, Invoke(i, c, p) PROVE Report'
  BY <1>3 DEF Invoke, Pc, Locked, Serving, history
<1>4. ASSUME NEW p \in Pid, ReusePid(p) PROVE Report'
  BY <1>4 DEF ReusePid, history
<1>5. CASE UNCHANGED vars BY <1>5 DEF vars
<1> QED BY <1>1, <1>2, <1>3, <1>4, <1>5 DEF Next

LEMMA ReportAlways == Spec => []Report
<1>1. Init => Report
  BY DmnAssumption DEF Init, Report, ReportType, Purpose, Told, Pc, Locked, Serving, Cmd, Starts
<1> QED BY <1>1, ReportNext, PTL DEF Spec

(***************************************************************************)
(* However the processes interleave and wherever a start crashes: its user *)
(* is told "0" only if the daemon completed its startup, is told so before *)
(* the daemon serves, and is told of a failure only if the process is gone.*)
(***************************************************************************)
THEOREM StatusTruthfulAlways == Spec => []StatusTruthful
<1>1. Report => StatusTruthful
  BY DEF Report, ReportType, Told, StatusTruthful, Pc, Locked, Serving
<1> QED BY <1>1, ReportAlways, PTL

-----------------------------------------------------------------------------
(* What a stop has stopped.                                                *)

\* A pid belongs to a live process of that pid, so a pid that is free or reused
\* says that whoever had it is gone.
Owned == \A p \in Pid : owner[p] \in Inv => Live(owner[p]) /\ pid[owner[p]] = p

\* What an invocation that acts on check_pidfile knows: the process it has found
\* still has the pid it has found, or is gone.
Known ==
    \A i \in Inv : pc[i] \in {"act", "kill0"} /\ target[i] \in Inv =>
        /\ found[i] \in Pid /\ pc[target[i]] # "new"
        /\ pc[target[i]] # "done" => pid[target[i]] = found[i]

FoundType ==
    /\ found \in [Inv -> Pid \cup {none}] /\ target \in [Inv -> Inv \cup {none, foreign}]
    /\ text \in Pid \cup {none}

LEMMA FoundStep ==
  ASSUME Core, FoundType, NEW i \in Inv, Step(i)
  PROVE  FoundType'
<1> USE DEF FoundType, Core, CoreType, OwnsPid, Live, Locked, Serving, history
<1>1. CASE GetLk(i) BY <1>1 DEF GetLk
<1>2. CASE GetLkFree(i) BY <1>2 DEF GetLkFree
<1>3. CASE ReadPid(i) BY <1>3 DEF ReadPid
<1>4. CASE DefaultAction(i) BY <1>4 DEF DefaultAction, Exit
<1>5. CASE terminal_signal(i) BY <1>5 DEF terminal_signal, Exit
<1>6. CASE lpe_signal(i) BY <1>6 DEF lpe_signal
<1>7. CASE Status(i) BY <1>7 DEF Status, Exit
<1>8. CASE dmn_signal(i) BY <1>8 DEF dmn_signal, Exit
<1>9. CASE CondRestart(i) BY <1>9 DEF CondRestart, Exit
<1>10. CASE StopNotRunning(i) BY <1>10 DEF StopNotRunning, Exit
<1>11. CASE StopKill(i) BY <1>11 DEF StopKill
<1>12. CASE StopEndLoop(i) BY <1>12 DEF StopEndLoop
<1>13. CASE StopResult(i) BY <1>13 DEF StopResult, Exit
<1>14. CASE StartRefused(i) BY <1>14 DEF StartRefused, Exit
<1>15. CASE NotRunning(i) BY <1>15 DEF NotRunning
<1>16. CASE RestartKill(i) BY <1>16 DEF RestartKill, Again, Exit
<1>17. CASE TakeLock(i) BY <1>17 DEF TakeLock
<1>18. CASE LockLost(i) BY <1>18 DEF LockLost, Again, Exit
<1>19. CASE Truncate(i) BY <1>19 DEF Truncate
<1>20. CASE WritePid(i) BY <1>20 DEF WritePid
<1>21. CASE setup_signals(i) BY <1>21 DEF setup_signals
<1>22. CASE dmn_daemonize_finish(i) BY <1>22 DEF dmn_daemonize_finish
<1> QED
  BY <1>1, <1>2, <1>3, <1>4, <1>5, <1>6, <1>7, <1>8, <1>9, <1>10, <1>11,
     <1>12, <1>13, <1>14, <1>15, <1>16, <1>17, <1>18, <1>19, <1>20, <1>21, <1>22 DEF Step

LEMMA OwnedStep ==
  ASSUME Core, Owned, NEW i \in Inv, Step(i)
  PROVE  Owned'
<1> USE DmnAssumption DEF Core, CoreType, OwnsPid, Owned, Live, Pc, Locked, Serving, history
<1>1. CASE GetLk(i) BY <1>1 DEF GetLk
<1>2. CASE GetLkFree(i) BY <1>2 DEF GetLkFree
<1>3. CASE ReadPid(i) BY <1>3 DEF ReadPid
<1>4. CASE DefaultAction(i) BY <1>4 DEF DefaultAction, Exit
<1>5. CASE terminal_signal(i) BY <1>5 DEF terminal_signal, Exit
<1>6. CASE lpe_signal(i) BY <1>6 DEF lpe_signal
<1>7. CASE Status(i) BY <1>7 DEF Status, Exit
<1>8. CASE dmn_signal(i) BY <1>8 DEF dmn_signal, Exit
<1>9. CASE CondRestart(i) BY <1>9 DEF CondRestart, Exit
<1>10. CASE StopNotRunning(i) BY <1>10 DEF StopNotRunning, Exit
<1>11. CASE StopKill(i) BY <1>11 DEF StopKill
<1>12. CASE StopEndLoop(i) BY <1>12 DEF StopEndLoop
<1>13. CASE StopResult(i) BY <1>13 DEF StopResult, Exit
<1>14. CASE StartRefused(i) BY <1>14 DEF StartRefused, Exit
<1>15. CASE NotRunning(i) BY <1>15 DEF NotRunning
<1>16. CASE RestartKill(i) BY <1>16 DEF RestartKill, Again, Exit
<1>17. CASE TakeLock(i) BY <1>17 DEF TakeLock
<1>18. CASE LockLost(i) BY <1>18 DEF LockLost, Again, Exit
<1>19. CASE Truncate(i) BY <1>19 DEF Truncate
<1>20. CASE WritePid(i) BY <1>20 DEF WritePid
<1>21. CASE setup_signals(i) BY <1>21 DEF setup_signals
<1>22. CASE dmn_daemonize_finish(i) BY <1>22 DEF dmn_daemonize_finish
<1> QED
  BY <1>1, <1>2, <1>3, <1>4, <1>5, <1>6, <1>7, <1>8, <1>9, <1>10, <1>11,
     <1>12, <1>13, <1>14, <1>15, <1>16, <1>17, <1>18, <1>19, <1>20, <1>21, <1>22 DEF Step

LEMMA KnownStep ==
  ASSUME Core, Owned, FoundType, Known, NEW i \in Inv, Step(i)
  PROVE  Known'
<1> USE DmnAssumption DEF Core, CoreType, Owned, FoundType, Known, Live, Locked, Serving, history
<1>1. CASE GetLk(i) BY <1>1 DEF GetLk
<1>2. CASE GetLkFree(i) BY <1>2 DEF GetLkFree
<1>3. CASE ReadPid(i) BY <1>3 DEF ReadPid
<1>4. CASE DefaultAction(i) BY <1>4 DEF DefaultAction, Exit
<1>5. CASE terminal_signal(i) BY <1>5 DEF terminal_signal, Exit
<1>6. CASE lpe_signal(i) BY <1>6 DEF lpe_signal
<1>7. CASE Status(i) BY <1>7 DEF Status, Exit
<1>8. CASE dmn_signal(i) BY <1>8 DEF dmn_signal, Exit
<1>9. CASE CondRestart(i) BY <1>9 DEF CondRestart, Exit
<1>10. CASE StopNotRunning(i) BY <1>10 DEF StopNotRunning, Exit
<1>11. CASE StopKill(i) BY <1>11 DEF StopKill
<1>12. CASE StopEndLoop(i) BY <1>12 DEF StopEndLoop
<1>13. CASE StopResult(i) BY <1>13 DEF StopResult, Exit
<1>14. CASE StartRefused(i) BY <1>14 DEF StartRefused, Exit
<1>15. CASE NotRunning(i) BY <1>15 DEF NotRunning
<1>16. CASE RestartKill(i) BY <1>16 DEF RestartKill, Again, Exit
<1>17. CASE TakeLock(i) BY <1>17 DEF TakeLock
<1>18. CASE LockLost(i) BY <1>18 DEF LockLost, Again, Exit
<1>19. CASE Truncate(i) BY <1>19 DEF Truncate
<1>20. CASE WritePid(i) BY <1>20 DEF WritePid
<1>21. CASE setup_signals(i) BY <1>21 DEF setup_signals
<1>22. CASE dmn_daemonize_finish(i) BY <1>22 DEF dmn_daemonize_finish
<1> QED
  BY <1>1, <1>2, <1>3, <1>4, <1>5, <1>6, <1>7, <1>8, <1>9, <1>10, <1>11,
     <1>12, <1>13, <1>14, <1>15, <1>16, <1>17, <1>18, <1>19, <1>20, <1>21, <1>22 DEF Step

LEMMA StopStep ==
  ASSUME Core, Report, FoundType, Known, StopMeansStopped, NEW i \in Inv, Step(i)
  PROVE  StopMeansStopped'
<1> USE DmnAssumption DEF Core, CoreType, OwnsPid, Report, ReportType, Purpose, Told, FoundType, Known,
        StopMeansStopped, Live, Pc, Locked, Serving, Starts, history
<1>1. CASE GetLk(i) BY <1>1 DEF GetLk
<1>2. CASE GetLkFree(i) BY <1>2 DEF GetLkFree
<1>3. CASE ReadPid(i) BY <1>3 DEF ReadPid
<1>4. CASE DefaultAction(i) BY <1>4 DEF DefaultAction, Exit
<1>5. CASE terminal_signal(i) BY <1>5 DEF terminal_signal, Exit
<1>6. CASE lpe_signal(i) BY <1>6 DEF lpe_signal
<1>7. CASE Status(i) BY <1>7 DEF Status, Exit
<1>8. CASE dmn_signal(i) BY <1>8 DEF dmn_signal, Exit
<1>9. CASE CondRestart(i) BY <1>9 DEF CondRestart, Exit
<1>10. CASE StopNotRunning(i) BY <1>10 DEF StopNotRunning, Exit
<1>11. CASE StopKill(i) BY <1>11 DEF StopKill
<1>12. CASE StopEndLoop(i) BY <1>12 DEF StopEndLoop
<1>13. CASE StopResult(i) BY <1>13 DEF StopResult, Exit, Alive
<1>14. CASE StartRefused(i) BY <1>14 DEF StartRefused, Exit
<1>15. CASE NotRunning(i) BY <1>15 DEF NotRunning
<1>16. CASE RestartKill(i) BY <1>16 DEF RestartKill, Again, Exit
<1>17. CASE TakeLock(i) BY <1>17 DEF TakeLock
<1>18. CASE LockLost(i) BY <1>18 DEF LockLost, Again, Exit
<1>19. CASE Truncate(i) BY <1>19 DEF Truncate
<1>20. CASE WritePid(i) BY <1>20 DEF WritePid
<1>21. CASE setup_signals(i) BY <1>21 DEF setup_signals
<1>22. CASE dmn_daemonize_finish(i) BY <1>22 DEF dmn_daemonize_finish
<1> QED
  BY <1>1, <1>2, <1>3, <1>4, <1>5, <1>6, <1>7, <1>8, <1>9, <1>10, <1>11,
     <1>12, <1>13, <1>14, <1>15, <1>16, <1>17, <1>18, <1>19, <1>20, <1>21, <1>22 DEF Step

StopInv == FoundType /\ Owned /\ Known /\ StopMeansStopped

LEMMA StopNext == Core /\ Report /\ StopInv /\ [Next]_vars => StopInv'
<1> SUFFICES ASSUME Core, Report, StopInv, [Next]_vars PROVE StopInv'
  OBVIOUS
<1> USE DEF StopInv, FoundType, Owned, Known, StopMeansStopped
<1>1. ASSUME NEW i \in Inv, Step(i) PROVE StopInv'
  BY <1>1, FoundStep, OwnedStep, KnownStep, StopStep
<1>2. ASSUME NEW i \in Inv, Fatal(i) PROVE StopInv'
  <2>1. /\ cmd[i] \in Starts /\ Live(i) /\ pc' = [pc EXCEPT ![i] = "done"]
        /\ owner' = [owner EXCEPT ![pid[i]] = none]
        /\ status' = [status EXCEPT ![i] = IF @ = "wait" THEN "1" ELSE @]
        /\ UNCHANGED <<cmd, pid, text, found, target>>
    BY <1>2 DEF Fatal, Exit, history, Live
  <2>2. FoundType' BY <2>1
  <2>3. Owned' BY <2>1, DmnAssumption DEF Core, CoreType, OwnsPid, Live
  <2>4. Known' BY <2>1 DEF Core, CoreType, Live
  <2>5. StopMeansStopped' BY <2>1, DmnAssumption DEF Core, CoreType, Report, ReportType, Starts
  <2> QED BY <2>2, <2>3, <2>4, <2>5
<1>3. ASSUME NEW i \in Inv, NEW c \in Cmd, NEW p \in Pid, Invoke(i, c, p) PROVE StopInv'
  <2>1. /\ pc[i] = "new" /\ owner[p] = none /\ pc' = [pc EXCEPT ![i] = "check"]
        /\ pid' = [pid EXCEPT ![i] = p] /\ owner' = [owner EXCEPT ![p] = i]
        /\ cmd' = [cmd EXCEPT ![i] = c] /\ UNCHANGED <<text, found, target, status>>
    BY <1>3 DEF Invoke, history
  <2>2. FoundType' BY <2>1
  <2>3. Owned' BY <2>1, DmnAssumption DEF Core, CoreType, OwnsPid, Live
  <2>4. Known' BY <2>1 DEF Core, CoreType
  <2>5. StopMeansStopped'
    BY <2>1, DmnAssumption DEF Core, CoreType, Report, ReportType, Told
  <2> QED BY <2>2, <2>3, <2>4, <2>5
<1>4. ASSUME NEW p \in Pid, ReusePid(p) PROVE StopInv'
  BY <1>4, DmnAssumption DEF ReusePid, history, Core, CoreType, Live
<1>5. CASE UNCHANGED vars BY <1>5 DEF vars, Live
<1> QED BY <1>1, <1>2, <1>3, <1>4, <1>5 DEF Next

(***************************************************************************)
(* dmn_stop by a user who may signal the daemon: if it returns success,    *)
(* the process that the pidfile pointed to when it looked is gone, although*)
(* pids are reused and the daemon may be replaced meanwhile.               *)
(***************************************************************************)
THEOREM StopMeansStoppedAlways == Spec => []StopMeansStopped
<1>1. Init => StopInv
  BY DmnAssumption DEF Init, StopInv, FoundType, Owned, Known, StopMeansStopped
<1>2. Spec => []Core BY CoreInit, CoreNext, PTL DEF Spec
<1>3. StopInv => StopMeansStopped BY DEF StopInv
<1> QED BY <1>1, <1>2, <1>3, ReportAlways, StopNext, PTL DEF Spec

-----------------------------------------------------------------------------
(* Types, and with them the bound on the attempts.                         *)

\* Attempts are counted from 0, and a restart that has used them up has exited.
Attempts ==
    /\ tries \in [Inv -> 0..maxtries]
    /\ \A i \in Inv : (cmd[i] # "stop" \/ pc[i] = "new") /\ pc[i] # "done"
                          => tries[i] < maxtries

PendType == pend \in [Inv -> SUBSET {"TERM", "USR"}]

LEMMA AttemptsStep ==
  ASSUME ReportType, Attempts, NEW i \in Inv, Step(i)
  PROVE  Attempts'
<1> USE DmnAssumption DEF ReportType, Attempts, history
<1>1. CASE GetLk(i) BY <1>1 DEF GetLk
<1>2. CASE GetLkFree(i) BY <1>2 DEF GetLkFree
<1>3. CASE ReadPid(i) BY <1>3 DEF ReadPid
<1>4. CASE DefaultAction(i) BY <1>4 DEF DefaultAction, Exit
<1>5. CASE terminal_signal(i) BY <1>5 DEF terminal_signal, Exit
<1>6. CASE lpe_signal(i) BY <1>6 DEF lpe_signal
<1>7. CASE Status(i) BY <1>7 DEF Status, Exit
<1>8. CASE dmn_signal(i) BY <1>8 DEF dmn_signal, Exit
<1>9. CASE CondRestart(i) BY <1>9 DEF CondRestart, Exit
<1>10. CASE StopNotRunning(i) BY <1>10 DEF StopNotRunning, Exit
<1>11. CASE StopKill(i) BY <1>11 DEF StopKill
<1>12. CASE StopEndLoop(i) BY <1>12 DEF StopEndLoop
<1>13. CASE StopResult(i) BY <1>13 DEF StopResult, Exit
<1>14. CASE StartRefused(i) BY <1>14 DEF StartRefused, Exit
<1>15. CASE NotRunning(i) BY <1>15 DEF NotRunning
<1>16. CASE RestartKill(i) BY <1>16 DEF RestartKill, Again, Exit
<1>17. CASE TakeLock(i) BY <1>17 DEF TakeLock
<1>18. CASE LockLost(i) BY <1>18 DEF LockLost, Again, Exit
<1>19. CASE Truncate(i) BY <1>19 DEF Truncate
<1>20. CASE WritePid(i) BY <1>20 DEF WritePid
<1>21. CASE setup_signals(i) BY <1>21 DEF setup_signals
<1>22. CASE dmn_daemonize_finish(i) BY <1>22 DEF dmn_daemonize_finish
<1> QED
  BY <1>1, <1>2, <1>3, <1>4, <1>5, <1>6, <1>7, <1>8, <1>9, <1>10, <1>11,
     <1>12, <1>13, <1>14, <1>15, <1>16, <1>17, <1>18, <1>19, <1>20, <1>21, <1>22 DEF Step

LEMMA PendStep ==
  ASSUME Core, FoundType, PendType, NEW i \in Inv, Step(i)
  PROVE  PendType'
<1> USE DmnAssumption DEF Core, CoreType, FoundType, PendType, history
<1>1. CASE GetLk(i) BY <1>1 DEF GetLk
<1>2. CASE GetLkFree(i) BY <1>2 DEF GetLkFree
<1>3. CASE ReadPid(i) BY <1>3 DEF ReadPid
<1>4. CASE DefaultAction(i) BY <1>4 DEF DefaultAction
<1>5. CASE terminal_signal(i) BY <1>5 DEF terminal_signal
<1>6. CASE lpe_signal(i) BY <1>6 DEF lpe_signal
<1>7. CASE Status(i) BY <1>7 DEF Status
<1>8. CASE dmn_signal(i) BY <1>8 DEF dmn_signal, Kill
<1>9. CASE CondRestart(i) BY <1>9 DEF CondRestart
<1>10. CASE StopNotRunning(i) BY <1>10 DEF StopNotRunning
<1>11. CASE StopKill(i) BY <1>11 DEF StopKill, Kill
<1>12. CASE StopEndLoop(i) BY <1>12 DEF StopEndLoop
<1>13. CASE StopResult(i) BY <1>13 DEF StopResult
<1>14. CASE StartRefused(i) BY <1>14 DEF StartRefused
<1>15. CASE NotRunning(i) BY <1>15 DEF NotRunning
<1>16. CASE RestartKill(i) BY <1>16 DEF RestartKill, Kill
<1>17. CASE TakeLock(i) BY <1>17 DEF TakeLock
<1>18. CASE LockLost(i) BY <1>18 DEF LockLost
<1>19. CASE Truncate(i) BY <1>19 DEF Truncate
<1>20. CASE WritePid(i) BY <1>20 DEF WritePid
<1>21. CASE setup_signals(i) BY <1>21 DEF setup_signals
<1>22. CASE dmn_daemonize_finish(i) BY <1>22 DEF dmn_daemonize_finish
<1> QED
  BY <1>1, <1>2, <1>3, <1>4, <1>5, <1>6, <1>7, <1>8, <1>9, <1>10, <1>11,
     <1>12, <1>13, <1>14, <1>15, <1>16, <1>17, <1>18, <1>19, <1>20, <1>21, <1>22 DEF Step

LEMMA CountNext ==
  Core /\ ReportType /\ FoundType /\ Attempts /\ PendType /\ [Next]_vars => Attempts' /\ PendType'
<1> SUFFICES ASSUME Core, ReportType, FoundType, Attempts, PendType, [Next]_vars
             PROVE  Attempts' /\ PendType'
  OBVIOUS
<1> USE DEF Attempts, PendType, ReportType
<1>1. ASSUME NEW i \in Inv, Step(i) PROVE Attempts' /\ PendType'
  BY <1>1, AttemptsStep, PendStep
<1>2. ASSUME NEW i \in Inv, Fatal(i) PROVE Attempts' /\ PendType'
  BY <1>2 DEF Fatal, Exit, history
<1>3. ASSUME NEW i \in Inv, NEW c \in Cmd, NEW p \in Pid, Invoke(i, c, p) PROVE Attempts' /\ PendType'
  <2>1. /\ pc[i] = "new" /\ pc' = [pc EXCEPT ![i] = "check"]
        /\ cmd' = [cmd EXCEPT ![i] = c] /\ UNCHANGED <<tries, pend>>
    BY <1>3 DEF Invoke, history
  <2> QED BY <2>1
<1>4. ASSUME NEW p \in Pid, ReusePid(p) PROVE Attempts' /\ PendType'
  BY <1>4 DEF ReusePid, history
<1>5. CASE UNCHANGED vars BY <1>5 DEF vars
<1> QED BY <1>1, <1>2, <1>3, <1>4, <1>5 DEF Next

\* Type correctness; in particular the loops of stop and restart never count
\* beyond maxtries.
THEOREM TypeCorrect == Spec => []TypeOK
<1>1. Init => StopInv /\ Attempts /\ PendType
  BY DmnAssumption DEF Init, StopInv, FoundType, Owned, Known, StopMeansStopped, Attempts, PendType
<1>2. Spec => []Core BY CoreInit, CoreNext, PTL DEF Spec
<1>3. Report => ReportType BY DEF Report
<1>4. StopInv => FoundType BY DEF StopInv
<1>5. Core /\ Report /\ StopInv /\ Attempts /\ PendType => TypeOK
  BY DEF Core, CoreType, Report, ReportType, StopInv, FoundType, Attempts, PendType, TypeOK, Pc
<1> QED BY <1>1, <1>2, <1>3, <1>4, <1>5, ReportAlways, StopNext, CountNext, PTL DEF Spec
=============================================================================

------------------------------ MODULE Threads ------------------------------
(***************************************************************************)
(* The process of a running daemon (main.c, dns_lsock_init of conf.c, and  *)
(* dnspacket_wait_stats and dnspacket_init_stats of dnspacket.c): the main *)
(* thread reads the configuration, binds the DNS sockets, drops its        *)
(* privileges, starts one I/O thread per socket, waits on a condition      *)
(* variable until each has stored its stats structure, runs the main event *)
(* loop, and on a signal exits through threads_cleanup, which cancels and  *)
(* joins the threads.  Threads whose socket could not be bound because the *)
(* address was not there yet retry it, and may give up.                    *)
(***************************************************************************)
EXTENDS Conf

CONSTANTS Setups,     \* configurations, as in Conf, with "root": started as root,
                      \* and "caps": built with USE_LINUX_CAPS
          MaxThreads  \* bound: no configuration has more listeners

Thread == 1..MaxThreads

\* The listeners of a configuration that is accepted.
Listeners(addrs) ==
    Len(addrs) \in Nat /\ DOMAIN addrs = 1..Len(addrs) /\ num_io_threads(addrs) <= MaxThreads
SetupsOk ==
    MaxThreads \in Nat \ {0} /\ \A c \in Setups : ConfFatal(c) \/ Listeners(process_listen(c))

ASSUME ThreadsAssumption == SetupsOk

VARIABLES setup,      \* the configuration file
          dns_addrs,  \* gconfig.dns_addrs
          need_late_bind,     \* threads with tcp_need_late_bind or udp_need_late_bind
          netbind,    \* the process may bind ports below 1024
          threadids,  \* thread number -> the thread, 0 if there is none
          main,       \* control point of the main thread
          k,          \* its loop variable in start_threads and threads_cleanup
          th,         \* control point of each thread
          mutex,      \* stats_init_mutex: its holder, 0 is the main thread
          stats_initialized,
          dnspacket_stats,    \* thread numbers whose stats pointer is set
          atexit,     \* threads_cleanup is registered and has not been run
          cancelled,  \* threads with a pending pthread_cancel()
          sigterm,    \* a terminating signal has been received
          exiter,     \* a thread other than main that is inside exit()
          ended       \* the process is gone

startVars == <<setup, dns_addrs, need_late_bind, netbind>>
threadsVars == <<startVars, threadids, main, k, th, mutex, stats_initialized, dnspacket_stats, atexit,
          cancelled, sigterm, exiter, ended>>

N == num_io_threads(dns_addrs)
free == MaxThreads + 1        \* the mutex is not held, or there is no exiter

\* The listener of the t-th thread to be started, and the thread's number.
IsUdp(t) == t <= Len(dns_addrs)
AddrOf(t) ==
    IF IsUdp(t) THEN t
    ELSE CHOOSE i \in DOMAIN dns_addrs :
           ~dns_addrs[i].tcp_disabled /\ TcpUpTo(dns_addrs, i) = t - Len(dns_addrs)
threadnum(t) ==
    LET nums == assign_thread_nums(dns_addrs)[AddrOf(t)] IN IF IsUdp(t) THEN nums.udp ELSE nums.tcp
Privileged(t) == dns_addrs[AddrOf(t)].addr.port < 1024

ThreadsTypeOK ==
    /\ main \in {"conf", "bind", "secure", "create", "lock", "test", "wait", "woken", "unlock",
                 "statio", "run", "cancel", "join", "exit"}
    /\ need_late_bind \subseteq Thread /\ netbind \in BOOLEAN
    /\ threadids \in [Thread -> Thread \cup {0}]
    /\ k \in 1..free
    /\ th \in [Thread -> {"none", "lock", "stats", "unlock", "late", "serve", "dead"}]
    /\ mutex \in 0..free
    /\ stats_initialized \in 0..MaxThreads /\ dnspacket_stats \subseteq Thread
    /\ atexit \in BOOLEAN /\ cancelled \subseteq Thread /\ sigterm \in BOOLEAN
    /\ exiter \in Thread \cup {free} /\ ended \in BOOLEAN

ThreadsInit ==
    /\ setup \in Setups /\ dns_addrs = <<>> /\ need_late_bind = {} /\ netbind = TRUE
    /\ threadids = [n \in Thread |-> 0]
    /\ main = "conf" /\ k = 1 /\ th = [t \in Thread |-> "none"] /\ mutex = free
    /\ stats_initialized = 0 /\ dnspacket_stats = {} /\ atexit = FALSE
    /\ cancelled = {} /\ sigterm = FALSE /\ exiter = free /\ ended = FALSE

-----------------------------------------------------------------------------
(* Up to start_threads there is only the main thread.                      *)

Starting(from, to) ==
    /\ main = from /\ main' = to
    /\ UNCHANGED <<setup, threadids, k, th, mutex, stats_initialized, dnspacket_stats, atexit,
                   cancelled, sigterm, exiter>>

conf_load ==
    /\ UNCHANGED <<need_late_bind, netbind>>
    /\ IF ConfFatal(setup)
       THEN Starting("conf", "exit") /\ ended' = TRUE /\ UNCHANGED dns_addrs
       ELSE Starting("conf", "bind") /\ dns_addrs' = process_listen(setup) /\ UNCHANGED ended

\* udp_sock_setup and tcp_dns_listen_setup of each address: sockets are bound, or
\* left for later if their address is not there and that is configured.  If a
\* port below 1024 is among those, netbind has to be kept.
dns_lsock_init ==
    /\ Starting("bind", "secure") /\ UNCHANGED <<dns_addrs, ended>>
    /\ \E S \in SUBSET {t \in 1..N : dns_addrs[AddrOf(t)].late_bind_secs > 0} :
         /\ need_late_bind' = S
         /\ netbind' = \E t \in S : Privileged(t)

\* Any other error, or one of a socket that must be bound at once.
BindFails ==
    /\ Starting("bind", "exit") /\ ended' = TRUE
    /\ UNCHANGED <<dns_addrs, need_late_bind, netbind>>

\* With Linux capabilities root gives up all but the one that is needed.  Without
\* them it depends on the system what is left (there is a warning), and others
\* than root keep what they have.
secure_me ==
    /\ Starting("secure", "create") /\ UNCHANGED <<dns_addrs, need_late_bind, ended>>
    /\ IF setup.root /\ setup.caps THEN UNCHANGED netbind ELSE netbind' \in BOOLEAN

\* No handlers are installed yet.
EarlySignal ==
    /\ \E from \in {"conf", "bind", "secure"} : Starting(from, "exit")
    /\ ended' = TRUE /\ UNCHANGED <<dns_addrs, need_late_bind, netbind>>

-----------------------------------------------------------------------------
(* start_threads                                                           *)

pthread_create ==
    /\ main = "create" /\ k <= N
    /\ threadids' = [threadids EXCEPT ![threadnum(k)] = k]
    /\ th' = [th EXCEPT ![k] = "lock"]
    /\ k' = k + 1
    /\ UNCHANGED <<startVars, main, mutex, stats_initialized, dnspacket_stats, atexit, cancelled,
                   sigterm, exiter, ended>>

\* log_fatal(): nothing is registered with atexit() yet.
CreateFails ==
    /\ main = "create" /\ k <= N
    /\ main' = "exit" /\ ended' = TRUE
    /\ UNCHANGED <<startVars, threadids, k, th, mutex, stats_initialized, dnspacket_stats, atexit, cancelled,
                   sigterm, exiter>>

RegisterCleanup ==
    /\ main = "create" /\ k > N
    /\ atexit' = TRUE /\ main' = "lock"
    /\ UNCHANGED <<startVars, threadids, k, th, mutex, stats_initialized, dnspacket_stats, cancelled, sigterm,
                   exiter, ended>>

-----------------------------------------------------------------------------
(* dnspacket_wait_stats                                                    *)

MainGo(from, to) ==
    /\ main = from /\ main' = to
    /\ UNCHANGED <<startVars, threadids, k, th, stats_initialized, dnspacket_stats, atexit, cancelled, sigterm,
                   exiter, ended>>

MainLock == mutex = free /\ mutex' = 0 /\ (MainGo("lock", "test") \/ MainGo("woken", "test"))

\* (Mutant) The condition is tested once, so a spurious wakeup ends the wait.
MutMainTest ==
    \/ /\ stats_initialized < N /\ mutex' = free /\ MainGo("test", "wait")
    \/ /\ stats_initialized >= N /\ UNCHANGED mutex /\ MainGo("test", "unlock")
    \/ /\ mutex = free /\ mutex' = 0 /\ MainGo("woken", "unlock")

\* pthread_cond_wait() gives the mutex up and sleeps in one step.
MainTest ==
    \/ /\ stats_initialized < N /\ mutex' = free /\ MainGo("test", "wait")
    \/ /\ stats_initialized >= N /\ UNCHANGED mutex /\ MainGo("test", "unlock")

SpuriousWakeup == UNCHANGED mutex /\ MainGo("wait", "woken")

MainUnlock == mutex' = free /\ MainGo("unlock", "statio")

\* statio_start and dmn_daemonize_finish.
Running == UNCHANGED mutex /\ MainGo("statio", "run")

-----------------------------------------------------------------------------
(* The I/O threads: dnsio_udp_start and dnsio_tcp_start.                   *)

ThreadLock(t) ==
    /\ th[t] = "lock" /\ mutex = free
    /\ mutex' = t
    /\ th' = [th EXCEPT ![t] = "stats"]
    /\ UNCHANGED <<startVars, threadids, main, k, stats_initialized, dnspacket_stats, atexit, cancelled,
                   sigterm, exiter, ended>>

\* (Mutant) The condition variable is not signalled.
Mutdnspacket_init_stats(t) ==
    /\ th[t] = "stats"
    /\ dnspacket_stats' = dnspacket_stats \cup {threadnum(t)}
    /\ stats_initialized' = stats_initialized + 1
    /\ th' = [th EXCEPT ![t] = "unlock"]
    /\ UNCHANGED <<startVars, threadids, main, k, mutex, atexit, cancelled, sigterm, exiter, ended>>

\* Store the pointer, count, and pthread_cond_signal().
dnspacket_init_stats(t) ==
    /\ th[t] = "stats"
    /\ dnspacket_stats' = dnspacket_stats \cup {threadnum(t)}
    /\ stats_initialized' = stats_initialized + 1
    /\ main' = IF main = "wait" THEN "woken" ELSE main
    /\ th' = [th EXCEPT ![t] = "unlock"]
    /\ UNCHANGED <<startVars, threadids, k, mutex, atexit, cancelled, sigterm, exiter, ended>>

ThreadGo(t, from, to) ==
    /\ th[t] = from
    /\ th' = [th EXCEPT ![t] = to]
    /\ UNCHANGED <<startVars, threadids, main, k, stats_initialized, dnspacket_stats, atexit, cancelled,
                   sigterm, exiter, ended>>

ThreadUnlock(t) ==
    /\ mutex' = free
    /\ ThreadGo(t, "unlock", IF t \in need_late_bind THEN "late" ELSE "serve")

\* The late bind succeeds, or fails for good and the thread exits.
LateBind(t) ==
    /\ th[t] = "late" /\ exiter # t
    /\ UNCHANGED mutex
    /\ \/ (Privileged(t) => netbind) /\ ThreadGo(t, "late", "serve")
       \/ ThreadGo(t, "late", "dead")

\* A pending cancellation: the thread is asynchronously cancellable once it has
\* its stats, and it does not hold the mutex then.
CancelTakesEffect(t) ==
    /\ t \in cancelled /\ th[t] \in {"late", "serve"}
    /\ th' = [th EXCEPT ![t] = "dead"]
    /\ exiter' = IF exiter = t THEN free ELSE exiter
    /\ UNCHANGED <<startVars, threadids, main, k, mutex, stats_initialized, dnspacket_stats, atexit, cancelled,
                   sigterm, ended>>

-----------------------------------------------------------------------------
(* log_fatal() in an I/O thread (a late listen(), ev_loop_new() or a libev  *)
(* system call fails): exit() runs threads_cleanup in that thread.         *)

ThreadFatal(t) ==
    /\ th[t] \in {"late", "serve"} /\ exiter = free
    /\ exiter' = t
    /\ UNCHANGED <<startVars, threadids, main, k, th, mutex, stats_initialized, dnspacket_stats, atexit,
                   cancelled, sigterm, ended>>

\* pthread_cancel() from the first thread on.  Cancelling itself ends the
\* thread at once, inside exit(); the handler will not be run again.
ExiterCleanup(t) ==
    /\ exiter = t /\ atexit
    /\ cancelled' = cancelled \cup {threadids[n] : n \in 1..threadnum(t)}
    /\ th' = [th EXCEPT ![t] = "dead"]
    /\ exiter' = free /\ atexit' = FALSE
    /\ UNCHANGED <<startVars, threadids, main, k, mutex, stats_initialized, dnspacket_stats, sigterm, ended>>

\* No handler is registered yet, or another thread has taken it.
ExiterEnds(t) ==
    /\ exiter = t /\ ~atexit
    /\ ended' = TRUE
    /\ UNCHANGED <<startVars, threadids, main, k, th, mutex, stats_initialized, dnspacket_stats, atexit,
                   cancelled, sigterm, exiter>>

-----------------------------------------------------------------------------
(* Shutdown.                                                               *)

Signal ==
    /\ main \notin {"conf", "bind", "secure"}
    /\ ~sigterm /\ sigterm' = TRUE
    /\ UNCHANGED <<startVars, threadids, main, k, th, mutex, stats_initialized, dnspacket_stats, atexit,
                   cancelled, exiter, ended>>

\* terminal_signal breaks the main loop; main() calls exit(0).
Terminate ==
    /\ main = "run" /\ sigterm
    /\ IF atexit THEN main' = "cancel" /\ k' = 1 /\ UNCHANGED ended
                 ELSE main' = "exit" /\ ended' = TRUE /\ UNCHANGED k
    /\ atexit' = FALSE
    /\ UNCHANGED <<startVars, threadids, th, mutex, stats_initialized, dnspacket_stats, cancelled, sigterm, exiter>>

\* (Mutant) The first thread is forgotten.
Mutpthread_cancel ==
    /\ main = "cancel"
    /\ cancelled' = cancelled \cup {threadids[n] : n \in 2..N}
    /\ main' = "join"
    /\ UNCHANGED <<startVars, threadids, k, th, mutex, stats_initialized, dnspacket_stats, atexit, sigterm,
                   exiter, ended>>

pthread_cancel ==
    /\ main = "cancel"
    /\ cancelled' = cancelled \cup {threadids[n] : n \in 1..N}
    /\ main' = "join"
    /\ UNCHANGED <<startVars, threadids, k, th, mutex, stats_initialized, dnspacket_stats, atexit, sigterm,
                   exiter, ended>>

\* Threads are joined in order; a thread that gave up before is joined, too.
pthread_join ==
    /\ main = "join"
    /\ IF k > N THEN main' = "exit" /\ ended' = TRUE /\ UNCHANGED k
                ELSE th[threadids[k]] = "dead" /\ k' = k + 1 /\ UNCHANGED <<main, ended>>
    /\ UNCHANGED <<startVars, threadids, th, mutex, stats_initialized, dnspacket_stats, atexit, cancelled,
                   sigterm, exiter>>

MainStep ==
    \/ conf_load \/ dns_lsock_init \/ secure_me
    \/ pthread_create \/ RegisterCleanup \/ MainLock \/ MainTest \/ MainUnlock
    \/ Running \/ Terminate \/ pthread_cancel \/ pthread_join

ThreadStep(t) ==
    \/ ThreadLock(t) \/ dnspacket_init_stats(t) \/ ThreadUnlock(t)
    \/ CancelTakesEffect(t) \/ ExiterCleanup(t) \/ ExiterEnds(t)

ThreadsNext ==
    /\ ~ended
    /\ \/ MainStep \/ BindFails \/ EarlySignal \/ CreateFails \/ SpuriousWakeup \/ Signal
       \/ \E t \in Thread : ThreadStep(t) \/ LateBind(t) \/ ThreadFatal(t)

ThreadsSpec == ThreadsInit /\ [][ThreadsNext]_threadsVars

\* The scheduler runs every runnable thread, and a mutex is granted to each
\* waiting thread in the end.
FairThreadsSpec ==
    /\ ThreadsSpec
    /\ SF_threadsVars(~ended /\ MainStep)
    /\ \A t \in Thread : SF_threadsVars(~ended /\ ThreadStep(t))

-----------------------------------------------------------------------------
(* Properties.                                                             *)

\* The main thread never touches a stats pointer that is not set: past
\* dnspacket_wait_stats, the thread of each listener has stored its own, under the
\* number conf.c gave it.
StatsReady ==
    main \in {"unlock", "statio", "run", "cancel", "join"} => dnspacket_stats = 1..N

\* No wakeup is lost and no thread blocks another for good: the daemon comes up
\* and answers the command that started it, or the process has ended.  And if it
\* was started as root, and the build has Linux capabilities, it is still allowed
\* to bind what is not bound yet.
StartupCompletes ==
    <>(ended \/ (/\ main = "run"
                 /\ setup.root /\ setup.caps =>
                      \A t \in need_late_bind : Privileged(t) => netbind))

\* A terminating signal ends the daemon, whatever the threads are doing: serving,
\* retrying a bind, or gone since their bind failed.
ShutdownCompletes == sigterm ~> ended

\* dmn.h on log_fatal(): "The _fatal variant exits after emitting the logged
\* statement".
FatalExits == \A t \in Thread : (exiter = t) ~> ended
=============================================================================

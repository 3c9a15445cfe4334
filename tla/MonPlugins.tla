----------------------------- MODULE MonPlugins -----------------------------
(***************************************************************************)
(* Both monitoring plugins on the default event loop of the main thread.   *)
(* They share the loop, and with it monio_start: its initial ev_run ends   *)
(* when neither plugin has an active watcher, and it arms the monitors of  *)
(* both (gdnsd_plugins_action_init_monitors and _start_monitors).          *)
(***************************************************************************)
EXTENDS HttpStatus

CONSTANT TcpMon     \* services monitored by tcp_connect, Mon by http_status

ASSUME PluginsAssumption == Mon \cap TcpMon = {}

VARIABLES tmd, trep

T == INSTANCE TcpConnect WITH Mon <- TcpMon, md <- tmd, rep <- trep

tcpVars == <<tmd, trep>>
httpVars == <<md, poll, rep>>
allVars == <<stage, httpVars, tcpVars>>

PluginsInit == Init /\ T!Init

BeginInitialRound == init_monitors /\ T!init_monitors

monio_start == start_monitors /\ T!start_monitors

HttpCallback(m) == Callback(m) /\ UNCHANGED tcpVars
TcpCallback(m) == T!Callback(m) /\ UNCHANGED httpVars

PluginsNext ==
    \/ BeginInitialRound
    \/ monio_start
    \/ \E m \in Mon : HttpCallback(m)
    \/ \E m \in TcpMon : TcpCallback(m)

PluginsSpec == PluginsInit /\ [][PluginsNext]_allVars

\* libev fires every expired timer, and monio_start goes on when ev_run returns.
\* Nothing is assumed of the sockets: a peer may stay silent for good.
PluginsFairSpec ==
    /\ PluginsSpec
    /\ WF_allVars(BeginInitialRound) /\ WF_allVars(monio_start)
    /\ \A m \in Mon : /\ WF_allVars(monio_timeout_cb(m) /\ UNCHANGED tcpVars)
                      /\ WF_allVars(monio_interval_cb(m) /\ UNCHANGED tcpVars)
    /\ \A m \in TcpMon : /\ WF_allVars(T!monio_timeout_cb(m) /\ UNCHANGED httpVars)
                         /\ WF_allVars(T!monio_interval_cb(m) /\ UNCHANGED httpVars)

-----------------------------------------------------------------------------
(* Properties.                                                             *)

\* No dmn_assert of either plugin's callbacks can fail, in whatever order the
\* loop runs timers and I/O of a poll: a callback only finds the descriptor,
\* watchers and state it was armed for.
PluginAssertions == Assertions /\ T!Assertions

Polling(m) == IF m \in Mon THEN md[m].hstate # "WAITING" ELSE tmd[m].tcp_state # "WAITING"

MP == INSTANCE MonitorPoll WITH
        Mon <- Mon \cup TcpMon,
        Lossy <- TcpMon,
        polling <- [m \in Mon \cup TcpMon |-> Polling(m)],
        turn <- [m \in Mon \cup TcpMon |-> IF m \in Mon THEN rep[m].turn ELSE trep[m].turn],
        last <- [m \in Mon \cup TcpMon |-> IF m \in Mon THEN rep[m].last ELSE trep[m].last]

\* Polls of one service never overlap, each calls the updater exactly once, and
\* monio_start returns only after every service has been polled; only
\* tcp_connect may leave out a poll, when socket() or fcntl() fails.
ImplementsMonitorPoll == MP!PSpec

\* A poll that hangs (no answer, a half-sent status line, a peer that closed)
\* ends at its timeout.
PollsEnd == \A m \in Mon \cup TcpMon : Polling(m) ~> ~Polling(m)

\* The initial round of monitoring, and with it the startup of the daemon, ends
\* whatever the monitored services do.
InitialRoundEnds == <>(stage = "run")
=============================================================================

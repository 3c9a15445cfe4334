# gdnsd in TLA+

gdnsd is an authoritative DNS server whose answers may depend on the monitored
health of the services they name. This directory holds TLA+ models of its
parts, the TLC configurations that check them, and TLAPS proofs of the results
that matter for every size of the constants. Paths below are relative to the
repository's `gdnsd/` and `plugins/` directories. `PROJECT.json` lists, for
every definition that models code, the file and lines it stands for, the runs,
one mutant per property, the hazards and the theorems.

To repeat the checks, in this directory:

    tlc -workers 2 -config MCThreads.cfg MCThreads  # one run
    tlapm MonioProofs.tla                           # one set of proofs

## 1. The system

One process. The main thread reads the configuration and the zone files, loads
plugins, runs an initial round of monitoring, starts one I/O thread per
listening socket and then runs a libev loop with the monitoring watchers and
the HTTP statistics listeners. I/O threads only read what the main thread
prepared (label tree, plugin configuration) and the *state words*, which the
main thread stores and everyone reads without a lock.

| Part | State it keeps | Operations | Talks to |
|---|---|---|---|
| Monitoring core, `monio.c`, `libgdnsd/monio.c` | service managers (`n_success`, `n_failure`, thresholds, pointers to state words), state words | `monio_add_addr`, `monio_start`, `gdnsd_monio_state_updater` | called by plugins from their callbacks; words read by resolvers in other threads |
| Monitoring plugins, `http_status.c`, `tcp_connect.c` | per service: socket, `hstate`, `done`, `already_connected`, buffers, four watchers | the interval, connect, write, read and timeout callbacks; `add_monitor`, `init_monitors`, `start_monitors` | event loop; state updater |
| TCP listener, `dnsio_tcp.c` | per thread: number of connections, accept watcher; per connection: `state`, `size`, `size_done`, timer | accept, read, write, timeout, cleanup, late bind | `process_dns_query` |
| UDP listener, `dnsio_udp.c` | the message arrays of a batch | single-packet loop, `recvmmsg`/`sendmmsg` loop | `process_dns_query` |
| HTTP statistics, `statio.c` | number of connections, accept watchers, per connection the two-part response | accept, read, write, linger, timeout | statistics of the threads |
| Startup and threads, `main.c`, `conf.c`, `dnspacket.c` | `gconfig.dns_addrs`, thread numbers, `threadids`, the capability to bind, `stats_init_{mutex,cond,ct}`, pointers to the threads' statistics | `conf_load` (listen options), `dns_lsock_init`, `start_threads`, `dnspacket_context_new`, `dnspacket_wait_stats`, `threads_cleanup`, signals | exit handlers |
| Daemon management, `libdmn/dmn_daemon.c`, `main.c` | pidfile, its `fcntl` lock, status pipe | start, startfg, stop, restart, condrestart, try-restart, status, lpe_on, lpe_off | other invocations of the program |
| Zone data, `ltree.c`, actions of `zscan.rl` | the label tree, its flags, rrsets, out-of-zone glue | `ltree_add_rec_*`, both phases of `ltree_postproc` | query processing |
| Query processing, `dnspacket.c` | a context per thread: packet, additional store, compression targets, counts | decode, search, follow CNAMEs, encode, truncate, trim | label tree, resolver plugins |
| Resolver plugins, `simplefo.c`, `multifo.c`, `weighted.c`, `metafo.c`, `meta_core.c`, `static.c`, `null.c`, `reflect.c` | configuration only | `resolve_dynaddr`, `resolve_dyncname` | state words; each other (meta plugins) |
| geoip, libgdmaps and libev's `ev_stat` and timers | per map: lists of datacenters, a tree over address bits, the tree lock; per file: a watcher; one settling timer | `gdmap_new`, `gdmap_load_geoip`, `gdmap_reload_geoip`, `gdmap_lookup`, the callbacks of the reload thread | database files; geoip hands the lists to `meta_core.c` |
| vscf, the rest of `conf.c`, plugin loading, logging, dname, ltarena | sequential startup code, pure helpers, output | | |

What is hard in it, and what makes each part correct:

- *Monitoring.* Thresholds are compared with `==`, two counters and the words
  of several resources have to stay consistent, and readers run in between two
  stores. Correct: the words of one service agree, the state follows the
  documented anti-flap rules, and it ends where the service's health is.
- *Plugins.* Timers and I/O watchers of one poll become ready in any order and
  every callback asserts what the others left behind. Correct: polls never
  overlap, each one is reported at most once, successes are earned by the
  current poll, and the blocking initial round ends.
- *Listeners.* Many queries per connection, partial reads and writes, limits at
  which accepting stops. Correct: slots are neither leaked nor lost, the framing
  of a query never depends on the last one, responses are complete, idle clients
  leave; in a UDP batch every response is sent once or counted once as failed.
- *Threads and daemons.* Condition variables, cancellation, signals before
  handlers are installed, processes that race for a pidfile. Correct: startup and
  shutdown complete, statistics are not read before they exist, one daemon at a
  time, exit statuses tell the truth.
- *Answers.* What the encoder takes for granted was established record by
  record while loading. Correct: no assertion fails, what is on the wire decodes
  to what was meant, fits, keeps its glue and has the right response code.
- *Resolvers.* A handful of words read one after the other while they change;
  the result buffer is reused between datacenters. Correct: an answer comes from
  one datacenter, fails over only for a reason, and its TTL is halved for the
  datacenter that answers and no other.

- *Maps.* A thread replaces a tree that others walk through, lists live longer
  than the lock that protected the way to them, and the tree is built by merging,
  skipping, grafting and splitting nodes. Correct: no reader touches what is
  freed, nothing leaks, every address finds the list that its configuration and
  database give it, the scope that is reported may be cached, and a new database
  is served in the end.

The hazards are listed one by one, at their lines, in `PROJECT.json`.

## 2. Modules

| Module | Models | Notes |
|---|---|---|
| `Monio` | `monio.c`, `libgdnsd/monio.c` | `AddAddr`, `AddFixed` and `AddInvalid` are the outcomes of a registration; `state_updater` takes a poll result; each `StoreState` writes one word, so that readers come in between |
| `AntiFlap` | what gdnsd.config.pod promises of up_thresh, ok_thresh and down_thresh | abstract: one state and two counters per service |
| `MonioRefinement` | the mapping from `Monio` to `AntiFlap` | for services with down_thresh of at least 2, see section 6 |
| `HttpStatus`, `TcpConnect` | the two plugins, one action per callback and outcome of its system calls | `MonPlugins` puts both on one event loop under one `monio_start` |
| `MonitorPoll` | what the core may expect of a plugin | abstract; `MonPlugins` implements it |
| `Monitoring` | the core driven by anything that keeps the promise of `MonitorPoll` | services whose health changes; end-to-end properties |
| `DnsioTcp`, `DnsioUdp`, `Statio` | the three listeners | `process_dns_query` gives a response of any permitted size, or none |
| `Dnsio` | an I/O thread: it runs the TCP or the UDP listener | composes `DnsioTcp` and `DnsioUdp` |
| `Conf` | the listen options and thread numbers of `conf.c` | operators; three forms of `listen`, defaults, what is refused |
| `Threads` | the process from its configuration to its end, on top of `Conf` | binding, late binding and dropped privileges in builds with and without capabilities (`caps`), mutex, condition variable with spurious wakeups, `exit()` handlers, cancellation |
| `DmnDaemon` | libdmn and the command line actions of `main.c` | each invocation is a process, a step per system call that others can see |
| `Ltree` | `ltree.c` and what `zscan.rl` accepts | names are sequences of labels, the tree a function over names; records that are refused (one too many, a value out of range, a plugin that is not loaded or cannot do it) end the load |
| `DnsPacket` | `dnspacket.c`, on top of `Ltree` | packets are sequences of cells: a label, a pointer, an end of a name, a fixed part, a piece of data; so names and compression are real, widths are not |
| `Resolvers` | the resolver plugins and `meta_core.c` | one step per read of a state word; what each plugin's configuration refuses is modelled as well |
| `NTree` | lists, maps, nets, database translation and lookups of `gdmaps.c` | operators; addresses are sequences of bits, a database is a graph of numbered nodes; `Ref...` operators say what a lookup should find, without a tree |
| `GdMaps` | one map in a running daemon, on top of `NTree` | files that change, `ev_stat` and the settling timer, reload, swap under the lock, readers; lists and trees have addresses that are freed and used again |
| `MC*` | constants for TLC | |
| `*Proofs` | theorems | section 5 |

`Monitoring` composes `Monio` and `MonitorPoll`; `MonPlugins` composes
`HttpStatus` and `TcpConnect`; `Dnsio` composes the DNS listeners; `DnsPacket` composes loading and serving;
`Threads` starts the listeners that `Conf` makes of the configuration; `GdMaps`
serves the trees that `NTree` builds, while it builds new ones.
Between them the chain from a socket to a state word is covered: the plugins
implement `MonitorPoll` (run `plugins`), and whatever implements it drives the
core to the right state (run `monitoring`); the state words are what
`Resolvers` reads, in any combination.

Environment that the source does not fix is a constant or a choice: the sizes
of segments and partial writes, errors of system calls, the order of ready
watchers, crashes, random numbers, and what other processes do. Four constants
restrict it in a listed run, and each restriction is a statement about the
code, see section 6: `PartialSends` (`HttpStatus`), `OneByteSegments`
(`DnsioTcp`), `StartupGap` and `SameSecond` (`GdMaps`).

Simplifications worth knowing:

- `DnsPacket` counts cells, not bytes. MX stands for MX and PTR, whose targets are
  compressed, SRV for SRV and NAPTR, whose targets are not, TXT for TXT, SPF and the
  RFC 3597 types; strict_data is off; only the number of addresses is kept, and of the
  client-subnet options of a query their number. Sizes that the code keeps in an
  unsigned wrap at `UINT`, pointers at `MaxPtr`.
- `Resolvers` knows an address of a set by its value, so the instances have no set
  that names an address twice (the code accepts one, and then answers with both
  copies). It has no meta plugin as a child of a meta plugin, and its words are
  never UNINIT (what `Monitoring` shows, with one exception, in section 6).
- `DmnDaemon` gives an invocation one pid: the fork of `dmn_daemonize` happens
  before the pidfile is locked and is not a step. `startfg` takes no lock in the
  code, touches nothing the others see, and is left out.
- `GdMaps` reads a database in one step, although the code maps the file and an
  owner who overwrites it in place could change it meanwhile. Databases come with
  locations instead of bytes, and with distances instead of coordinates.
- `Conf` keeps of the options those that decide which threads there are and which
  of them may bind late; the others are one flag that says they are acceptable.
- Counters that only grow are counted modulo or up to a named bound (`UINT`,
  `MaxDone`, `MaxStores`).

## 3. Runs

Each passing run finishes in less than five minutes with two workers; every
action and every disjunct of the next-state relations fires in at least one.

| Run | Checks | What it shows, and the bounds |
|---|---|---|
| `plugins` (`MCMonPlugins.cfg`) | `PluginAssertions` `FreshSuccess` `ImplementsMonitorPoll` `PollsEnd` `InitialRoundEnds` | One http_status and two tcp_connect services on one loop, every order of callbacks and timers, requests of 2 and responses of 3 pieces. |
| `monitoring` (`MCMonitoring.cfg`) | `WordsAgree` `OldOrNew` `ImplementsAntiFlap` `NoUninitAtRuntime` `Converges` | From registration on. Six words: two share a service, one belongs to a service whose plugin may skip polls, others have fixed states or are forced up; thresholds above 1, so that results have to accumulate, and services whose health changes at any time. |
| `dnsio` (`MCDnsio.cfg`) | `AcceptAccounting` `IdleBounded` `OnlyWholeQueries` `BatchAccounted` `SlotsTurnOver` | A TCP thread with three clients at a limit of two: one must wait for a slot. Messages of up to 4 bytes with their length in any segments that do not split the length, partial writes, errors, late bind. Or a UDP thread with batches of four: enough for a dropped response or a failed send at the start, in the middle, at the end and twice in a row. |
| `tcp_one_byte` (`MCDnsioTcpByte.cfg`) | `OnlyWholeQueries`, violated | As above, but the two bytes of the length may arrive apart. |
| `statio` (`MCStatio.cfg`) | `AcceptAccounting` `SentInOrder` `SlotsTurnOver` | Three clients, two listeners, a shared limit of two; a write may stop anywhere. |
| `statio_partial` (`MCStatioPartial.cfg`) | `ResponseIntact`, violated | The same listeners with two clients: what is sent up to the end of the response is the response. |
| `threads` (`MCThreads.cfg`) | `StatsReady` `StartupCompletes` `ShutdownCompletes` | The three forms of `listen` and refused ones; up to four threads (two addresses with UDP and TCP), or three with a gap where TCP is disabled; addresses that are not there yet, on ports above and below 1024, as root and not, with and without capabilities; failures, spurious wakeups and signals at any step. |
| `daemon` (`MCDmnDaemon.cfg`) | `OneDaemon` `StatusTruthful` `StopMeansStopped` `CommandsEnd` | Two invocations of any action, one without the right to signal; two pids, so that pids are reused; three attempts instead of ten. |
| `dns` (`MCDnsPacket.cfg`) | `Assertions` `WireMatches` `ResponseFits` `GlueOrTC` `ChainsBounded` `RcodeMatches` | Every zone file of a core and any subset of the records that make trouble (CNAMEs into a subzone and to a DYNC, chains that are too long, records that are refused), then any sequence of queries, with none to so many client-subnet options that the limit wraps. max_cname_depth, max_addtl_rrsets and the target table are small enough to overflow, both response limits are met, and responses of up to 44 cells reach beyond the last offset of a pointer, 18. |
| `dns_truncation` (`MCDnsPacketTc.cfg`) | `CompleteTruncation`, violated | The same instance. |
| `resolvers` (`MCResolvers.cfg`) | `Assertions` `OneDatacenter` `FailoverJustified` `TtlHalvedOnce` | Six resources over five words in every initial combination: every resolver plugin, DYNC by name and by plugin, clients with and without a subnet, up to `MaxStores` = 2 stores of the main thread between the reads of one query, every residue of the random numbers; seven more resources that the configuration or the zone file's use of them must refuse. |
| `gdmaps` (`MCGdMaps.cfg`) | `ReadersSafe` `ListsOwned` `LookupMatches` `ScopeUniform` `Freshness` | IPv4 addresses of 2 bits inside IPv6 addresses of 6, so that each of the spaces that hold IPv4 addresses has its prefix and there is room besides. Four locations, three datacenters; configurations with a map, with skipped levels, with "auto" and an overlay, and two that are refused; databases of every type that end above, at and below the mapped space, with neighbours to merge, and corrupt ones. Two file changes at any time (a second one falls into the settling time, into the building and into the wait for the lock), two readers, a settling time of 2 ticks. |

Every property has a mutant in `PROJECT.json`: an operator `Mut...` next to the
definition it would replace, which breaks the property as a plausible mistake
in that code would.

`CHECK_DEADLOCK FALSE` is only given where the system may stop: `monitoring` and
`gdmaps` after a refused configuration, `dnsio` after
a bind that failed for good, `threads` at the end of the process, `daemon` when
every invocation is through, `dns` when loading has refused the zones.

## 4. Fairness

- `DnsioTcp`, `Statio`: time passes and the loop runs expired timers, weak
  fairness of `Tick` and of the timeout handlers. Nothing of the clients.
- `MonPlugins`: the same for the interval and timeout callbacks and for
  `monio_start` going on when `ev_run` returns. Nothing of the sockets: peers may
  stay silent for good, and `PollsEnd` still holds.
- `Monitoring`: weak fairness of configuration steps and stores, strong fairness
  of beginning and ending polls. A poll is only ever delayed by the store loop of
  another service, which the single main thread finishes before its next
  callback; that polls end is what `PollsEnd` shows of the plugins.
- `Threads`: strong fairness of the main thread's and the threads' steps: a mutex
  is granted in the end to whoever waits for it.
- `GdMaps`: weak fairness of startup, of the reload thread (its loop sees a
  changed file by inotify or at its next poll, runs expired timers, and is granted
  the write lock when no reader is left, because the lock prefers writers) and of
  a thread inside `gdmap_lookup`. Nothing of files, clients and new lookups.
- `DmnDaemon`: weak fairness of each invocation's own steps; a crash or a signal
  may come at any time, none has to.
- The other specifications are used for safety only and state none.

## 5. Proofs

Eight modules hold theorems, checked by TLAPS with its SMT, Zenon and PTL
backends. Apart from the hypotheses named here the theorems assume
what the modules assume of their constants (`MonioAssumption`,
`TcpAssumption`, ...), which every run evaluates.

`MonioProofs`, for any number of words, addresses, service types and any
thresholds that `monio_add_servicetypes` accepts:

- `TypeCorrect`, `WordsAgreeAlways`, `OldOrNewAlways`, `OnlyMonitoredChange`.
  `WordsAgree` alone is not inductive. The inductive invariant `IInv` adds that no
  word is registered twice (`Distinct`, or a store could reach a word of another
  service), that before run time words have the value registration gave them
  (`ConfigWords`, or a new word could disagree with its siblings) and that the
  store loop belongs to a monitored service (`LoopInv`).
- `AntiFlapImplemented`: every service with a down_thresh of at least 2 follows
  `AntiFlap`, step by step. It needs `Counters` besides: in each state, the
  counters stay below the thresholds that state compares them to with `==`, so
  the equality tests decide like inequalities and nothing wraps.
- `SystemImplementsMonio`, `NoUninitAlways`: the composed system of `Monitoring` only
  takes steps of `Monio`, so the results above hold of it, and it leaves no word
  UNINIT. `SysInv` adds to `IInv` the order of registrations (`Ordered`: the code
  registers the first address that is left, and the proof has to know which one
  that is), where the words of an address went (`Placed`), what the stages of
  `monio_start` have polled (`Staged`), and that a reported result is in every word
  of its service or in the loop that stores it (`Reported`).

`MonPluginsProofs`, for any number of services of both kinds:
`PluginAssertionsAlways`, `FreshSuccessAlways` and `MonitorPollImplemented`. The
invariant says for each state of a monitor which of its socket, watchers and
timers exist (`HttpMd`, `TcpMd`); that the bytes sent and read belong to this poll
(`HttpPoll`), which is what the reset of `done` between writing and reading is
for; and what the startup stage, the interval timer and the last result have to
do with each other (`Round`), without which a second result of the initial round
could not be excluded. Hypothesis: `PartialSends = FALSE`; with partial sends
the first two are false (section 6).

`DnsioProofs`, about TCP for any finite set of clients, any limit and any sizes:

- `TypeCorrect`, `AccountingAlways`. The invariant adds `Quiet`: a listener that is
  not up neither accepts nor has connections. The proof follows the calls of the
  handlers, one lemma per function.
- `IdleBoundedAlways`: with `Clocks`, which ties the age of the timer to the time
  since the last response.
- `WholeQueriesAlways`: with `Frames`, which says for each state of a connection
  what of the current query has been read. Hypothesis: `OneByteSegments = FALSE`;
  run `tcp_one_byte` refutes it otherwise.

`DnsioProofs`, about UDP for every width of a batch: `UdpTypeCorrect`,
`BatchAccountedAlways`. The invariant is about the window of entries still to be
handled: it is inside the array, no slot is in it twice, slots in it have had
nothing done for them and slots outside are settled.

`StatioProofs`, for any listeners, clients, limit and sizes: `TypeCorrect`,
`AccountingAlways`, and `SentInOrderAlways` with what the two buffers hold while
a response is being written. It has no hypothesis, a write may stop anywhere, and it
says what is left to say then: the header goes out whole and in order, and so does
the body as long as no write has stopped in it. That the whole response arrives is
false (`statio_partial`). The last part of the module is about
`Threads`, whose statistics the listener reports, for any configurations and any
number of listeners: `StatsReadyAlways`. The thread that is started t-th has the
number t (`Numbers`, which counts the addresses with TCP up to each one), so the
stored pointers are those of the threads past `dnspacket_init_stats` and the
counter is how many there are (`Threading`); `Main` adds what the main thread's
control point says of both, and that no thread leaves before it has stored.

`DmnDaemonProofs`, for any number of invocations, pids and attempts:

- `OneDaemonAlways`. The invariant is `Core`: every live invocation owns its pid,
  and whoever is past `F_SETLK` is the holder of the lock. It is what makes the
  `close()` in `check_pidfile`, which would drop the caller's own lock, harmless.
- `TypeCorrect`, `StatusTruthfulAlways`, `StopMeansStoppedAlways`: with what the
  control point of an invocation says of its command and status (`Purpose`,
  `Told`) and of the process its check found (`Owned`, `Known`).

`GdMapsProofs`, for any configurations, databases, threads and number of changes
of the files: `ReadersSafeAlways` and `ListsOwnedAlways`. Neither is inductive. A list
that a thread uses after the unlock must not be changed or freed (`ListsStay`);
that a failed build frees exactly what it added needs the addresses behind an
array to be those of its indexes (`Ident`); the array of every tree is a prefix of
the newest one (`TreeOk`); a thread under the lock has the current tree
(`ReaderOk`). Hypothesis: `TreesSound`, every single build only adds to the lists
it was given and its tree leads every client to one of them. A build is a fold
over a database, which the prover cannot follow; TLC evaluates that hypothesis
for all builds of `MCGdMaps` (`BuildsSound`).

`ResolversProofs`, for any resources that the plugins' configuration accepts, any
addresses, services, weights, random numbers and stores between the reads:

- `TtlHalvedOnceAlways`. The invariant `IInv` follows a query from read to read
  (`Reading`, `Ended`): whatever was seen not UP some word of this datacenter has
  been, and while none of its words has ever been UP, an address that decides on
  the TTL has been seen not UP or is the next one to be read.
- `OneDatacenterAlways`, `FailoverJustifiedAlways`, `AssertionsAlways`. They need a second
  invariant, `JInv`: whose turn it is (`Turn`: the datacenters before it have
  failed, and a word of each has been DOWN), what has been noticed (`Sees`: what is
  seen DOWN has been DOWN, and what was DOWN all the time has been seen so or is
  still to be read), what each family was given (`Gives`) and how a query ended
  (`Settled`). What a plugin makes of the states it has seen, a matter of sums,
  thresholds and random numbers and not of time, is `Answer`.
- Sums and lists come from recursive functions. That each exists, and what it gives,
  is shown by induction over sets of numbers (`Induction`), which needs no operator
  as a parameter.
- Hypotheses: `Formed(N)`, the fields of a resource have the types that vscf and the
  plugins give them and only simplefo, multifo and weighted have words; for
  `OneDatacenter` and `FailoverJustified` `Distincts`, no set names an address twice; for
  `Assertions` `NamedDyncs`, no datacenter list of a DYNC is empty (section 6 says what
  happens to one). TLC evaluates all three for the resources of `MCResolvers`
  (`MCWellFormed`).

`DnsPacketProofs`, for any zones and records, plugin answers, queries and limits:

- `RcodeMatchesAlways`, `ChainsBoundedAlways`, from one invariant in two halves
  (`ServeAlways`). `LoadInv` relates the nodes and flags of the tree to the zones and
  the records loaded so far (`TreeOK`) and keeps what phase 1 has found out about
  CNAMEs (`Accepted`). `ServeInv` is about one request: how often it was counted
  (`CountOK`), the chain of CNAMEs so far (`ChainOK`) and the node that answers
  (`RcodeOK`).
- The specification of a response code speaks of zones and records only; `ExpectedIs`
  shows that in a tree that is `TreeOK` a search finds the same.
- A chain that is static so far is one that phase 1 has followed as well (`Chained`,
  `Short`), although phase 1 counts within one zone and a query may enter subzones:
  the zone of the name only becomes longer.
- The encoders write to the packet and leave alone what the invariant speaks of; one
  `Keeps` lemma per encoder says so.
- `ResponseFitsAlways`, from two more conjuncts. `LinkInv`: the address rrsets that
  phase 1 links to NS, MX and SRV records are there and have counts. `WireInv`: while a
  response is encoded, packet, additional store and the table of its rrsets are
  sequences, every rrset has an offset and the first one starts the store (`Wire`,
  with one lemma per encoder); once it is trimmed or truncated, its length is at most
  what `this_max_response` leaves, and with the OPT RR what the client can take
  (`Within`, `RoomIs`). That the first offset is 0 is why `Trim` always finds something to
  keep. The theorem is for any number of client-subnet options: where the room
  reserved for them is more than the limit, the unsigned `this_max_response` wraps and
  `ResponseFits` promises nothing (section 6).
- Assumptions: `RecordsAssumption` and `NamesAssumption`, that is, what the scanner lets
  through; `SizesAssumption`, types of the limits; and `RoomAssumption`, any question
  fits with the fixed answer of class CH, the OPT RR and the one option of a response
  in the smaller of 512 and max_response (12 + 259, 18, 11 and 24 bytes). Every run of `MCDnsPacket` evaluates them.

The proof of `ChainsBounded` corrected the property: it used to say that a chain that
is cut has passed a DYNC, which is false of a chain of exactly `max_cname_depth`
static CNAMEs that leads to one. Loading accepts it, because `ltree.c:820` only
counts static links, and `dnspacket.c:1642` cuts it before the plugin is asked. It
now says that the chain up to and including the link that is refused has a DYNC.
The run has such a record since.

Only model-checked:

- all liveness properties and what depends on fairness or ENABLED, which is
  beyond the prover;
- `Assertions`, `WireMatches` and `GlueOrTC` of `DnsPacket`: they need
  the contents of the packet, cell by cell, to be part of the invariant (where
  pointers lead, what the offsets of the additional store divide), not only the
  fields that the encoders leave alone;
- `LookupMatches` and `ScopeUniform` of `NTree`, and the refusals of `Conf`: they are
  about what folds over databases and configurations compute.

## 6. Where code and documents disagree

Three disagreements are runs that TLC refutes:

- `tcp_one_byte`: if one byte of the length of a TCP query arrives alone, `size` is
  still 0, the query counts as complete, and `size - 2` wraps
  (`dnsio_tcp.c:182-202`).
- `statio_partial`: after a partial `writev` that ends at the end of the header or in
  the body, the body's position is computed from the header's buffer, so the client
  gets other bytes than the rest, or not all of them (`statio.c:400-405`, `373`).
- `dns_truncation`: truncation resets three counts but not `cname_ancount`, so the
  header of a truncated response behind a CNAME announces records that are not
  there (`dnspacket.c:1711`, against the comment at line 1856).

More have a configuration here that shows them, but are not among the
listed runs, whose constants or properties leave them out:

- `MCGdMapsNets.cfg`: networks of "nets" with the same network number compare
  equal, whatever their masks, so `qsort` may put the smaller one first and the
  larger one wipes it out (`gdmaps.c:563`). gdnsd-plugin-geoip.pod, line 158: "sorted
  in an order that prevents larger subnets from obliterating the effects of
  smaller ones".
- `MCGdMapsGap.cfg`, `MCGdMapsSecond.cfg`: a database that changes between the first
  load and the start of its watcher, or once more within the second of its last
  change, is not read again (gdnsd-plugin-geoip.pod, line 126: "re-loaded again if
  it changes during the daemon's lifetime").

- `MCThreadsFatal.cfg`: `exit()` in an I/O thread runs the cleanup handler, which
  cancels and joins threads, itself included (`main.c:61`).
- `MCMonioDown1.cfg`: with down_thresh 1 the first failure of an UP service gives
  DANGER with a count of 1; the next one makes it 2, which no longer equals the
  threshold, so the service stays in DANGER (`libgdnsd/monio.c:57`).
- `MCDnsPacketChain.cfg`: a CNAME chain that is too long is wiped from the packet,
  while `auth_comp` and the compression targets still point into it
  (`dnspacket.c:1646`). The run `dns` has such chains; `WireMatches` exempts only the
  responses with a pointer into what was wiped (`Ghosts`), `Decoded` exempts none.
- `MCDnsPacketFar.cfg`: the owner of an additional address that is beyond the reach of
  pointers is read back with `gdnsd_dname_from_raw`, which refuses a name that is partly
  compressed: `dmn_assert(dnstat == DNAME_VALID)` fails, or without assertions the copy
  is undefined (`dnspacket.c:553-561`). `max_response` may be 64000 (`conf.c:622`;
  gdnsd.config.pod, line 359, says 62464), and a pointer reaches 16383. The run `dns` has
  such responses too, and `WireMatches` exempts those with a garbled name (`Garbled`).
- `MCDnsPacketOptions.cfg`: every client-subnet option of a query takes its room off
  `this_max_response` again, although a response has one; the subtraction is unsigned
  (`dnspacket.c:214`), so enough options wrap it and nothing is truncated any more.

Others were met while modelling and have no run:

- In the hash form of `listen` an address without its own late_bind_secs gets 0
  and not the global value (`conf.c:497-516`), and its udp_recv_width may be at most
  32, not 64; gdnsd.config.pod, line 161, calls these options "identical to" the
  global ones. `Conf` models the former.
- `ev_timer_again` leaves a pending event alone, so a file that changes in the very
  iteration in which the settling timer expires is read at once.
- The scope of an IPv6 lookup may cover addresses that hold IPv4 addresses and are
  looked up as such; `ScopeUniform` compares addresses of one kind only. An IPv6
  database that ends above the mapped space gives IPv4 clients the default list.
- With "auto" and a `default` shorter than the list of datacenters, the sorting by
  distance copies more entries than the default list has (`gdmaps.c:426`).

- weighted resets the weights only if all addresses are down, and then reports
  success, because the reset sum passes the threshold (`weighted.c:789-844`). Its
  document resets them, and signals failure, whenever the sum is below up_thresh
  (`gdnsd-plugin-weighted.pod`, around line 175).
- An empty datacenter list of geoip, which its document offers, reaches index 0
  of `dcs[]` for a DYNC (`meta_core.c:498`). Lists hold bytes, so datacenters
  beyond the 255th of metafo are never tried.
- A meta plugin replaces the scope its child has set by its own
  (`meta_core.c:473`). With reflect as a datacenter of metafo an answer that depends
  on the client is sent with scope 0, where gdnsd-plugapi.h:62 says that a plugin that
  uses the source address "must set" it. reflect "both" repeats the address of a
  client that is its own subnet.
- `num_svcs` of simplefo is not assigned without service_types
  (`simplefo.c:95`). UNINIT is below DOWN in the order of states, so a service
  set of UNINIT and DOWN does not count as down; simplefo asserts against UNINIT,
  which a tcp_connect service can have if its first poll was skipped for want of a
  descriptor (`tcp_connect.c:92`).
- http_status passes the full length again after a partial send
  (`http_status.c:191`; `PartialSends = TRUE` shows the failing assertion).
- `dmn_stop` takes EPERM for "stopped" (`dmn_daemon.c:279`, `dmn.h:79`); the pid in
  an unlocked pidfile is trusted (`dmn_daemon.c:79`); SIGUSR1 before
  `setup_signals` ends the starting daemon (`main.c:514`, `gdnsd.pod:114`); the
  comment on the time `dmn_stop` waits says 5.5 s, the loop takes 6.5 s.
- Documented limits of 255 for thresholds, interval and timeout are 65535, 3600
  and 300 in the code.
- statio spins on end of file while reading a request, until the timeout.
- `decode_query` goes on with a packet shorter than a header; a TCP overflow is
  counted in a field that aliases another TCP counter; out-of-zone glue of a zone root is not
  covered by `p2_check_glue`.

## 7. Not modelled

The zone file and configuration grammars (generated scanners over bytes; what
the scanners' actions accept is in `Ltree` and `Resolvers`), the ranges of single
options, the HTTP listen addresses, the byte format of GeoIP databases and the
translation of region names, `dlopen` of plugins, logging, chroot and resource limits, the
arena, byte-level name helpers, text of statistics pages, socket options, the
distribution of random numbers, and of libev all but file watchers and timers:
its loop is the nondeterministic order of callbacks. `PROJECT.json` gives the
reason for each.

Besides the listed runs, `MCMonio.cfg` checks the monitoring core alone, with
every order of registrations and any poll results, and with `TypeOK` and
`OnlyMonitoredWordsChange`.

## 8. Plan

Done, in this order: monitoring core with its abstraction and proofs; plugins
and their contract; the end-to-end composition; listeners; threads and daemon;
zone data and queries; resolvers; maps; configuration of the listeners.

Proved: the safety properties of the monitoring core, the plugins, the three
listeners, the threads' startup, the daemon, the resolvers and the reloading of
maps, and of query processing the response codes, the counting of requests,
the bound on CNAME chains and the size of responses.

To come:

1. `Assertions` of `DnsPacket`, with every pointer leading backwards to a name; then
   `GlueOrTC` and `WireMatches`.
2. `Resolvers` with the lists of `GdMaps` and with geoip over metafo; UNINIT words.

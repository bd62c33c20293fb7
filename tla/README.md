# Formal model of the aviation feeder add-on

TLA+ specifications, TLC model-checking runs and TLAPS proofs for
`hass-aviation-feeder`: a Home Assistant add-on that runs an ADS-B receiver
(readsb), some fifteen feeder clients under s6, and a Python publisher
(`aviation_feeder_mqtt`) that reports on all of them over MQTT. Shell and
s6 start the programs; nearly all of the project's own logic, and all of its
concurrency and failure handling, is in the publisher. That is where the models
are.

Below, `app.py`, `mqtt.py` and so on are files of
`src/aviation_feeder/aviation_feeder_mqtt/`. `PROJECT.json` maps each definition
that models code to the lines it stands for, and lists the hazards, the runs
and a mutant for each property.

- [Inventory](#inventory)
- [Modules](#modules)
- [Runs](#runs)
- [Where the code and its comments disagree](#where-the-code-and-its-comments-disagree)
- [Proofs](#proofs)
- [What is not modelled](#what-is-not-modelled)
- [What is left](#what-is-left)

## Inventory

| Component | State it keeps | Operations | Talks to | What makes it correct |
|---|---|---|---|---|
| Publisher session (`_run`, `publish_loop` in `app.py`; `mqtt.py`) | `stop`, `need_discovery`, `MqttHealth` stamps, backoff delay, birth task, exit code | connect, subscribe, announce, publish cycle, farewell, disconnect, backoff, exit 0/11/12 | broker, signal handlers, birth watcher, beast reader | availability matches the session; watchdogs fire when and only when they should; a stop ends the process in bounded time |
| MQTT broker and network (external) | session per client id, last will, retained topics | accept, read, reap on keepalive, restart, link loss | publisher, Home Assistant | assumed as `app.py` relies on them |
| Discovery run (`publish_loop`, `mqtt.py`, `metadata.py`) | retained config topics in the broker, options | publish or retract each category, feeder configs, stale feeder topics | broker, Home Assistant | after a run, exactly the wanted entities, whatever came before |
| Throughput (`throughput.py`, `netdiag.py`) | `_last`, `_totals` | netlink dump per family, /proc attribution, fold, prune | kernel, feeders | monotone totals; no byte twice; none missed |
| Beast reader (`beast.py`) | buffer, counts, `_last_snapshot_at`, the task's await | connect, read a chunk, parse, snapshot, retry, stop, cancel | readsb over TCP, publish cycle | frames recovered exactly for any chunking, each reported once; bounded memory; a stop ends it |
| Sensor states of a cycle (`publish_loop`, `publish_counter`, `portal_states`, `mlat_states`) | first-sample memory of the rates | one publish per group of states, gated by options and by what its source answered | broker, all sources | a state goes only where an entity is advertised, and every advertised entity is fed |
| Feeder status (`feeders.py`, `app_reports.py`) | none beyond the cycle | per-mode status from processes, sockets, `stats.prom`, HTTP reports | s6, feeders | stale evidence never reads as connected |
| MLAT statistics (`mlat_stats.py`, `patch-mlat-client.py`, `mlat_states`) | one JSON file per mlat client | merge-and-rename by two writers, read with mtime staleness | patched mlat-client | values of a dead server decay to zero |
| Rates and daily counters (`RateTracker`, `PlanefinderFeedState`, `unique_daily.py`) | previous sample and time; set of the day | update with a sample or with none | publish cycle | no rate from a reset; one reset a day |
| Sensor values (`nearby.py`, `emergency.py`, `stats.py`, `uat_stats.py`) | none | arithmetic on one JSON snapshot | readsb's files | value correctness; unit-tested |
| Supervisor lookup (`supervisor.py`) | none | one HTTP request | Supervisor | bounded wait |
| Container boot (`00-haos-options`, `00-persist`, `00-tmpfs-readsb`, `link-tmpfs-dir`, gates) | directories, links, environment files | move to `/data`, redirect to tmpfs, wait for readsb | s6 services | nothing lost across restarts; heavy writes stay off the disk |
| Service wiring, build tooling | none | exec wrappers; CI scripts | | |

The publisher is a single asyncio task, plus a birth watcher and the Beast
reader on the same loop, and worker threads that only compute. Races
therefore sit at the awaits. What is hard:

- **every await of the session has its own timeout**, and three things (a stop
  request, the outage watchdog, the stall watchdog) are only looked at between
  awaits. How long an answer takes is a sum over a path;
- **the broker is asynchronous**: a packet it has read may have an
  acknowledgement that never arrives, and its will fires on its own schedule;
- **retained state outlives everything**: options change and runs are cut short
  between the writer's attempts to keep it right;
- **observations are not atomic**: kernel sockets are dumped, then /proc is
  read, while sockets open, close and carry on; the evidence for a feeder's state
  is gathered in five steps while the feeder comes and goes;
- **partial failure**: one address family, one process, one message fails and
  the rest does not.

`PROJECT.json` lists 40 such hazards at their lines, each with the properties
that cover it or the reason none does.

## Modules

### `Session`

The reconnect loop of `_run`, the control of `publish_loop`, the birth watcher,
the signal handlers, and the broker's half of the connection.

`pc` names the await the task is suspended at; the code between two awaits is
one action. So `ConnectOk` is `Client.__aenter__` returning *and* the stamps
and `need_discovery["v"] = True` up to the SUBSCRIBE; `Heartbeat` includes
the stall test and the choice to wait or to return. `pc` in `Instants`
(`loop`, `cycle`, `reap`, `handler`) is straight-line code, and time does not
pass there.

| Code | Model |
|---|---|
| timeout of the current await | `left`, counted down by `Tick`; 0 lets the timeout branch fire |
| `time.time() - stamp` compared with a limit | an age, saturating one past the limit (`discAge`, `pubAge`); `Never` is the stamp 0.0 |
| `health.last_connect_ok != connected_at` | `made` |
| the `return`s and exceptions in flight | `result` |
| will, retained availability topic | `bsess`, `retained`; `wire` holds what the broker has not read |
| the number of configs and states published | `Configs`, at most `StatePublishes` per cycle, one at least with `ha_feeder_health` (the broker-link states) |

The environment may drop the link, lose the connection, restart the broker
(which forgets retained topics), let a keepalive expire on an old session, send
a birth, or ask for a stop, at any point. The history variables `stopAge`,
`idle`, `entered` and `configs` record what the properties talk about
and no guard reads them.

### `Discovery`

The ordered publishes of one discovery run over the topics a category or a
feeder owns (`Plan`), and all that may precede it: other options, a run cut
short after any publish (with the in-flight publish read or not), a restart of
the add-on or the broker, a birth during a run. `Wanted` states the intent from
the option table and not from the publish order. Session and Discovery
share `need_discovery`: Session covers its timing, Discovery its content.

### `Publishing`

The other half of `publish_loop`, composed with `Discovery` (which it extends):
the states a cycle publishes. Configs and states are decided by two stretches
of `publish_loop`, each with its own conditions on options, feeder classes
and sources, and they have to agree. A *group* is the states that share a source
(`MainGroups`, `FeederGroups`); `States(o, a)` is what a cycle under options `o`
publishes when the sources in `a` answer, and `Advertised` is what the retained
configs tell Home Assistant of. `Cycle` is the whole cycle; `DiscoveryStep` is a
step of `Discovery` with the cycle's variables put back.

| Code | Model |
|---|---|
| `THROUGHPUT_KERNEL`, `_BYTE_FEEDERS`, `_MESSAGE_FEEDERS`, `_PORTAL_*`, `MLAT_*`, `REPORT_BINARY_SENSORS` | the constants `Kernel` to `BinaryReport` |
| a JSON file or endpoint that is missing, a process that is not found | a source that is not in `answered` |
| `any((...))` in front of the state publishes | `AnyGroup` |
| previous samples of `RateTracker` and the accumulator | `counted`, which lives as long as the process |

A cycle is one action because the options never change in a process and configs
change only between cycles; a cycle that is cut short publishes a part of what a
whole one does. What a state *says* is not here (see `Feeders`, `Throughput`,
`Beast`, `MlatStats`).

### `ByteMeter`, `Throughput`

`ByteMeter` is the abstract specification: a feeder's traffic grows, and a
report may raise its meter to anything up to what has been carried.
`Throughput` is `ThroughputAccumulator.update` with its three phases, dump,
attribution and the per-socket loop, interleaved with the kernel's
`Open`/`Transfer`/`Close`. Inode numbers are reused, /proc may hide any subset
of the live sockets, and the dump of a family may fail (`PartialDumps`). A kernel whose
`tcp_info` ends before the counters shows 0 for every socket (`HasCounters`).
`Restart` ends the publisher in or between updates: `_last` and `_totals` are
lost, the sockets live on, and their whole counters are folded at first sight.
`Throughput` implements `ByteMeter` with `metered <- totals`; `ByteMeter!Restart`
is the one step that lowers a meter, to 0. `counted` counts for one run of the
publisher. Home Assistant takes such a drop for a meter reset and adds the live
sockets' bytes to its own sum once more; that sum is not kept by this code and is
not in the model.

One byte counter stands for sent and received, which the code handles alike. An
inode is not reused between a dump and the end of its update: the kernel hands
the numbers out from a 32-bit counter, which is also why `InodesAssumption` has
them finite.

### `Beast`

The parser, the reader task and the tally. `Width`, `Take` and `Body` are the
inner loop of `parse_frames`, which undoes the escaping of one frame; `Turn` and
`Parse` are the loop around it. Both are recursive functions of the number of
turns. A byte is the escape, a known type or other. readsb (external) writes
whole frames with every body, truncated ones with every shorter body (cut anywhere
but between a byte and its escape), and unknown ones with every body of `UnknownLen`
bytes; the connection cuts them into chunks anywhere. `UnknownAssumption` says what the scan needs of frames it does
not know: too short to complete a phantom frame from an escaped escape followed by
a type byte. It is tight: one byte longer and TLC finds the phantom.
`BufferAssumption` says that the buffer holds all but the last byte of the longest
frame, every byte of it escaped (43 bytes, where the code allows 2^20).

`phase` is the await that `_run` is in: `open_connection`, the read (raced
against `stop` in `_read_or_stop`), `wait_closed`, the retry delay. `Stop` is
`aclose`, whose `wait_for` cancels the task (`Cancel`) where `stop` alone does not
end the await. `Snapshot` hands the tally over and drops what came before the
first call, which has no interval, or when the clock says that no time has
passed. `earlier`, `skipped` and `reported` account
for every frame over any number of connections. What readsb writes once `stop` is
set is left out, because nobody reads it.

### `Feeders`

What one publish cycle says of the feeders. `phase` names the step the cycle is
at; `Begin`, `GatherReports`, `ScanProcesses`, `ReadProm`, `ReadSockets`,
`Status`, `Rates` and `PublishUptimes` are the reads and the three places where
something is made of them, in the order of `publish_loop`. Between any two of
them the world may move: processes start and end, connections and fr24's feed
come and go, pfclient sends, readsb rewrites `stats.prom`.

| Code | Model |
|---|---|
| `FEEDERS`, by mode | `Community`, `Conn`, `Proc` and `Reporting` |
| `self_reports` | `report`, `sample`; an endpoint answers, does not, or answers without its counter |
| `cmd_by_pid`; `read_established_inodes`; `read_connector_status` | `pids`, `est`, `connectors` |
| a pid whose /proc entry is gone, a socket that closed | dropped from `pids` (of `Conn`), `est` |
| `PlanefinderFeedState._prev`, the baseline of `RateTracker` | `prev`, `rated` |
| the states, the rate and the uptimes published | `shown`, `rate`, `uptime` |

`held` and `steady` bracket what really happened since the cycle began: the
clients that fed at some time, and those that fed throughout. `mark`, `grew` and
`billed` follow pfclient's bytes. `Rate` is the rate times the elapsed time, so
that rates of different cycles add up to bytes. A command line, the fds of a
process or the table of a family's sockets may be unreadable in any cycle; the
clients this concerns are taken out of `steady`. A cycle can be abandoned by an
exception where publishes are made, and the publisher can restart anywhere.

### `MlatStats`

The `--stats-json` file of each MLAT client, in time. Its two writers, the
server's push (`jsonclient.py`, external, patched) and the client's own timer
(`_haf_write_client_stats`, added by `patch-mlat-client.py`), read the file, merge
their fields and rename (`BeginWrite`, `Rename`). A read that fails counts as an
empty file (`data = {}`), so that such a write, made *blind*, drops the other
writer's fields when it is renamed; a write of either may fail, and the client may
die at any point, between the two as well. `Publish` is a cycle of
`read_mlat_stats` and `mlat_states`, in which any of the files may be unreadable:
its sensors then read 0, which `shown` has as "unread", to tell a failed read from a
file that says nothing. A field is represented by its age, so that
"shown" can be compared with "true now": ages and the mtime saturate one past the
limit, as in `Session`. Both writers run in the client's one thread, so no two
writes of one file overlap; and the file is replaced as a whole, so one read is
one step.

### `*Proofs`, `MC*`

Theorems, and the model values and symmetry for TLC. `SeqLemmas` has what several
proofs need and the library does not have: induction as a fact about a set of
numbers, `FlattenSeq`, and sequences that replace each element with a sequence
(what escaping does to bytes, and the stream to frames). `BeastParserProofs` is
about `Parse` alone, `BeastProofs` about the reader that uses it.

## Runs

| Run | Shows |
|---|---|
| `session` | over all interleavings, the session's safety, and that a stop and an outage without end both end the process |
| `session_gone`, `session_stall` | two statements of the comments that the code does not keep |
| `discovery` | a completed run leaves what the options want; a repeated run disturbs nothing; cycles feed what is advertised and nothing else |
| `discovery_off`, `discovery_sdr` | two statements about toggles and receiver modes that the code does not keep |
| `throughput` | the accumulator is a meter; no byte twice, none missed, if families fail together |
| `throughput_partial` | one family failing alone double-counts |
| `beast` | exact recovery for every chunking; each frame reported once; a stop ends the reader |
| `feeders` | states, uptimes and rates are true of the cycle they are published in |
| `mlat` | two writers never undo each other; a dead client reads 0, a live one does not |
| `mlat_stale` | a live client whose server has dropped it keeps its last peers and sync |

**`session`** checks, besides types:

- `DisconnectExitJustified`: exit 11 only after more than `DISCONNECT_TIMEOUT_S`
  without a connection;
- `OutageBounded`: and no outage outlasts `OutageBound`, so retries cannot
  postpone the watchdog;
- `StopBounded`: a stop request ends the process within `StopBound`;
- `FeederHealthNeverStalls`: exit 12 is impossible with `ha_feeder_health`;
- `PublishingIsOnline`: no old will or farewell lies over a running session;
- `SessionEndsOffline`: a session that reached `publish_loop` leaves "offline"
  behind, by farewell or will, however it ended;
- `SessionRediscovers`: after its first cycle a session's configs are on the
  broker, also after a broker restart.

`DISCONNECT_TIMEOUT_S` bounds the outage, not the time since a successful
publish: a broker that accepts CONNECT and acknowledges nothing restarts the
clock at each attempt. That is how the code defines the outage. `StopBound` with
the code's own values exceeds the ten seconds that `app.py:16` speaks of: a
stop during a silent connect waits through connect, SUBSCRIBE and the online
publish (12 s) before the loop looks at it. And a birth heard during a run is
erased by the assignment at the run's end (`app.py:711`); the configs are
retained, so Home Assistant finds them without it.

**`discovery`** checks `MainSettles` and `FeedersSettle` (a completed run leaves
what the options want), `NoBlip` (a step of a run never disturbs an entity that is
right already), `PublishedIsAdvertised` (no state for an entity that Home
Assistant was not told of) and `AdvertisedIsFed` (an advertised entity gets its
state in every cycle in which its sources answer, a rate from its second sample
on). `AdvertisedIsFed` leaves out the two cases the violation runs are about, and
the cycle in which a clock that steps back costs a rate its sample.

**`beast`** checks `InOrder` and `AllCounted` (what is parsed is what was sent,
neither more nor less once all is read), `NeverDiscards` (while the stream consists
of whole frames the guard on the buffer's growth never fires, so the two before are
unconditional for it), `ReportedOnce` (each frame is in exactly one snapshot,
waits for the next, or was dropped by one without an interval) and `StopEnds`.

**`mlat`** checks `FieldsKept` (the file always holds each writer's latest
completed write, unless the other has failed to read the file since),
`DeadReadsZero` (a client dead for longer than the limit shows no number),
`RecentIsShown` (a number that either writer completed within the limit is shown
by a cycle that can read the file, whatever the other did since) and `LiveIsShown`
(a client that lives, whose file can be read and written, is from some time on
always shown).

**`feeders`** checks that no mixture of readings shows a client connected that
never fed in the cycle (`NoFalseUp`), or down that fed throughout and could be
looked at (`NoFalseDown`); that PlaneFinder's state follows the traffic between
its last two samples, over missed samples and restarts on both sides
(`PlanefinderFollowsTraffic`: an answer without the counter in between hides no
traffic, and what it makes the code believe is corrected by the next sample); that uptimes agree with states
(`UptimeMatchesStatus`); and that no byte is billed twice
(`RatesNeverOvercount`). Two limits of the code show in the statements: fr24
without an endpoint is judged by its process alone, and the sample after an
answer without the counter is read optimistically, as if it were the first: by its
docstring (`app.py:206`) `PlanefinderFeedState` should do so in the first cycle
only.

**Bounds.** `Session` uses timeouts of 1 and 2 ticks: what matters is which
timeout comes before which age crosses its limit, and 2 against 1 gives both
orders; the backoff doubles once and is capped. `OutageBound` and `StopBound` are
formulas in the constants, confirmed to be within one tick of what TLC reaches.
`session_gone` uses the code's own values (5 s, 2 s, 300 s, 30 s intervals);
`session_stall` uses the small ones, because the behaviour is a cycle count.

`discovery` has five feeders of five kinds (kernel counters with a binary report,
byte report, message report, MLAT with and without sync), and nine option sets in
which every category is on in some and off in others and every receiver mode
occurs; toggles with no relation to each other are tied. Sources answer by kind:
all, all but one kind, one kind, or none, since a feeder's states depend on its
own sources only.

`throughput` has 2 inodes, 2 feeders and 2 bytes per feeder: a reused number, a
reconnection to the other feeder, a missed attribution and a failed dump all fit.
One family stands for both because there they fail together.

`beast` has a one-byte header, two types of different length, unknown frames of two
bytes (the assumption would allow three, which the proofs cover) and a buffer of 9,
which a run can overflow. readsb writes two frames in all, of every content, over
any number of connections (a frame lost with its connection is written again), so
that a frame may follow an unknown, a truncated or a half-read one, and each may
be on a connection of its own.

`feeders` has one community feeder, one client of mode "conn" and both reporting
clients; feeders of one kind do not touch each other's state. Two bytes let a
counter grow, and fall behind a sample when pfclient restarts. `Proc` is empty in
the run, whose state space it would double more than once: a client of mode
"proc" is judged by one reading, and the theorems cover it.

`mlat` has one feeder whose server pushes and one whose server never does, a
limit of 2 and a timer of 1, for the code's 180 s and `--stats-interval 30`: a live
client rewrites its file before the limit, with time to spare for the write and the
cycle, and a dead client's passes it.

**Fairness.** `Session`: the publisher's actions, since the event loop runs a
ready task; `Tick`, since time passes; and `ConnectionLost` when the broker cannot
be reached, since aiomqtt's keepalive ends such a connection. Neither the broker
nor the network is fair: it need never answer, and no liveness property depends
on an answer. `stop` is never assumed to come.

`Beast`: the steps that the event loop takes by itself once `stop` is set, that is
the read given up, the retry delay cut short, and the cancellation by
`wait_for`. readsb need neither write nor close nor accept, and the publisher
need not call `aclose`.

`MlatStats`: a write that was begun ends (`Rename` or `WriteFails`), the publisher
keeps its cycle, time passes, and a running client serves its timer. The last
two are strong fairness: a server that pushes without a pause disables both
for a moment, again and again, but starves neither. That the file can be
written and read is a hypothesis of `LiveIsShown`, not an assumption.

Deadlock is checked except in `beast`: a closed reader, like the process it ends
with, does nothing more. In `session` a process that has exited is kept alive by the
environment's actions.

## Where the code and its comments disagree

Each is a run that TLC ends with a counterexample.

- `session_gone`: "the retained will already says offline" (`app.py:151`). If
  the first online publish is read by the broker and acknowledged late, a clean
  DISCONNECT follows with no farewell; the will is discarded.
- `session_stall`: exit 12 is for "a real MQTT stall" (`app.py:1120`). With
  `ha_feeder_health` off and the data sources gone (the feeders' too, or
  `ha_feeder_status` off) it fires on a healthy link.
- `discovery_off`: "toggling a category off publishes retained-empty configs"
  (`DEVELOPING.md:763`), but not for `ha_feeder_status`.
- `discovery_sdr`: "in remote/net-only mode readsb owns no SDR, so skip the SDR
  device entirely" (`app.py:462`). In `uat` mode readsb is net-only too
  (`00-haos-options:225`), and the device is advertised without a value ever.
- `throughput_partial`: "a still-alive socket is never dropped"
  (`throughput.py:101`), unless one family's dump fails and the other's does not.
- `mlat_stale`: "An MLAT sensor reads 0 when that aggregator is not syncing"
  (`DOCS.md:284`). The client's timer keeps the file fresh, and merges over the
  server's last peers and sync, for as long as the client lives.

## Proofs

All obligations are checked by `tlapm` with Z3, Zenon and LS4. The assumptions are
the named `ASSUME`s of the modules: timeouts and counts are natural numbers,
positive where a zero would make the code meaningless, and `MinDelay <= MaxDelay`;
the feeders of `Discovery` and the inode numbers are finitely many; and, for the
stream, `BytesAssumption` (the escape is no frame type, a frame has a header and a
payload), `UnknownAssumption` and `BufferAssumption`.

| Theorem | For every | Argument |
|---|---|---|
| `SessionProofs!TypeInvariant` | timeout, interval, count | inductive; the Boolean part (`FlagsOK`) and the rest are preserved separately |
| `SessionProofs!NeverStalls` | the same | `StampedBeforeWatchdog`: when the cycle stands at its heartbeat with `ha_feeder_health`, a state publish has cleared `stale`; `FeederHealthNeverStalls` alone does not say how the heartbeat is reached |
| `SessionProofs!DisconnectJustified` | the same | `OutageNotOverstated`: the code's age never exceeds the true time without a connection while an outage is under way, and the age that gave exit 11 passed the limit |
| `SessionProofs!StopWithinBound` | the same | `StopInTime`: at each `pc`, time since the request plus the longest path that remains (`left`, the publishes in `todo`, the teardown) is within `StopBound` |
| `SessionProofs!OutageWithinBound` | the same | `OutageAged`: at each `pc`, the age of the outage plus `left` is within what the path so far allows; between sessions the code's own clock is behind it by `Teardowns` at most, until it saturates. That no retry restamps the clock is what carries the bound over the loop |
| `SessionProofs!AlwaysOnline` | the same | `OnlineInv`: socket, broker session and `pc` agree (`EndsAgree`), and on an open session `wire` and `retained` go from nothing to a pending "online" to "online" (`WireHolds`) |
| `SessionProofs!AlwaysEndsOffline` | the same | `FarewellFirst`: wherever a DISCONNECT stands in `wire`, an "offline" stands right before it or has been read; the two ways to skip the farewell are a socket that is broken (nothing is sent) and a session that never entered `publish_loop` |
| `SessionProofs!AlwaysRediscovers` | the same | `DebtPaid`: on an open socket, `need_discovery` is set or the broker holds the configs; a broker that forgets them takes the socket with it |
| `PublishingProofs!DiscoveryTyped` | feeder set (finite), option set, class of feeders | inductive |
| `PublishingProofs!MainAlwaysSettles`, `FeedersAlwaysSettle` | the same | `PlanRight`: the plan writes only what is wanted, and misses no topic; `RunsMend`: what a run has passed is mended, and everything is once nothing is owed |
| `PublishingProofs!RunsNeverBlip` | the same | any write, in a run or in flight when it ends, is of the wanted value |
| `PublishingProofs!PublishedAlwaysAdvertised`, `AdvertisedAlwaysFed` | the same, and every set of answers | a cycle runs only when settled, where `Advertised` is `Asked` (`MainAdvertised`, `FeederAdvertised`); `MainStatesMatch` and `FeederStatesMatch` compare the two conditions group by group |
| `ThroughputProofs!TypeInvariant` | socket, feeder and family set | inductive; totals never negative, with partial dumps too |
| `ThroughputProofs!NoDoubleCount` | the same, given `~PartialDumps` | `LagInv`: a socket's counted bytes never pass `_last`, or the dump under way, which never passes the kernel's counter; dropping an entry is safe only because the socket is then not alive |
| `ThroughputProofs!NothingMissed` | the same, given `~PartialDumps` | `ExactInv`: outside inherited numbers, the bytes counted of a socket that `_last` knows are what `_last` holds |
| `ThroughputProofs!TotalsNeverDrop` | the same, with or without `PartialDumps` | `delta` clamps; no other step but `Restart` touches a total |
| `ThroughputProofs!MeterRefined` | the same, given `~PartialDumps` | `Spec` implements `ByteMeter`. `MeterInv`: what a feeder's dumped and live sockets have carried and the totals do not have yet, summed over the sockets, is within `carried - totals` |
| `BeastParserProofs!ParseOf` | frame types and lengths, byte values, sequence of frames, beginning of its stream | the loop invariant `Progress`: a turn begins at a frame's start, inside a frame of unknown type, or at the data's end, and `frames` and `used` are those of the whole frames passed; every turn but the last moves on (`TurnMoves`) |
| `BeastProofs!BeastTyped` | the same, any buffer, any number of frames and connections | inductive |
| `BeastProofs!BeastInOrder`, `BeastAllCounted` | the same | `StreamInv`: what was sent is what was seen, followed by what is pending; `got` is the whole frames of the first, `buf` and `wire` together the bytes of the second, and no pending whole frame is complete in `buf`. `ParseOf` carries it over a read |
| `BeastProofs!BeastNeverDiscards` | the same | by `StreamInv` what a parse leaves of whole frames is less than one frame, which fits the buffer (`RestFits`) |
| `BeastProofs!BeastReportedOnce` | the same | `CountInv`: the equation for each format; counting is additive (`CountConcat`) |
| `FeedersProofs!TypeInvariant` | set of feeders of each kind, number of bytes | inductive with `RatesCovered`, without which a rate could be negative |
| `FeedersProofs!NeverOvercharged` | the same | `RatesCovered`: bytes billed and bytes not yet billed, from the baseline over a pending sample to the counter, are within what was sent |
| `FeedersProofs!ShownHasFed`, `FedIsShown` | the same | `Sighted`: at each phase what has been read lies between `steady` and `held`; a reading that a later one depends on may lose members, but only such as no longer feed |
| `FeedersProofs!PlanefinderTracked` | the same | `Tracked`: since its last sample pfclient has counted at least what it sent, and exactly that from `prev` on, unless it restarted; `Compared`: so has the report |
| `FeedersProofs!UptimesAgree` | the same | `StatesFromConnectors`: from status to uptime, one reading of `stats.prom` serves both |
| `MlatStatsProofs!TypeInvariant` | feeder set, limit and timer | inductive |
| `MlatStatsProofs!NothingClobbered` | the same | `MergedOverCurrent`: a write under way holds the other writer's current field, unless it is blind, since no second write can begin before it ends |
| `MlatStatsProofs!DeadClientReadsZero` | the same | `DeadAges`: the mtime of a dead client's file is at least the time since its death, so it passes the limit with it |
| `MlatStatsProofs!RecentAlwaysShown` | the same | `FileAges`: a file is no older than any write completed into it; with `FieldsKept` and the merge, a fresh file that can be read shows each writer's latest number |

`~PartialDumps` is a hypothesis because without it `NoByteTwice`, `NoByteMissed`
and the refinement are false: TLC refutes each, the first in `throughput_partial`.

Two of the arguments are inductions over data. The library's induction theorems
take a predicate as a parameter, which no installed prover can instantiate;
`SeqLemmas` therefore states induction for a set (`NatSetInduction`, from
the well-foundedness of `<` on `Nat`), and a proof applies it to the set of the
numbers for which its claim holds. So do the proofs about the recursive functions
of the parser (`Iterates` gives their existence and their equations) and about the
number of turns. The sum over sockets in `MeterInv` is an order of the inodes and a
sequence of partial sums (`SumWithin`), so that a step which changes one socket
changes the partial sums from that socket on (`SumOfMore`, `SumOfLess`), and only
`SumOfNaturals` is an induction.

Only model-checked are the four liveness properties, `StopTerminates`,
`OutageTerminates`, `StopEnds` and `LiveIsShown`: fairness and ENABLED are outside
the prover. What `StopTerminates` and `OutageTerminates` say beyond `StopBounded` and
`OutageBounded`, which are proved, is that time passes until the process has ended.

## What is not modelled

- Sensor arithmetic (`nearby`, `emergency`, `stats`, `uat_stats`): stateless,
  on one snapshot, unit-tested. Whether each value is published, and to an entity
  that exists, is `Publishing`.
- `UniqueDailyTracker`: a set that is emptied when the date changes. The
  repository states no rule for a date that goes back (a corrected clock, a change
  of time zone); a hazard entry.
- The ages of client processes (uptimes of clients), the portal counts and
  piaware's attributes: copied fields.
- Start-up before the reconnect loop, and the Supervisor lookup: straight-line.
- Wall-clock steps: ages grow with time in `Session`; `Feeders` has them for the
  rates.
- Boot: `00-haos-options` is one straight-line translation of options, of which
  `Publishing` uses the receiver mode; `00-persist` and the tmpfs redirect run once,
  and what they race with is in scripts of the base image, which the repository
  does not hold. One hazard entry.
- The patching of mlat-client at build time (`main` of `patch-mlat-client.py`);
  its effect is in `MlatStats`.
- JSON bodies, topic strings, netlink layouts: one value per category, or the
  outcomes that the callers tell apart.
- Third-party feeders, s6 itself, build and CI tooling.

## What is left

Every component with state and concurrency of its own has a module, its safety
properties are proved, and each hazard has a property or a reason. What a further
step would take up:

1. `UniqueDailyTracker`, once the intended behaviour of a date that goes back is
   written down.
2. A stepping clock as an input of `Session`: its ages would become differences
   of readings, and exits 11 and 12 premature.
3. A birth watcher that dies on a malformed message while its connection lives.
4. `00-persist` under a full disk, with the base image's scripts at hand.

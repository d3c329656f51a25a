# docker-collector in TLA+

`docker-collector` runs on every host of a cluster. It follows the containers of
its Docker daemon, reads their network counters from `/proc/<pid>` and ships the
differences to Logstash; when it starts it also sets up the Kibana dashboard of
the cluster. This directory holds TLA+ modules translated from its source, TLC
configurations that check them on small hosts, and theorems that TLAPS checks for
hosts of any size.

Paths below are relative to the repository. `docker-collector.go` is the main
program, `containersregistry.go` its registry, `utils/comm/` the data types and
`utils/comm/db/` the database side.

## 1. Inventory

| Component | State | Operations | Modelled in |
| --- | --- | --- | --- |
| Main loop and event goroutines (`docker-collector.go`) | `containersMutex`, the position of main and of every goroutine | `listenForEvents`, one goroutine per event, `readContainers`, the periodic update | `DockerCollector` |
| Containers registry (`containersregistry.go`, `container-stats.go` type `Node`) | the slice `Node.Containers` | `Create`, `Activate`, `Deactivate`, `DeleteByIndex`, `GetSliceIndex`, `ActiveContainers`, `UpdateDBNode` | `Registry`, `DockerCollector` |
| Start-up of main (`docker-collector.go:57-140`) | listing of the containers, attempts left | waiting for the daemon, listing, monitor, unlocked `Create` of each container | `Startup` |
| Network statistics (`container-stats.go` types `Container`, `NetworkInterface`, `NetworkStat`) | interfaces, `ValueRead`, `LastValueRead`, `CurrentValue` | `AddNewInterfaces`, `UpdateNetInterfaces`, `UpdateLastValue`, the readings | `NetStats` |
| Logstash connection (`db/elasticsearch.go`) | `lsConn` | `NewConnTo`, `connectToLogstash`, `reconnectToLogstash`, `UpdateNode` | `Logstash` |
| Set-up of Elasticsearch and Kibana (`db/elasticsearch.go`, `db/elasticsearch_kibana.go`) | the index of the day and the `.kibana` index, shared by the collectors | `InitElasticDb`, `CreateCluster`, `CreateNode`, `put` | `ElasticSetup` |
| Place of a panel (`db/elasticsearch_kibana.go`) | a dashboard | `put`, `fittablePos` | `FittablePos` |
| Event monitor (vendored `samalba/dockerclient`) | the event stream, three channels | `StartMonitorEvents`, `MonitorEvents`, `readJSONStream` | `EventMonitor` |
| Elasticsearch client (vendored `elastic.v3/client.go`, `connection.go`) | connections and whether they are dead | `NewClient`, `PerformRequest`, `next`, the health checks | `ElasticClient` |
| Docker daemon | container life cycles | start, stop, ... | external part of `DockerCollector` |
| Statistics retriever, executable (`utils/stats_retreiver.go`, `utils/executable/exec.go`) | none | shell commands | by whether they can succeed (`Readable`) |
| Command line, logging, client construction, driver selection | set once, before anything runs | | not modelled |
| Other vendored code | | | not modelled (section 7) |

**How they interact.** The monitor hands the daemon's events to `listenForEvents`
in the order of the stream. `listenForEvents` starts a goroutine for each event
and returns; the goroutines race for `containersMutex`, and the one that holds it
asks the daemon for the state of the container *at that moment*, changes the
registry and ships it (`UpdateDBNode` -> `UpdateNode`). Main takes the same lock
once per period, reads the counters of the active entries and ships them. While
it holds the lock at start-up it also sets up Kibana, with requests that the vendored
client repeats when no answer comes. All collectors of a cluster do so against the same
documents.

**What is hard.**

* The order of the events is lost between the stream and the lock, and what the
  goroutine learns from the daemon belongs to a later moment than its event. A
  registry that follows the containers must neither keep an entry of a container
  that is gone nor lose one that runs, nor read `/proc` under the PID of an
  earlier run.
* Calls fail (inspection of a removed container, `ls` under a PID that has gone)
  and nothing retries them. The stream itself may fail, silently.
* Main may hold the lock most of the time: its sleep is negative when a period's
  work takes longer than the period, and the mutex of the Go version that the
  `Dockerfile` names (1.5) has no starvation mode.
* Losing Logstash turns the critical section into minutes of waiting; losing it
  for longer leaves a nil connection behind. A Logstash or an Elasticsearch that stays
  connected and does not react holds the critical section for as long as it likes: no
  write and no request has a time limit.
* `-f` is tested against different names at different moments: against all `Names` of the
  listing at the start (line 130), which include the aliases that links give a container,
  against the present name at a start event (line 212), and never at a rename.
* The nodes of a cluster share one dashboard document without version checks.

What makes each component correct:

* *registry and event goroutines*: an entry per followed container and no other;
  entries carry the PID of the present run; every change is followed by `UpdateNode`
  before the lock is free again; as long as main finds time to sleep, everybody gets
  the lock;
* *start-up*: a container is registered once although events already flow; no
  container that ran all the time is missed;
* *network statistics*: the differences shipped for a counter add up to what the
  counter has counted, whatever readings failed in between;
* *Logstash*: one connection per process, a bounded wait, no use of a connection
  that does not exist;
* *Elasticsearch and Kibana*: one collector writes the cluster's documents, and
  completely; panels do not overlap, none is lost or there twice, and the search for a
  place for one terminates;
* *event monitor*: events arrive once each and in order, and no goroutine stays behind;
* *Elasticsearch client*: a request that is answered has taken effect, one that fails may
  have; a node that is up is used.

`PROJECT.json` lists the single hazards at their lines.

## 2. Plan

All of it is done; the order was that of importance for the program.

1. `Registry`, `DockerCollector`: the registry and the goroutines that change it, with
   runs for safety and liveness, and proofs (`DockerCollectorProofs`).
2. `FittablePos` and `NetStats`, two components that the core uses as functions, with
   their proofs.
3. `ElasticSetup`: several collectors against one Elasticsearch, request by request, with
   failures between them, retries and restarts; `ElasticSetupProofs`.
4. `Logstash`: the connection behind `UpdateNode`, its attempts and its nil, under the
   lock and beside main's unlocked start; `LogstashProofs`.
5. `Startup`: the start of main, which composes with `DockerCollector`: its handlers run
   beside main's loop, on the same registry; `StartupProofs`, which uses the lemmas of
   `DockerCollectorProofs` on these handlers.
6. The vendored code that the hazards above lead into: `EventMonitor` behind the stream
   of `DockerCollector`, `ElasticClient` behind the requests of `ElasticSetup`, with
   `EventMonitorProofs` and `ElasticClientProofs`.
7. Abstract specifications: `Audit`, implemented by `DockerCollector`, `EventStream`,
   implemented by `EventMonitor`, and `AtLeastOnce`, implemented by `ElasticClient` - each
   checked by TLC with its liveness, and proved in TLAPS step by step.

How the modules are layered:

```
Startup ----extends----> DockerCollector ----extends----> Registry
AuditRefinement -extends-> DockerCollector     Audit     <- AuditRefinement!Abstract
EventMonitor                                   EventStream <- EventMonitor!Abstract
ElasticClient                                  AtLeastOnce <- ElasticClient!Abstract
ElasticSetup, Logstash, NetStats, FittablePos (MCFittablePos for its dashboards)
```

The abstractions are the seams: `DockerCollector` uses a stream that behaves as
`EventStream` does (`Emit`, `ListenForEvents`, `StreamFails` are its three actions),
`ElasticSetup` uses requests that behave as in `AtLeastOnce` (`Answered`, `Failed`), the start
that `DockerCollector!Init` describes is what `Startup` leaves behind if nothing
happens during it (`StartHandsOver`, section 6), and `UpdateNode`, a step of
`DockerCollector`, is `Logstash`.

## 3. The models

### Registry and event goroutines

`Registry.tla` defines the operations on `Node.Containers` as operators on
sequences of entries `[id, pid, active]`. `DockerCollector.tla` is the state machine
of a process from the end of its start-up (line 142) on.

| Variables | In the program |
| --- | --- |
| `status`, `pid`, `lastPid`, `lastSeq` | the daemon (external): life cycle and `State.Pid` of each container, the events emitted |
| `stopping` | containers whose `docker stop` has emitted `die` but not `stop` yet (external) |
| `matching` | containers whose present name matches `-f`, as `regexp.MatchString` says of `dic.Name` |
| `monitor`, `stream` | `StartMonitorEvents`; events numbered in the order of the stream |
| `waiting` | goroutines of `listenForEvents` blocked in `containersMutex.Lock()` |
| `inside`, `hpc`, `hpid` | the goroutine in the critical section, its position, the PID it was given |
| `mpc`, `cursor` | main: its position (`asleep` in line 169, `awake` when it wants the lock), the index of the loop in `readContainers` |
| `containersMutex` | the holder of the lock |
| `containers` | `Node.Containers` |
| `published` | the registry at the last `UpdateNode` |
| `calm`, `ambiguous`, `faulted`, `sampled` | history variables; no action depends on them. `ambiguous`: containers on which two tests of `-f` may have differed, by a rename or by an alias. `sampled`: whether the counters of the present run have been read, and then given to `UpdateNode` |

The critical section of a goroutine is a step per call that leaves the process:
`InspectOnStart` (`InspectContainer` and the `-f` expression), `Activate` (`ls` under the
PID, or on to `Create`), `CreateInspect` and `CreateAppend` (the second inspection and
the `ls` of `Node.Create`), `DeactivateOnStop`, `DeleteOnDie`, `HandlerUpdateDBNode`,
`HandlerUnlock`. Between any two of them the daemon may start, stop or remove
containers. Each call may fail; `faulted` records failures that were not caused by
the state of the container. `MainLock`, `ReadContainer`, `DiscardDone`, `ReadDone`,
`MainUnlock` and `MainWakes` are main. After a period main sleeps or is `awake` at once:
the sleep may be negative, or over before a woken goroutine runs.

Simplifications: PIDs are never reused; `UpdateNode` returns (see `Logstash`); event kinds that
change nothing in the collector (`kill`, `pause`, ...) are represented by `create`, but
for `rename`, which changes nothing there either but decides what `-f` matches; the clock
and `refreshTime` are left out, so that a sleeping main may wake at any time; the daemon
was quiet during start-up (`Init` allows any set of failed `Create`s, of aliases that
`-f` matches, and any order of the listing; `Startup` has the rest).

Properties:

* `TypeOK`.
* `UniqueEntries`: no container is registered twice, after a start during which the daemon
  was quiet. (A start that is raced may leave two entries, see `Startup`.)
* `NoGhost`: with the stream up, an entry of a container that does not run has a
  `die` or `destroy` still to be handled.
* `FilterHonoured`: a container whose name has matched `-f` ever since the collector
  started is never registered. More cannot be said, in spite of the flag's text
  (`docker-collector.go:30`): a registered container that is renamed to a matching name
  stays, and one that was skipped for an alias, or for a name it no longer has, is
  registered at its next start event.
* `PublishedWhenFree`: with the lock free, `UpdateNode` has been called with the registry
  as it is.
* `CalmAudit`: the strongest true statement found on who is followed. A container
  never started while an earlier event of its own was in flight is - once its events
  are handled - registered exactly while it runs, active, and under the PID of this
  run.
* `EventuallySampled`, `EventuallyForgotten`: if main sleeps again and again (`MainSleeps`),
  the counters of a followed run are read and then shipped, and the entry of a container
  that has ended goes. Without the premise neither holds: a main whose periods take too
  long may have the lock to itself for ever.
* `RunningIsFollowed`, `ActivePidIsReal`: what the README of the program leads one to
  expect without the restriction to calm containers. Both are violated (section 5).

### Place on the dashboard

`FittablePos.tla` is `put` and `fittablePos` of one collector (`elasticsearch_kibana.go`).
`panels` is the stored dashboard, `tempPanel` the panel to place at the position being
tried, `pc` says whether a search is under way. `Put` is the part of `put` before the
loops, `TryPosition` one pass of the inner loop with its jump over the first panel in
the way, `NextRow` one pass of the outer loop, `GiveUp` the last line of `fittablePos`,
`Store` the write, which may fail. The panels that are there before may have any
positive size and position; a panel of width 0, which neither Kibana nor this program
writes, would keep the inner loop where it is.

* `NoOverlap`: no panel covers a cell of an earlier one, unless it was put below the
  grid. Overlap is defined by shared cells here, and not by the code's `intersects`.
* `GivenUpMeansFull`: the position below the grid is answered only if the panel does not
  fit below all the others: the jumps lose no free row.
* `FirstFit`: on a dashboard of equally wide, aligned panels the answer is the first
  free place. In general it is not: after an overlap the search jumps by the width of
  the panel in the way from where it stands, which may be past a gap. The code and
  its test promise no more.
* `ScanAdvances`, `ScanEnds`: the search goes on and ends. `CreateNode` runs it with
  `containersMutex` held.

### Network counters

`NetStats.tla` follows one registered container. `present` and `counter` are the kernel's;
`interfaces`, `active` and the three fields of `NetworkStat` are the entry's; `todo` holds
the interfaces that the loop of `readContainers` still has to read. `UpdateNetInterfaces`
lists the interfaces, `ReadStat` reads one counter, `DiscardFirst` is the discarded reading
of main, `UpdateNode` ships the differences - after a reading, or between two of them for
the goroutine of an event. Listings, readings and writes may fail. Interfaces come and go
at any time, and the process may end.

One detail of Go shows: `readContainers` works on a copy of the container, and when
`AddNewInterfaces` has to move the slice to a longer array, what it switches on from there
is not seen by the copy (`Unseen`). Such an interface is read one period later.

* `Conservation`: for every interface, what was sent and what was lost add up to the last
  reading less the discarded one, whatever failed.
* `OnlyRealTraffic`: an interface that was always there and readable never reports a
  negative value. If the discarded reading read it (`seen`), nothing is shipped that the
  kernel had counted before (`seenAt`). The others ship all that the kernel has counted,
  so that their first value may be the traffic of the container's whole life: those of a
  container that an event registers, but also those that the discarded reading missed
  because its listing failed or because a new interface hid them.
* `EventuallyAccounted`: what such an interface has counted is accounted for in the end,
  the hidden readings notwithstanding.

### The registry's promise

`Audit.tla` is the order in which the registry changes and `UpdateNode` is called: each
container is not followed, active or paused; `Add`, `Pause`, `Resume` and `Remove` change one
container, only on top of a state that `UpdateNode` has been given ("shipped"); a
container whose name has matched `-f` all along is never added; `Remove` is shipped in
the same breath; every change is shipped in the end. It says nothing of the database:
`UpdateNode` sends the counters of the containers, never `IsActive`, a PID or a removal, and
its writes may be lost (`Logstash`). `AuditRefinement` maps the slice to
it: a container is active if one of its entries is. `ImplementsAudit` would fail if two
changes were made without a `UpdateNode` in between, if an index found before were used
after the slice has moved, or if a path through a critical section shipped nothing.

### Start of main

`Startup.tla` extends `DockerCollector` by what main does before line 142: `Info` with its
attempts, `ListContainers`, `MonitorOpens` (the monitor's goroutine gets its stream later
than `StartMonitorEvents` returns), and for each listed container `Skip` (`skipped`:
one of its `Names`, the present one or an alias, matches `-f`) or `NextContainer`,
`CreateInterfaces`, `AppendRead`, `AppendStore`, `StartupUpdateNode`. `Beside` lets the daemon
and the event goroutines of `DockerCollector` run between any two of them.

Main appends to `Node.Containers` without `containersMutex` while event goroutines append
and delete with it: a data race. The append is modelled in two halves. A goroutine's
change in between comes out in every way that the order of the memory accesses allows:
main's element overwrites the goroutine's, or the other way round, as long as both slices
share an array (`Aliased` follows arrays and capacities), or one of the two headers is
lost. A header that is torn, its length from one append and its pointer from the other,
is left out.

* `StartTypeOK` bounds the attempts: `retries` counts down to -1 and not below.
* `UntouchedAreFollowed`: a container that the daemon has not changed since it was
  listed and of which no call failed has exactly one entry at line 142 if it runs and is
  not skipped, and none otherwise, unless a goroutine changed the registry during one
  of main's appends. If nothing was touched, `UpdateNode` has been given the registry too.
  This is what `DockerCollector!Init` assumes.
* `HandsOver`: if nothing was touched, all that the proofs of `DockerCollector` rest on holds
  at line 142, among it that the start has skipped every container whose name matches.

Each condition is needed, as TLC shows when one is dropped: a container touched between
the listing and the opening of the stream is missed or stays registered after its end; one
started after the listing began may be registered twice, by main and by its event, since
`Create` does not look for an entry; an append that is raced loses an entry of either side.

### Logstash

`Logstash.tla` has one process whose callers - main and event goroutines - send values
over one connection. Each call of `UpdateNode` has up to `Values` values to send, or none.
`Write` succeeds on a broken connection for a while (TCP accepts the
data), `WriteFails` makes its caller `Reconnect` and `Dial` up to `MaxTries` times. A Logstash
that is `stalled` has its connection but does not read: a write may block for as long as
that lasts (`MayBlock`), as there is no deadline. Whenever
`net.Dial` fails, `connectToLogstash` has stored its nil already: the next `Write` or
`Reconnect` calls a method of it and the process ends (`Panic`). The mutex is taken except
by main in its start-up loop.

* `ShortOutageSurvived`: the process dies only after `MaxTries` attempts in a row have
  failed (a minute in the program), or after main was in `UpdateNode` beside a goroutine.
* `OneFailurePerOutage`: under the same condition, an outage makes one write fail. What was
  written to the broken connection before is lost as well, and nobody knows.
* `CallsReturn`: if Logstash does not stall for ever, whoever holds the lock in `UpdateNode`
  gives it back, or the process ends.
* `Reconnected`: if Logstash stays up and there are values to send again and again, the
  connection is there in the end. While no container is active main does not call
  `UpdateNode` (line 161), and a broken connection stays as it is.

Without `givenUp` the first property is false, which is the longest outage the program
survives: after it, `UpdateNode` goes on with a nil connection. `overlapped` is the other
way to the same panic, through the unlocked start.

### Set-up of Elasticsearch

`ElasticSetup.tla` has a set of collectors, each a sequence of requests against one server:
`IndexExists`, `CreateIndex`, `PutMapping`; `PutConfig`, `BulkCluster` for three types,
`PutDashboard`; `BulkNode` for two types, then for each panel `GetDashboard` and `PutPanel`.
`Failed` is a request without an answer (sent again while attempts are left) or with an
error; it may have taken effect. `Bulk` is also answered when its documents were rejected.
While the server is `hung` it answers nothing (`Hang`), and nobody goes on unless a connection
breaks. `Restart` begins again.

* `OneCreator`: however requests interleave, are repeated or die, one collector at most
  goes past the config document: its version is 1 for one write only.
* `NoPanelTwice`: also after repeated writes and restarts.
* `CompleteIfUndisturbed`: without failures all documents are there once the creator is done.
* `SomebodyStays`: the race for the index of the day ends some collectors (creating an
  index that exists is an error, and `InitElasticDb` failing ends the process), never all.
* `PanelsLostByStaleWrite`: a panel leaves the dashboard only when a collector writes
  back a copy that is not the present one, or when the creator sends its empty
  dashboard a second time.
* `SetupEnds`: main holds `containersMutex` during `CreateCluster` and `CreateNode`, so they
  have to end. If the server does not hang for ever, every set-up that is under way ends,
  the first one and the one after a restart. The client sets no timeout
  (`http.DefaultClient`), so that more cannot be said.
* `AlreadyCreated`: violated (section 5).

Panels are indeed lost: two collectors that start together both read the dashboard, and the
later write drops the panels of the earlier. Nothing in the code or its documents claims
otherwise, so that this is the exception in a property here, and not a disagreement.

### Event monitor

`EventMonitor.tla` has the four goroutines of the vendored client: the decoder and the reader
of `readJSONStream`, the converter of `MonitorEvents`, the consumer of `StartMonitorEvents`. Each
holds one item at most, as the three channels are unbuffered; a send and its receive are
one step. `ReaderStops` is the branch of the select on `stopChan`, after which
`ReaderDrained` waits until the decoder has closed its channel. The program never stops its
monitor; the branch is there because the select is.

* `ImplementsStream`: events arrive once each, in order, up to the point where the stream
  breaks, and what was not lost does arrive.
* `NobodyIsLeft`: after a failure or a stop all four goroutines end.

### Elasticsearch client

`ElasticClient.tla` is `NewClient` with its two checks, the goroutine `Healthchecker`,
`PerformRequest` with its counter of retries, and `next` with its round robin under
`connsMu`. A health check reads and marks in two steps (`CheckHead`, `CheckMark`), so that a
request's own mark may come between.

* `ImplementsAtLeastOnce`: an answered request has taken effect, none does so more than
  `MaxRetries` times, and each comes back.
* `UsedAgain`: a node that is up for good is not left marked as dead.

That a request gets an answer or its connection breaks is an assumption here, as the client
sets no timeout on it. `ElasticSetup` has the server that hangs.

## 4. Runs

The bounds: `MaxEvents`, the number of events the daemon emits (guards of `Emit`); in
`NetStats` `MaxCount` (guard of `Traffic`), `MaxChanges` (guards of `Attach` and `Detach`) and
`MaxFaults` (guards of the failing alternatives); in `Logstash` `MaxOutages` (guard of `GoDown`);
in `ElasticSetup` `MaxFaults` (guards of `Failed` and `Bulk`) and `MaxRestarts` (guard of
`Restart`). `Stall`, `ReadAgain` and `Hang` are not bounded. `MaxTries`, `MaxAttempts`,
`MaxRetries` and `Retries` are limits of the program itself with smaller values: 12, 10, 10
and 10 there. `FittablePos` and `ElasticClient` have no bound besides.

| Run | Instance | Checks | States |
| --- | --- | --- | --- |
| `core_one` | `DockerCollector`: one container that may be renamed to a name that `-f` matches, 4 events | `TypeOK`, `UniqueEntries`, `PublishedWhenFree`, `FilterHonoured`, `EventuallySampled`, `EventuallyForgotten` | 808,000 |
| `core_two` | `AuditRefinement`: two containers, 3 events | `NoGhost`, `CalmAudit`, `ImplementsAudit` | 1,257,000 |
| `core_followed` | one container, 3 events | `RunningIsFollowed`, violated | |
| `core_pid` | one container, 3 events | `ActivePidIsReal`, violated | |
| `start` | `Startup`: two containers, one with names that `-f` may match, 2 events, one retry | `StartTypeOK`, `UntouchedAreFollowed`, `HandsOver` | 3,460,000 |
| `net` | `NetStats`: two interfaces, counts to 2, two changes, one fault | `TypeOK`, `Conservation`, `OnlyRealTraffic`, `EventuallyAccounted` | 1,293,000 |
| `logstash` | `Logstash`: main and a goroutine, up to two values, two tries, three outages | `TypeOK`, `ShortOutageSurvived`, `OneFailurePerOutage`, `CallsReturn`, `Reconnected` | 30,000 |
| `setup` | `ElasticSetup`: two collectors, two panels each, two attempts, two faults, one restart | `TypeOK`, `OneCreator`, `NoPanelTwice`, `CompleteIfUndisturbed`, `SomebodyStays`, `PanelsLostByStaleWrite`, `SetupEnds` | 464,000 |
| `setup_already_created` | two collectors, one panel, one fault | `AlreadyCreated`, violated | |
| `place` | `MCFittablePos`: grid of 5 columns and 4 rows, new panels 2x2, up to two panels of sizes 1..3 x 1..2 before | `TypeOK`, `NoOverlap`, `GivenUpMeansFull`, `FirstFit`, `ScanAdvances`, `ScanEnds` | 118,000 |
| `monitor` | `EventMonitor`: 4 events | `TypeOK`, `ImplementsStream`, `NobodyIsLeft` | 1,000 |
| `client` | `ElasticClient`: one requester, two nodes, three attempts | `TypeOK`, `ImplementsAtLeastOnce`, `UsedAgain` | 34,000 |

Why these are enough. Every invariant of a passing run, `ScanAdvances`, and the steps of
the three refinements are also proved for all values of the constants (section 6); for
them the bounds only have to make the mutants show. The liveness properties are checked on
these instances alone.

* *Core.* A container's goroutines interfere when two of its events are in flight, which
  takes a stop (two events) and a start; a rename before or between them makes four events
  in `core_one`. Containers interact only through the lock and
  through positions in the slice, for which two entries suffice: one that is deleted and
  one that moves. The bound matters to the liveness properties only, which speak of one
  container each.
* *Start.* One container that is listed and one whose events race with the loop, or that is
  skipped for its name or an alias; two
  events make the goroutine of the second append or delete during the append of the first.
  Arrays of capacity 0, 1 and 2 occur, so that an append both moves the slice and stays
  in place.
* *Network.* Two interfaces are enough to hide one behind the other, a counter to 2 is
  read at three values, and two changes let an interface disappear and return.
* *Logstash.* Two callers are all that can be in `UpdateNode` at once (main, and the
  goroutine that has the lock); two values let a call meet the broken connection in the
  middle; three outages let one begin while the last is being repaired.
* *Setup.* Two collectors race for every document, two panels make one wait behind a
  write of its own collector, two faults repeat a request and fail another, the restart
  comes at any point.
* *Place.* The grid has the columns for two panels side by side and one to spare, and the
  rows for two on top of each other, so that jumps end at, before and beyond free places
  and the grid can be full; `fittablePos` looks at one panel in the way at a time.
* *Monitor.* Three goroutines before the consumer hold one item each: four events fill
  them all and leave one in the socket.
* *Client.* Program and set-up have one requester, main, and one URL; two nodes give the
  round robin something to do, three attempts let a forced check fall between others.

Deadlock is checked in the runs of `DockerCollector`, `NetStats`, `FittablePos` and
`ElasticClient`, which go on for ever. It is not in `start` (main is done, events are used up),
`logstash` (the process has ended), `setup` (every collector is done) and `monitor` (every
goroutine has ended), where the system really stops.

**Fairness.**

* *Core.* Weak fairness for what a goroutine does once it may: `ListenForEvents`, the
  goroutine in its critical section, main in its own, main at the lock and waking up. The
  lock itself comes without a promise. Go 1.5 hands an unlocked `sync.Mutex` to whoever is
  first, and main is first if its sleep is negative (line 169), for as many periods as that
  lasts. Only for a main that is *asleep* is `HandlerLock` strongly fair: a goroutine that
  Unlock has woken gets the lock if main sleeps long enough, again and again. The
  liveness properties therefore have the premise `MainSleeps`. Main needs no strong fairness:
  events are finitely many here, as far apart as the daemon makes them there.
* *FittablePos.* A loop that can go on does.
* *ElasticSetup.* A request comes to an end, answered or not, while the server does not hang;
  `SetupEnds` has the premise that it does not hang for ever.
* *NetStats.* Main reads again and again and ends what it has begun.
* *Logstash.* Weak fairness for a caller that is on its way and not in a write that may
  block; strong fairness for `WriteFails`: TCP does not accept data for ever
  on a connection whose other end is gone. Nobody has to call `UpdateNode`. That Logstash
  does not stall for ever, and that there is something to send, are premises of the
  properties.
* *EventMonitor.* Weak fairness for each goroutine; strong fairness for the reader's branch
  on `stopChan`: Go picks at random among the ready cases of a select.
* *ElasticClient.* Weak fairness for checks, requests and the timer, strong for `connsMu`. A
  request is answered or its connection breaks; the code has no timeout that would see to it.
* *Startup.* None: the properties are about what a start leaves behind, not that it ends.

Apart from these premises - a main that sleeps, peers that do not hold a connection for
ever without reacting - nothing is assumed of the daemon, the stream, the servers, or the
success of any call.

## 5. Disagreements found

* **A running container is lost** (`core_followed`). The container stops and starts
  again; the goroutine of `start` gets the lock first and finds the old entry; then
  that of `die` deletes it. No event is left, so the container is not followed for
  as long as it runs.
* **PID 0** (`core_pid`). `Activate` on an entry that exists stores the PID when
  `strconv.Atoi` *fails* and 0 when it succeeds (`container-stats.go:101-105`). The
  entry is active and reads `/proc/0`; every counter counts as 0.
* **The cluster was not created** (`setup_already_created`). `CreateCluster` writes the
  config document first, and a version other than 1 is taken for "the cluster was already
  created". If a request after it fails, or a bulk request is answered with rejected items,
  or the first write itself was sent twice, nobody ever writes the rest: no later start of
  any collector does.

`PROJECT.json` quotes the lines.

## 6. Proofs

`DockerCollectorProofs.tla` begins with the lemmas on the operations of the registry, stated
for any sequence of entries: `GetSliceIndex` answers a position of the id or 0 if there is
none, `Created`, `Reactivated`, `Deactivated` and `DeletedByIndex` keep the type, change the set
of ids as they should and keep ids unique.

It goes on to prove every safety property of the core, for any finite set of
containers, any set of names that `-f` may match and any number of events:

| Theorem | Property | Rests on |
| --- | --- | --- |
| `TypeCorrect` | `TypeOK` | |
| `LockCorrect` | `LockInv` | `TypeOK` |
| `BranchCorrect` | `BranchInv` | `LockInv` |
| `RegistryCorrect`, `EntriesUnique` | `RegistryInv`, `UniqueEntries` | `LockInv` |
| `FilterCorrect` | `FilterHonoured` | `LockInv` |
| `PublishCorrect` | `PublishedWhenFree` | `LockInv` |
| `PidCorrect` | `PidInv` | `LockInv` |
| `NoGhostCorrect` | `NoGhost` | all of the above |
| `SeqCorrect` | `SeqInv` | `LockInv` |
| `FollowCorrect`, `AuditCorrect` | `FollowInv`, `CalmAudit` | all of the above |

The properties are not inductive by themselves. `UniqueEntries` needs that the
goroutine that found no entry is still the only one in a critical section when it
appends (`RegistryInv`, through `LockInv`). `NoGhost` needs that the PID under which `ls` has
just succeeded is a PID of *this* container or of nobody (`PidInv`): only then does the
success show that the container runs. `CalmAudit` needs that a running calm container
has at most one event in flight, the start of this run, before which it is not
registered (`FollowInv`), and that an event is in one place at a time (`SeqInv`). The
conjunction is `IInv` (`CoreInvariant`). It is proved layer by layer, with a lemma per
conjunct on what a step does to it (`LockStep` to `FollowStep`). `CoreInductive` puts these
together: from *any* state of the right types in which `IInv` holds, a step leads to another
one. It does not mention `Init`, so that it applies to every way of getting to line 142.

The last part is `AuditImplemented`: `Spec => AuditSteps`, the initial states and steps
of the refinement that `core_two` checks with its liveness. `CreatedFollows`, `SwitchedFollows`
and `DeletedFollows` say what each operation on the slice is for the followed containers;
the last two need that ids are unique, as a second entry of a container would go on
being active. `EventAudit` is the goroutine of an event: its change is made on a registry that
`UpdateNode` has been given (`PublishInv`), and the container it adds is neither
registered (`RegistryInv`) nor one whose name has matched `-f` all along (`FilterInv`).

`FilterCorrect` is the statement on `-f` that survives two tests and renames: the test at a
start event and the test of the start are separate in the model, `matching` changes at any
moment between the inspection, `Activate` and `Create`, and the theorem speaks of the
containers of which none of them could say no. `FilterInv` carries it through the
critical section: a goroutine past the test is not that of such a container.

`StartupProofs.tla` proves `StartTypeOK`, `UntouchedAreFollowed` and `HandsOver` for any set of
containers, any set of names and aliases that `-f` may match, and any number of events and
attempts. The invariant (`StartInv`)
says where main is with each container that has not changed since it was listed: still to
come and not registered (`StillToCome`), or registered exactly once and as it runs, or
absent for a reason (`LoopInv`). Three things keep it so. An unchanged container has no event
(`UntouchedInv`), so that the goroutines at work are those of other containers, and what
they do to the registry leaves its entry alone (`OthersKept`, for an append, a switch and a
deletion that moves it). The entry main has in its hands is that of one container which
is off the list and not skipped (`NewInv`); a skipped container matches `-f` by its name, or
by an alias, and then it is ambiguous (`SkippedInv`). And as long as no goroutine has changed
the registry in the middle of an append, the slice that main appends to is the registry
(`SliceInv`); if one has, some container has changed. `StartHandsOver` adds `LockInv` and `PidInv` of the core, which hold from
the first step of the process on, and that a calm container which runs is not about to emit
the `stop` of an earlier run (`OwnInv`), and derives the whole of the core's `IInv` at line
142 from them if nothing has changed since the listing. `DockerCollector!Init` has the case
in which the daemon had emitted nothing before it either; with `CoreInductive` what the core's proofs show
holds after every such start.

`FittablePosProofs.tla` proves `TypeOK`, `NoOverlap`, `GivenUpMeansFull`, `FirstFit` and
`ScanAdvances` for every grid, every size of new panels that fits it and every initial
dashboard without overlaps and repeated ids (`GridAssumption`). They rest on `SearchCorrect`:
while the search runs, the panel is new, and for every row `b` below which all is free and
there is room, the search has not gone past the start of row `b`; a chosen position is
free or below the grid. `FirstFit` needs more (`FitInv`): on an aligned dashboard the search
stands in a column of the panels' raster whenever it looks at a place, and no place behind
it is free. A jump that starts on the raster ends on it, and what it passes over is
covered by the panel in the way, or ends in it, as the panels are of one width.

`NetStatsProofs.tla` proves `TypeOK`, `Conservation` and `OnlyRealTraffic` for any set of interfaces
(`InterfaceAssumption`: a finite set of numbers). `Conservation` alone is not preserved by the
discarded reading: it needs that nothing was accounted for before (`ReadingsInv`), and
`OnlyRealTraffic` needs that readings lag behind the kernel and differences behind readings,
and that what the discarded reading read is what the differences start from (`SeenInv`):
main discards under the lock, so that no difference is taken between the two.

`LogstashProofs.tla` proves `TypeOK`, `ShortOutageSurvived` and `OneFailurePerOutage` for any number of
callers, values, tries and outages. The invariant: no two callers are in `UpdateNode` unless
main was there unlocked (`LockInv`); the connection is nil only while a caller dials or
after it has given up (`NilInv`), and that caller is the only one there; a broken connection
that nobody repairs has not failed a write yet (`FailureInv`). `TriesInv` bounds the dialling.

`ElasticSetupProofs.tla` proves `TypeOK`, `OneCreator`, `NoPanelTwice`, `PanelsLostByStaleWrite`,
`SomebodyStays` and `CompleteIfUndisturbed` for any number of collectors, panels, attempts, faults and restarts. `OneCreator` rests on versions
(`CreatorInv`: as many creators as there are writes of the config document at most, and
the creator is alone). `NoPanelTwice` and `PanelsLostByStaleWrite` rest on `CopyInv`: what a collector is
about to write back lacks its panel, and unless somebody else wrote the dashboard since
(`stale`), it is the present dashboard or the one before its own unanswered write - so that
sending the write once more gives the same dashboard and not the panel twice.
`SomebodyStays` needs `StayInv`: once the index exists some collector has gone on past its
creation. `CompleteIfUndisturbed` needs `DocumentsInv`: once the config document exists, its
creator is at one of the others and those before it are there, or all of them are. Both
speak of runs in which no request has failed; `Follows` says what a step is in these.

`EventMonitorProofs.tla` proves `TypeOK` and `StreamImplemented` (`Spec => StreamSteps`, the initial
states and steps of the refinement that `monitor` checks with its liveness) for any number
of events. Passing an item on is a stutter of `EventStream`, as `Pending` joins what the
goroutines hold, in their order, with what is left in the socket (`PassingOnFollows`); the consumer's
step delivers the head of it; whatever loses an item is the break of the stream. The
latter needs that nobody holds an error and the reader does not drain while the stream
is whole (`WholeInv`). `EventsInOrder` is the consequence in one line: event number n is the
n-th that `listenForEvents` is given. It follows from `OrderInv`, by which delivered and pending
events are the first ones emitted.

`ElasticClientProofs.tla` proves `TypeOK` and `AtLeastOnceImplemented` (`Spec => AtLeastOnceSteps`) for any
number of requesters, connections and attempts. `TypeOK` holds of the counter of attempts
only because a request goes on as long as it is positive; `EffectsInv` adds up what is left
of it and the effects the request has had: `MaxRetries` at most, one more while an attempt is
under way. An attempt that is not lost has taken effect, and so has an answered request.

The assumptions are those on the constants, each named in its module: `ConstantsAssumption`
(finitely many containers, those that `-f` may match among them), `RetriesAssumption`, `GridAssumption`,
`InterfaceAssumption`, `LogstashAssumption`, `SetupAssumption`, `EventsAssumption`, `ClientAssumption`.
TLC evaluates them in the runs of their modules.

Only model-checked: the liveness properties (`EventuallySampled`, `EventuallyForgotten`,
`EventuallyAccounted`, `CallsReturn`, `Reconnected`, `SetupEnds`, `ScanEnds`, `NobodyIsLeft`, `UsedAgain`) and the
liveness conjuncts of the three refinements, as the prover handles neither fairness nor
`ENABLED`; and the three violations, which are counterexamples.

## 7. Not modelled

* Logging, flags and environment variables; the parsing of what shell commands print; the
  SQL tags and mappings; the construction of the Docker and Elasticsearch clients; the
  choice of the database driver, of which there is one. All of it happens once, before
  anything runs, or has no state.
* Of the Elasticsearch client: sniffing (switched off at `db/elasticsearch.go:173`), `Stop` and
  `Start` (never called), HTTP timeouts other than that of the first check.
* Of the Docker clients: the vendored `fsouza/go-dockerclient`, which no code of the program
  imports, and every request of `samalba/dockerclient` but the event stream; these enter
  `DockerCollector` as calls that answer or fail.
* The rest of the vendored code - by far most of the repository's lines - builds and parses
  JSON for queries, aggregations, suggesters and container options. The collector reaches next
  to none of it, and it has no state beyond the value being built: there is nothing in it
  for a state machine to say.
* In `Startup`, slice headers that are torn between two appends.

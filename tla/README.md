# Formal models of the Dynatrace distribution of the OpenTelemetry Collector

The collector of this repository is assembled from upstream components listed
in `manifest.yaml`. The code that is its own is the EEC configuration provider,
which ships with the collector, and the tools its developers work with: the data
ingest tool, the changelog generator and the helpers of the tests. This
directory holds TLA+ models of that code, TLC configurations that check them on
small instances, and TLAPS proofs for every instance. Source paths are relative
to `internal/` unless they say otherwise.

## Inventory

| Component | State it keeps | Operations | Interacts through |
|---|---|---|---|
| EEC provider (`confmap/provider/eecprovider`) | `newConfig`, `watcherCancelMap`, `shutdown` channel; per watcher: digest, header flag, request in flight | `Retrieve`, `Shutdown`, the loop of `watchForChanges` | calls from the collector's resolver, its `WatcherFunc` callback, HTTP requests to EEC servers |
| Ingest tool: receivers and commands (`data-ingest-cli/receiver`, `commands`, `main.go`) | gRPC or HTTP server, `receivedDataChan`, output file | `Start`, `Stop`, one export handler per signal, `Do` | the collector under test on both ends, an unbuffered channel, a file |
| Ingest tool: senders (`data-ingest-cli/sender`) | a connection (syslog), otherwise none | `Connect`, `Write`, `Send*` | gRPC, TCP, UDP, HTTP, fluent forward |
| Changelog generator (`changelog-generator`) | entries read so far, `CHANGELOG.md` | `run`: fetch, filter, generate, fill | GitHub REST and GraphQL with one retry, files |
| Workload renderer (`renderworkloads`) | none | render charts and manifests | Helm, files |
| Sinks and Kubernetes helpers (`testcommon/oteltest`, `k8stest`) | sinks with what they received | start several, shut them down, wait for data with a timeout, merge configurations | OTLP receivers on fixed or found ports, the Kubernetes API |
| Port allocation, collector set-up, comparison (`testcommon/testutil`) | a child process | `GetAvailablePort`, `StartCollector`, `WaitForListener`, `DeduplicateResources` and the like | the operating system, the collector under test |
| End-to-end tests (`testbed/integration`) | steps done, defers and cleanups, received telemetry | the scripts of the tests, validators | all of the above, the upstream testbed |
| Load scenarios (`testbed/load`) | none | hand numbers to the upstream testbed | upstream testbed |
| `mockeec` | none | serve files | HTTP |
| Assembly, packaging, release notification | none | build and install steps | workflows, systemd |

Which behaviours are hard, and what correctness means:

* **EEC provider.** The resolver's thread and one goroutine per polled URL share
  two maps, of which one is locked. Watchers end by themselves after they have
  reported a change and rely on the next `Retrieve` to be replaced; `Retrieve`
  cancels predecessors that may be in the middle of a request, a store or the
  callback. The host may resolve at any time, fail, cancel its context or shut
  down. Correct means: at most one live watcher per URL; no polled URL is left
  unwatched; what a watcher found is picked up and never attributed to another
  URL; the host is told of changes only, and ends up with what the server has;
  goroutines end after `Shutdown`.
* **Ingest tool.** Exports arrive concurrently; every handler writes the same
  file and then blocks in a channel from which `Stop` receives once, while a
  timer races with it. Correct means: an answered export was handled, data that
  ended the wait is in the file, and the tool terminates.
* **Senders.** A connection may break in the middle of a write, and a write to a
  broken one may succeed. Correct means: a success says that the whole input was
  handed over in one piece, how often a line arrives at most, and that the tool
  comes to its `Stop` whichever way the sender ends.
* **Changelog generator.** Sequential, with many ways to stop part of the way;
  entries come in an arbitrary order. Correct means: denylist before manifest
  before allowlist, nothing written unless everything was read, the scaffold
  filled or removed and left alone by a second run.
* **End-to-end tests.** Ports are free when found and perhaps not when used; a
  collector batches, repeats and delivers when it likes; that of an earlier test may
  still be running; any step may fail, and what has been started must then be stopped
  in the right order by defers and cleanups. Correct means: a test ends; it leaves
  nothing behind; it passes only for data that its own collector has delivered; and
  the arrangement in which data arrive does not decide.

`PROJECT.json` lists the main hazards, each with its line and the properties that
watch it. Those that no property watches are under [Not modelled](#not-modelled).

## Modules

    ConfigFeed          what a configuration provider promises, without its means
    EECProvider         the provider, its host and the EEC servers; implements ConfigFeed
    EECProvider_proofs  theorems about EECProvider
    MCEECProvider       instances of EECProvider for TLC
    IngestTool          a command of the ingest tool with its receiver
    IngestCommand       a whole run of the tool: New, with or without a receiver, the
                        senders; extends IngestTool and implements it
    IngestCommand_proofs   theorems about IngestTool and IngestCommand
    MCIngestTool, MCIngestCommand   instances for TLC
    Selections          the elements that stay when others are dropped (pure)
    Selections_proofs   lemmas about them, and the induction the proofs below need
    Changelog           what a release reports, and the lines of CHANGELOG.md (pure)
    Changelog_proofs    lemmas about the functions of Changelog
    ChangelogRun        runs of the changelog generator; uses Changelog
    ChangelogRun_proofs theorems about ChangelogRun
    MCChangelogRun      instances of ChangelogRun for TLC
    Telemetry           what is done to metrics before they are compared (pure)
    Telemetry_proofs    theorems about Telemetry
    CollectorConfig     the merging of overlays into a configuration (pure)
    IntegrationTest     an end-to-end test and its surroundings; uses Telemetry
    IntegrationTest_proofs   theorems about IntegrationTest
    ConfiguredTest      IntegrationTest with the configuration of its collector
    ConfiguredTest_proofs   theorems about CollectorConfig and ConfiguredTest
    MCIntegrationTest   instances of ConfiguredTest for TLC

### EECProvider

A configuration body is the number of its version; `Sha256` maps versions to
digests, so that a revert is two versions with one digest, and `Malformed` names
the versions that are not YAML. URLs are the keys of both maps, after the
fragment has been removed. A goroutine is a record with its program counter, its
`configHash`, its local `body`, the header flag it will send next and whether its
cancel function has been called. Identities are reused once a goroutine has
ended, so that two or three of them stand for as many as the host ever starts; a
pool that is too small delays `StartWatcher` in the model, which the runs cover by
having more identities than a URL can have unfinished watchers at a time in the
cases of interest (one live, one cancelled in a request or a callback).

| Code | Action |
|---|---|
| `Retrieve`, options and client (`provider.go:119-150`) | `RetrieveReject`, `RetrieveBegin` |
| lookup in `newConfig` (`166-170`) | `RetrieveCached`, `RetrieveRequest` |
| first request (`171-185`, `251-271`) | `RetrieveAnswer`, `RetrieveError` |
| cancel, register and start the watcher (`187-236`) | `WatchUrl`, `StartWatcher` |
| parse and return (`238`, `yaml.go`) | `RetrieveReturn`, `RetrieveMalformed` |
| `case <-ticker.C` (`watcher.go:34-49`) | `WatcherPoll`, then `WatcherUnchanged`, `WatcherChanged` or `WatcherError` |
| the `watcherFunc` closure (`provider.go:228-231`) | `WatcherStore`, `WatcherNotify` |
| `case <-w.shutdown`, `case <-ctx.Done()` | `WatcherStop` |
| `Shutdown` | `Shutdown` |
| a fatal error of the runtime on the unlocked map | `MapFault` |

The lookup, the request and the registration are separate steps because other
goroutines run between them. Registration, start, parsing and return are one
step: the rest of `Retrieve` reads nothing that other goroutines write, and the
body it works on is a local variable. The host is the collector's resolver as
the provider, its comments and its tests describe it: one thread, which asks for
all URLs in a resolution, runs with them when all have succeeded, takes change
events from a channel of capacity `MailboxCap`, and calls `Shutdown` once. With
`ReResolves` it may also resolve at any other time, as the comment at
`provider.go:191-194` says upstream does.

`ConfigFeed` is the abstract specification: per URL a server publishes, the host
adopts something that was published, and unless the host has given up it adopts
the current body in the end. `running` and `served` map to themselves, `halted`
to `HostHalted`. The ordered variant also forbids going back to an older body.

### IngestTool

One command with a receiver: the main goroutine goes through `Start`, the send,
the deferred `Stop` and the exit; a handler per export request goes through
`WriteToFile`, its answer and its signal. `receiverType` and `command` are flags
and get any value in `Init`. A signal is a rendezvous (`StopReceives`): the
channel is unbuffered. The output file is the sequence of the requests whose
bytes are in it; `OpenFile` truncates, `WriteData` overwrites from the start, as
two descriptors on one file do. The gRPC handlers signal before they answer, the
HTTP handlers after (`AfterWrite`, `Respond`); the gRPC `Stop` waits for its
handlers (`Drained`), the HTTP `Stop` does not (`AfterWait`). `log.Fatalln` in a
handler is the state `died`. With `Synchronous`, the collector under test answers
the sender only when its own exports have been answered; it may give up on an
export at any time (`GiveUp`), which does not stop the handler.

### IngestCommand

`IngestTool` has a receiver always and a sender that is one step. `IngestCommand`
adds what comes before and inside: which command and sender the flags select
(`sender`), whether they ask for a receiver (`receives`), and the connection. The
input file is `Lines` lines. `wire` lists the writes: where they start, how much the
connection has accepted and how much arrives, which for a broken connection is any
prefix and for a datagram all or nothing.

| Code | Action |
|---|---|
| `main`, `New` of every command | `NewSucceeds`, `NewFails` |
| `Do`, up to the sender | `StartReceiver` (the `Start` of `IngestTool`), `StartAlone` |
| reading and decoding the input, unknown signal types, versions, protocols | `InputFails` |
| `SendTraces` and its kin of otlp and zipkin | `CallReturns`, `CallFails` |
| `dial`, the dials of statsd | `Dial`, `DialFails` |
| `Write` of syslog (`sender.go:75-89`), the writes of statsd and fluent | `WriteReturns`, `WriteError` |
| `Do` returns, with its deferred `Stop` | `SendOver` |
| `ListenAndServe` of prometheus returns | `ScrapeEnds` |
| a connection ends | `Break` |

The syslog sender is connected in `New`, statsd dials for each send, fluent connects
in `New` and its library repeats writes. A run with neither `-send` nor `-receive`
prints a line and exits; it is not in the model. `ToolSpec` states that all of this
implements `IngestTool` when the collector need not answer synchronously: a run
without a receiver stutters there.

### Changelog, ChangelogRun

`Changelog` holds the functions without state. A component is the sequence of the
segments of its path, so that the two ways in which `matchPattern` compares are
prefixes of sequences. A version is its rank in the order of semver, and
`FirstMajor` the lowest rank that is not v0. The changelog is a sequence of lines:
blank, text, a marker, a placeholder (`Slot`), or what has replaced a placeholder
(`Filled`), which holds the entries or versions it was rendered from in order. A
replacement that looks for newlines around a marker is one that looks at the line
above. `Scaffold` is the template of `src/.chloggen/summary.tmpl`.

`ChangelogRun` is the process. Every request is a step of its own, because a pull
request may be pushed to between two of them (`Push`; a revision is the head and
base commit together). A run ends in `Finish`, which forgets what the process had
collected; only the changelog and the world outside remain. `make chlog-update` may
put another scaffold on top between runs.

| Code | Action |
|---|---|
| flags, and the branch without URLs (`main.go:13-38`) | `Run`, `RemoveSection` |
| `ParseChloggenConfig`, one step per URL | `FetchIndex` |
| `ParseManifest`, `ParseConfig` | `ReadFiles`, `Components` |
| `FetchPRInfo` (`github.go:66-116`) | `PullRead`, `VersionsRead` |
| `FetchChloggenEntries` | `TreeRead`, which chooses the order of the map |
| a 403 or 429 in `do` (`github.go:330-334`) | `Retry` |
| filter, generate, fill (`main.go:86-108`) | `Fill`, `DryRun` |
| `os.WriteFile` | `Write`, or `WriteTorn` after the truncation |
| every return of an error | `Fails` |

`Fails` is possible wherever an error is: any request or file may fail. That a URL
is no pull request, that a version is malformed, that there is no `.chloggen`
directory or no entry at all leaves `Fails` as the only step. The index may be empty
after `FetchIndex` whatever the main branches hold, because the status of the answer
is not looked at.

### Telemetry, CollectorConfig

`Telemetry` translates `ReplaceAttrValsWithStar` and `DeduplicateResources` with what
they call. Metrics are sequences of resources, scopes, metrics and points; attributes
are functions. The four levels of merging have one shape (`Merged`: keep the first of
each key, move the parts of the others into it, drop what has no parts), of which
points are the last (`Firsts`). What stays is said with `Without` of `Selections`, as in
`Changelog`: both programs remove in place, in one pass. Attributes are told apart by
`canonicalAttrsKey`, a text: the keys in order with `=` and `,` around the characters of the
values (`KeyOrder`, `AsString`), nothing escaped and no type kept, so that different
attributes may have one key. `KeysTellApart` says that those which arrive in a test do not.
Metrics of one name have one type. `AssertMetrics` stands for `pmetricassert`, external.

`CollectorConfig` translates `mergeNodes` and `GetCollectorConfig`. A YAML node is a
leaf, which stands for a scalar or a sequence, or a mapping, which has a node or `Absent`
for every key. The order of keys is left out: the loop of `mergeNodes` over the keys of
the overlay treats each on its own, and YAML attaches no meaning to it. What
`mergeNodes` does in place is said by what it returns; `GetCollectorConfig` drops the
result, so that an overlay that is no mapping has no effect. The reference definition is
`Overlaid`, which says what the comment on the overlays promises ("applied in order; later
ones win", `collector.go:23`), by paths and without recursion over two trees: a leaf stays
unless a later overlay has one at, above or below its path. A mapping without keys is a leaf
too. The code keeps the promise for overlays whose mappings all have keys, and loses nothing
for any mappings (`OverlaysWin`); an empty mapping laid over a filled one, and an overlay that
is no mapping, have no effect (`LastOverlayWins` fails).
`ConfiguredTest` makes the config in the step in which a test in a cluster reads its
overlays (`Configure`), and forgets it in the step that hands it to the collector.

### IntegrationTest, ConfiguredTest

A test is a script of steps (`Script`), one for each way in which the tests are put
together: `local` (a collector as child process, as in `kafka` for its metrics),
`broker` (data sent through a collector and read back destructively), `cluster`
(`k8scluster`, `k8scombined`, `hostmetrics`), `scale` (`prometheus-large-scale`) and
`filter` (`FilteringScenario`). The scripts leave out steps that keep no state. One
collector and one signal stand for several, and one payload for the number that a
test waits for. A failing step is fatal (`Fatal`, as `require`) or reported
(`Reported`, as `assert` and `t.Error`); then `Run` takes defers, and after them
cleanups, from the back. `holder` says who listens on a port.

| Code | Action |
|---|---|
| `GetAvailablePort`, `availablePort` | `GetAvailablePort`, `NoPort` |
| `LoadConfig`, `Replace`; `GetCollectorConfig` | `PrepareConfig`, with `Configure` |
| `StartUpSinks`, `StartReceiver`, `StartBackend` | `StartSink`, one step per sink, `StartSinkFails` |
| `StartCollector`, `StartAgent` | `StartCollector`, `StartCollectorFails`, `WaitForListener`, `NothingListens` |
| `WaitForHealthCheck` | `WaitForHealthCheck` |
| namespace, objects, Helm set-up | `CreateNamespace`, `CreateCollectorObjects`, `RegisterTeardown` |
| the clients of `oteltest`; the data provider of the testbed | `Send`; `Load` |
| `WaitForMetrics` and its kin | `WaitForMetrics` |
| a tick of `EventuallyWithT` | `Poll`, or `PollFirst` and `PollSecond` or `PollPanics` where `AllMetrics` is read twice |
| its timeout | `PollTimeout` |
| `WaitForN`, `ValidateData` | `WaitForN`, `Validate` |
| defers and cleanups | `ShutDownSinks`, `StopCollector`, `StopCase`, `DeleteFromCluster` |

Around it: `Take` and `Leave` (other programs), `CollectorListens` and `Deliver` (the
collector under test), `Terminate`, `StrayDelivers` and `StrayEnds` (collectors that
a cluster has been asked to delete).

## Runs

| Run | Instance | Shows |
|---|---|---|
| `eec_resolve` | 2 polled URLs, 3 goroutines, 3 versions of which the third reverts to the first and the second is malformed, eager host | `TypeOK`, `OnlyServedBodies`, `OneLiveWatcher`, `WatcherTracksRunning`, `NeverUnwatched`, `NoForgottenConfig` |
| `eec_single` | 1 polled and 1 unpolled URL, 4 versions with a revert and a malformed last one, host that resolves on events only, fairness | `NoSpuriousReload`, `ReloadsUseCache`, `OrderedFeed` |
| `eec_eager` | 1 polled URL, 2 goroutines, 2 versions, eager host, fairness | `Feed`, `ShutdownStopsWatchers` |
| `ingest` | every command and sender, both receivers or none, 2 lines of input, 3 exports: lengths 1 and 2, and one that cannot be decoded; fairness | `TypeOK`, `AnsweredIsOnDisk`, `GracefulFile`, `SoleDelivery`, `SentWhole`, `LinesAtMostTwice`, `StopEnds`, `SendEnds`, `ToolSpec` |
| `changelog` | 2 pull requests with 2 revisions each and one URL that is none, 2 runs, 2 scaffolds, fairness | `TypeOK`, `WrittenIsComplete`, `VersionsInOrder`, `OnlyCompleteRunsWrite`, `HistoryIsKept`, `NoMarkerIsLeft`, `FinishedStays`, `RunEnds` |
| `integration` | 5 kinds of tests, 3 ports to find, 2 fixed sinks, 3 items of which 2 have equal points, a stray collector, 1 port taken by others at a time, 4 overlays with 7 keys and mappings nested up to 4 deep, of which a test lays 2; attributes with different keys, one with a separator in its value; fairness | `TypeOK`, `CleanEnd`, `CollectorsStopFirst`, `NormalForm`, `PassedDelivered`, `OverlaysWin`, `TestEnds` |

Deadlock is not checked: the collector may have been shut down or have crashed,
both tools terminate, and so does a test.

**Bounds.** `MaxVersion`, the number of URLs, goroutines and requests, and
`MailboxCap`. Two URLs are what it takes to mix bodies up and to have a store race
with the lookup of another URL; three versions what it takes to revert; the
interesting orders of a URL need two goroutines, a cancelled and a live one. A
mailbox of one makes the callback block. `eec_cancelled` has three different versions: one
that runs, one that a cancelled watcher holds and one that replaces both. Goroutines are symmetric in the
safety run. Two valid exports of different length are what it takes to mix files,
and the third kills or is skipped. The liveness runs of the provider use one
polled URL; with two, checking exceeds what is practical.

For the changelog: `MaxRuns` and `MaxReleases`. Two runs show a run on what another
has left when it ended well or failed; a torn changelog is the end of a history
(`WriteTorn`), so that runs after it are not modelled. Two scaffolds are what it takes to confuse markers. The
two revisions of each pull request differ in versions and entries, so that a
mixture shows; the commits have files that are no entries, entries that are not
user-facing, and components that are in the manifest, allowed, denied, or neither.
One revision has no valid version. The arguments name one or both pull requests, in
either order, or one of them twice.

For the senders: `Lines` and `FluentAttempts`. Two lines are what it takes to accept
a part and to leave a remainder; the library of fluent repeats more often than twice,
which only makes the bound of `LinesAtMostTwice` larger.

For the tests: `MaxPayloads` and `MaxTaken`. Two payloads are what it takes to split
items, to repeat a batch, to have a tick between, and to mix in those of a stray
collector. Three ports are found by at most three calls, so that they may be equal,
different, or taken; a test of kind `local` can meet the lack of one. Two sinks fail
half-way. Three items, of which two differ only in an ignored attribute, can be
arranged so that duplicates are adjacent or not. For the configs:
`Keys`, `Values`, `MaxDepth` and `MaxOverlays`. Up to two overlays of four: one that goes
three levels deep and has an empty mapping where the example has a filled one, as the local
overlay of `k8scombined` has, one that replaces a mapping by a leaf, one that restores it
and adds a key, and one that is no mapping. `integration_overlay` lays the first alone.

**Fairness.** The host's thread, ready goroutines, tickers and timers make
progress (weak fairness of `Retrieve`, `HostReload`, `Watch`, and of the steps of
the tool). Nothing forces the host to resolve again, to cancel or to shut down,
a server to publish, a collector to export, a send to fail, or the prometheus
endpoint to end. Strong fairness is assumed for three steps of a watcher:
`WatcherStop`, because `select` picks at random among ready cases, so that a stop
case that is ready each time is picked in the end; `WatcherNotify`, because
senders blocked on a channel are served in order; `WatcherChanged`, because an
EEC that never answers any poll again is not one the provider can follow. A run of
the changelog generator takes its steps (weak fairness of `RunStep`): both HTTP
clients give up after 30 seconds and `retryDelay` is at most as long. Nothing forces
an answer to be usable, or anybody to run the tool or to push. A dial and a write of a
sender return. A test takes its steps (weak fairness of `Progress`), because each of
its waits has a timeout, and polls time out (`PollTimeout`); nothing forces a
collector to listen, to deliver or to end. `Progress` contains both outcomes of a step,
so that none of them is forced.

**What the runs found.** Six runs check a claim of the repository and end in a
counterexample; `findings` in `PROJECT.json` quotes each claim.

* `eec_cancelled`: a watcher that is cancelled because its URL is requested again
  may already hold an answer. A host runs version 1 and resolves again; the old watcher
  gets version 2, the `Retrieve` version 3, cancels the watcher, and the host runs
  version 3. Then the cancelled watcher stores version 2 and notifies the host, whose
  reload takes it from the cache: it goes back. It recovers, because the watcher of
  that reload sees the difference: `Feed` holds, the ordered variant only for a host
  that resolves on events.
* `eec_map_race`: `newConfig` has no lock. With two polled URLs the store of one
  watcher overlaps the lookup for the other URL.
* `ingest_hang`: an export in progress when the timeout expires blocks a handler
  for ever, and `GracefulStop` with it. `StopEnds` shows that this is the only
  way to hang.
* `ingest_torn`: a later export truncates or mixes the file. `SoleDelivery` shows
  that nothing else does.
* `changelog_manifest`: an error page instead of the list of upstream components
  empties the index, and the run reports success without the entries of components
  that are in the manifest.
* `integration_overlay`: `headers: {}` of the overlay `local.yaml` of `k8scombined` does not
  take the Authorization header of the example away, although later overlays are to win.

## Proofs

The theorems hold for all values of the constants that satisfy the assumptions the
modules declare, each of which TLC evaluates on the instance of a run:

* provider: URLs exist and the polled ones are among them, `MaxVersion` and
  `MailboxCap` are positive, `Sha256` gives digests and does not confuse well-formed
  with malformed bodies;
* ingest tool: lengths are positive, `None` is none of the other values;
* changelog: `PullsAssumption` (a pull request has revisions, a module set has a version,
  something malformed or nothing, a tree has finitely many files), `IndexAssumption` (the
  lists of upstream components are sequences of components that have a normalized form),
  `NoneAssumption`, and arguments are sequences of URLs;
* tests: `PortsAssumption` (found and fixed ports are different and none of them is
  `None`); `DataAssumption`, of which the part that matters is that what an item delivers
  is built like metrics; `GoldenAssumption`: the file of expected metrics has a star for
  every attribute that is ignored. The comment `To regenerate` above the comparisons says
  how the file comes about (`prometheus-large-scale/e2e_test.go:167`), and the files of the
  other tests have the stars too (`k8scluster/testdata/e2e/expected.assert.yaml`);
  `KeyOrderAssumption` (keys are sorted, each once) and `TextAssumption` (the keys that occur
  are among them and the values have a text);
* configs: `DepthAssumption` (there is a bound on nesting, any number), `OverlaysAssumption`:
  the example and the overlays are nodes, and the example is a mapping, as a collector's
  configuration is. An overlay may be anything.

Three theorems about the provider have a hypothesis of their own, `EventDriven`: one
polled URL and a host that does not resolve on its own account. The run that checks these
properties is such an instance, and `eec_cancelled` shows another host going back.
`PassingIsEarned` has one for the tests in a cluster, `StrayIsForeign`: the deleted
collector of an earlier test delivers something that the file does not hold. Without it
the comparison could be satisfied by that collector alone, since all these tests listen
on the same ports and nothing in the data says whose they are. So the theorem does not
speak of a collector that an earlier run of the same test has left.
`ComparisonDisregardsOrder`, and `PassingIsEarned` for the tests with a file, have the
hypothesis `KeysTellApart`: attributes that differ have different texts. Without it the code
may merge two resources or drop a point, and the comparison is of something else. TLC
evaluates both hypotheses on the instance of `integration`.

**Provider** (`EECProvider_proofs`). The type invariant is strengthened by `Shape` (a
thread inside `Retrieve` holds a URL that is still to do and, past the request, a
version; a watcher that runs has a URL and a digest). On that rest:

* `AtMostOneLiveWatcher`. `OneLiveWatcher` alone is not inductive: an identity that
  is reused could still be registered for another URL. `Registered` adds that a
  registered goroutine that runs belongs to the URL it is registered for.
* `BodiesWereServed`, by a case split over the steps that move a body.
* `LiveWatcherTracksRunning`, on top of `Registered` and `OneLiveWatcher`.
* `ServingIsWatched`, on top of `Registered`: `ResolvedAreWatched` says of a resolution
  in progress what `NeverUnwatched` says of a serving host: the URLs already done have a
  live watcher or an event is due.
* `CachedIsPickedUp`, strengthened by `CachedIsAnnounced`.
* `ImplementsFeed`: initial states map to initial states, and each step to a step
  of `ConfigFeed` or a stutter; only `RetrieveReturn` adopts, and `BodiesWereServed`
  supplies the guard of `Adopt`.
* `EventsAnnounceChanges`, `ReloadsAskNoServer`, `ImplementsOrderedFeed` under
  `EventDriven`. Their invariant `InTurn` says that `Retrieve`, the one watcher and the
  mailbox take turns (`Turns`), that what a watcher has found or announced differs from
  what the host runs (`Changes`) and waits in the cache until it is picked up (`Cache`),
  and that it is not older (`Forward`). A host that has failed or stopped is past all
  that (`GivenUp`).

**Ingest tool** (`IngestCommand_proofs`). `Moves` and `OtherMoves`
say what any step can do to one request, to the main goroutine, to the token and to the
file. From these follow `AnswersFollowWrites` (by `InOrder`: the place of a handler tells
what became of its data), `GracefulStopWaitsForWrites` (by `Quiet`) and
`DeliveredDataIsStored` (by `FileOfSole`: as long as a request is the only one to have
touched the file, the file follows its handler).

`CommandImplementsTool` proves `ToolSpec`: every step of a whole run is a step of
`IngestTool` or a stutter, by `CommandQuiet`: a run without a receiver never has a request
that has begun. The four `Command` theorems carry the invariants of the tool over to whole
runs (`Stored`). `SuccessIsSentWhole` and `LinesAreNotMultiplied` rest on `Attempted`: as
long as a sender goes on it has attempts left and all of its writes have failed; a write
that succeeds is the last, is of the whole input, and ends the sending.

**Changelog** (`Changelog_proofs`, `ChangelogRun_proofs`). Induction over lines is done
with `Least` of `Selections_proofs`: suppose a claim about the prefixes of a sequence fails, take
the least length for which it does, and unfold the recursive function once. That gives
`Selection`: what `Without` returns is, position by position, the lines that stay, in
order; from then on the proofs argue with positions and no longer with recursion.

* `NothingIsWrittenEarly`: `Progress` says at every place of the run how many pull
  requests have been read, and `WhoWrites` that no other step of a run touches the file.
* `RunTypeCorrect`, with what is known of the pull request under way (`Reading`), the
  index (`Indexing`) and the entries (`Collecting`).
* `RunningAgainIsHarmless`: without markers, each of the functions that
  `FillUpstreamPlaceholders` is made of returns its argument.
* `OneRunFinishes`. That one run removes all markers depends on the shape of the whole
  file, `Tidy`: every placeholder and every end has a start above it and no end in
  between (`Opened`), every start has an end below it (`Closed`), and placeholders
  and ends stand below a blank line (`Spaced`), which is what the replacements look for;
  the first two lines are the title. `Lines` says that
  the file is tidy unless a write was torn, and that what is about to be written is what
  `FillUpstreamPlaceholders` makes of the file. Two lemmas make it inductive:
  `RemovedIsTidy`, which says that cutting out a section leaves the others intact, and
  `ReleasedIsTidy`, which says that `make chlog-update` may put a scaffold between the
  title and the rest.
* `HistoryStays` rests on positions too. A line that lasts and a line that goes are
  never confused because nothing lasts between a start and the next end (`Enclosed`,
  which `Kept` says of the file): so the section from the first start to the first end
  holds no line of the distribution. `SameLastings` compares what lasts in two files by a
  map of positions (`Carries`), for the three ways in which lines change: in place, by
  `Without`, and by cutting out a part. `SameEnd` says that the last lines are the same;
  below the last marker nothing is dropped (`MarkersDropped`, `SameEndRest`).
* `ReportIsComplete` and `VersionsAreInOrder` count. `Collected` says that `entries` holds
  each entry as often as there are arguments whose revision, the one that was read, has it
  (`Holding`); it is inductive only together with `Reading`, by which the version that goes
  into an entry is that of the revision whose tree is read. `TimesConcat`, `TimesKept` and
  `TimesDropped` of `Selections_proofs` carry a count through the functions that make the
  sections, which gives `SectionsReport`; `Origin` says that what is written was made of
  these sections, `NewLinesAreFilled` that a line that is new is one of them. That none is
  lost needs the shape of the file once more: every scaffold has its two placeholders below
  its start marker (`Furnished`). For the versions `HeardVersions` turns what the entries
  carry into what the pull requests hold, and `ReleasedVersions` says what the sorted list is.

**Tests** (`IntegrationTest_proofs`). `Endings` relates, for each kind of test, the step
of the script to what is up and to what is left in `defers` and `cleanups`: whatever has
been started is there, in the order in which it was started, so that taking from the back
stops collectors before sinks. `TestCleansUp` and
`SinksOutliveCollectors` follow. The second says for `local` and `broker` that the sink
listens as long as the collector runs, whichever step fails. In a cluster it says so until
the collector has been asked to end: one that is still terminating runs and may deliver
after its sink has gone. It makes exceptions there for objects of which some could not be
created or deleted, and for a test binary that has died of a panic; it does not speak of
`scale`, whose sinks are deferred while its teardown is a cleanup, nor of `filter`.

`Deduplicated` (`Telemetry_proofs`) says what `DeduplicateResources` makes of metrics of any
shape: each point in one place, with attributes that the metrics had, and the same points
as far as the keys of attributes tell them apart (`KeyedPoints`); all the same points if they
tell all apart (`TellsApart`). Its proof has a lemma for each of the four
levels (`PointsDeduplicated` to `ResourcesDeduplicated`), which says that the level is well
formed, that its keys are distinct, and that it `Has` the points it had, up to their keys (`SameKey`); all rest on
three lemmas about `Merged` with functions in place of its operators (`PartsAreAll`,
`FirstsAreAll`, `KeptAreAll`), and these on `FlattenElements` and `FirstOfEachKey` of
`Selections_proofs`. `StarringPoints` and `StarringAttributes` say what
`ReplaceAttrValsWithStar` does, so that the attributes compared are those of `KeysTellApart`
(`AttributesThatArrive`). With these, `ComparedWithFile` turns a comparison into a statement about two sets of points, which is
`ComparisonDisregardsOrder`.

`PassingIsEarned` adds two invariants: `Provenance`, by which what a sink or the broker
holds comes from the test's own collector or a stray one, and `Found`, by which a step of
the script that waits for data, or compares them, has been passed only with these data.

**Configs** (`ConfiguredTest_proofs`). The theorems about tests are about
`IntegrationTest!Spec`; the run checks the same properties of `ConfiguredTest`.
`ConfiguredIsTest` shows that its specification implies that of `IntegrationTest`, and
`ConfiguredTestHolds` carries the theorems over.

`LaterOverlaysWin` is about two trees at once. The definitions are recursive functions, of
which it has to be shown first that they exist. `NodesUnfold` does this for the nodes by
their depth. `VisitsEnd` does it for `mergeNodes` and `Leaves`: a function is `Below` a depth
if it satisfies the recursion there, two such functions agree (`VisitAgrees`), and each
extends to the next depth; `mergeNodesUnfolds` and `LeavesUnfold` are what follows. All of
these, and the main lemma, are inductions over a set of depths (`StepByStep`). `Said` is what
a tree says: its leaves without empty mappings. Merging is not quite what `Overlaid` says, so
the proof has a relation of its own, `Displaces`: as `Overrides`, but an empty mapping
displaces no mapping. `MergedSays` shows of two mappings that the
merged one says what the overlay says and what it spares (`Spared`) of the base, key by key:
where only one has the key there is nothing to merge, where both have it and are mappings it
is the induction hypothesis, and where one is a leaf the overlay takes its place
(`ReplacedSays`). Paths are compared by positions (`PrefixByPosition`), so that a step down a
key is the same comparison of shorter paths (`PrefixOfBelow`). `ConfigSays` takes this from
one overlay to any number: `SaidGrows` adds one document, of which everything stays.
`OverlaidSays` compares this with `Overlaid`: what overrides is more than what displaces, and
the same if no overlay has an empty mapping.
The invariant `Made` says that the config is what `GetCollectorConfig` makes of the example
and the overlays applied so far, which is all that `OverlaysWin` needs of the steps.

**Only model-checked.**

* Liveness: `Feed`, the liveness of `OrderedFeed`, `ShutdownStopsWatchers`, `StopEnds`,
  `SendEnds`, `RunEnds`, `TestEnds`. Fairness and `ENABLED` are beyond the prover.

## Not modelled

* Durations: the refresh interval, the three-second request timeout and the
  timeout of `Stop` are steps that may happen at any time, as is the second attempt of
  a request to GitHub. That the `timeout`
  option has no effect, and that a negative interval panics, is listed as a
  hazard and not checked.
* TLS, tokens and certificates: one rejecting step.
* A `Shutdown` that overlaps `Retrieve`, and a second one: the host does neither.
* The strings of the changelog generator: how a component is derived from a gomod
  line (`gomodToComponentID`; constants `Manifest` and `Normalized`) and the Markdown
  of entries and links. Upstream component lists whose spelling changes between the
  list and the entries.
* What a flag of the ingest tool is refused for; a run with neither `-send` nor
  `-receive`; the content of payloads.
* Of the test helpers: the scans for attributes and metric names, the comparison of
  logs and traces with `DeduplicateLogs` and `DeduplicateTraces` and `MergeResources`,
  the printing helpers, `PerformOperationOnYAMLFiles`, `WaitForDeploymentPods`, the
  metrics server, port ranges that Windows reserves, and the text of the generated
  configurations.
* `renderworkloads`: one sequential walk over files that stops at the first error,
  without state, retries or sharing; every property of it is about text.
* The other components marked `not_modelled` in `PROJECT.json`, with the reasons there.

Hazards met in the code that no property watches, beside those in `PROJECT.json`:

* `eecprovider/provider.go:246`: a second `Shutdown` closes a closed channel.
* `eecprovider/provider.go:172`: the `timeout` option has no effect on the requests.
* `eecprovider/watcher.go:25`: a negative interval makes `NewTicker` panic.
* `eecprovider/provider.go:138`: URIs that differ in the fragment share a key.
* `data-ingest-cli/receiver/otlphttp/otlphttp.go:72`: `log.Fatalln` right after
  `http.Error` ends the process before the status is sent.
* `data-ingest-cli/sender/syslog/sender.go:96`: a write to a connection that has just
  been closed succeeds, and nothing arrives. No document promises more, and `SentWhole`
  speaks of what was handed over.
* `changelog-generator/manifest.go:20`: the list of components is of the main branches,
  the entries of a base commit; `changelog.go:50`: every pending scaffold is filled;
  `changelog.go:59`: `os.WriteFile` truncates before it writes.
* `eecprovider/provider.go:205`: the header that announces a change is true on the first
  poll of every watcher, also of the first one after start-up.
* `testcommon/testutil/testutil.go:804`: metrics of one name but two types panic or lose
  points when they are merged.
* `testcommon/k8stest/collector.go:62`: an overlay of comments has no content to index.
* `testcommon/k8stest/collector.go:159`: this wrapper registers the deletion of a
  collector as a cleanup, after sinks that are deferred; the tests call the upstream
  function and use defers.

## Plan

1. Options of the provider: parsing as a definition, the fragment that is not part
   of the key, and the header of the first request.

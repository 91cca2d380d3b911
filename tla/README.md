# A TLA+ model of lts

lts is a load generator for object stores, grown out of MinIO's warp.  One
process runs a benchmark on its own, or a *coordinator* drives a set of
*clients* through the same benchmark and merges what they measured.  The value
of the program is the number it prints, so most of what is stated here is about
the operations behind that number: none is lost, duplicated or reordered, none
is measured in the wrong stage, and the machinery that collects them neither
hangs nor panics.  Besides, the program deletes objects: it has to delete what
it uploaded and nothing else.

The source is referred to by its path under `src/`.

## 1. Inventory

| component | source | state | operations | hard about it |
|---|---|---|---|---|
| operation collector | `pkg/bench/ops.go` (`Collector`) | channel `rcv`, slice `ops`, one drain goroutine | `NewCollector`, `Receiver() <-`, `Close`, `AutoTerm` | many senders, a bounded channel, a close that must come after every send |
| benchmarks | `pkg/bench/{put,get,delete,list,stat,retention,select,snowball,benchmark}.go` | bucket, slice of objects, worker threads | `Prepare`, `Start`, `Cleanup`, `CreateEmptyBucket`, `DeleteAllInBucket` | failure half-way through `Prepare`, threads sharing a slice, an end that races with the start |
| local runner | `cli/benchmark.go` (`runBench`), `workflow/run.go` | start channel, context with deadline | prepare, schedule, measure, clean up | three timers that nothing orders |
| benchmark client | `cli/benchclient.go`, `cli/benchmark.go` (`clientBenchmark`, `runClientBenchmark`) | `connected`, `activeBenchmark`, its stages, channels, error and results | requests `benchmark`, `start_stage`, `stage_status`, `send_ops`, `disconnect` | reconnections, repeated requests, handlers that outlive their connection, values read under a lock and used after it |
| coordinator | `cli/benchserver.go` | one connection per client, stage | `connect`, `roundTrip`, `startStageAll`, `waitForStage`, `downloadOps`, `disconnect`, `closeAll` | one goroutine per client, clients that fail or vanish in any stage |
| merge and analysis of operations | `pkg/bench/{ops,analyze,compare,csv}.go` | none (pure) | `OffsetThreads`, `isMixed`, `ActiveTimeRange`, `Segment`, `Median`, the CSV form | boundaries: empty input, one operation, operations across a boundary |
| aggregation, reports | `pkg/aggregate`, `cli/analyze.go` | none (pure) | statistics over segments, per host, per size | the same boundaries; what is counted where |
| mixed and versioned pools | `pkg/bench/{mixed,versioned}.go` | list of operations, shared pool of objects | take, read, give back, delete | threads that delete what others read, an empty pool, requests that fail half-way |
| multipart, s3zip | `pkg/bench/{multipart,s3zip}.go` | parts of one object, one archive | as get | not modelled, see section 5 |
| host selection | `client/s3/s3client.go` | number of running requests and time of the last one, per host | choose, done | counts not given back on an error path, given back twice |
| monitoring API | `api/api.go` | status, operations, one aggregation, all under a mutex | setters of the runner, five handlers | readers beside the run, a kept aggregation, an end that either side may cause |
| video workload | `workflow/video`, `workflow/workflow_base.go` | the prefixes of its objects | `Prepare`, `Start`, `Cleanup` | shares its bucket with others |
| generators | `pkg/generator` | random state, prefix | object data and names | only the prefix matters to the others |
| command line, printing, logging | `cli/cli.go`, `cli/flags.go`, `pkg/printer`, `pkg/logger`, `pkg/utils` | none | parsing and output | nothing to check |

How they interact.  A coordinator keeps a websocket to each client and repeats
a request on a new connection when the old one fails.  The client's handler
creates a `clientBenchmark` and launches the command of the benchmark in a
goroutine; handlers and that goroutine share the `clientBenchmark` under its
mutex, and its stages are gated by channels.  The goroutine calls `Prepare`,
`Start` and `Cleanup` of a `bench.Benchmark`; its threads send operations to the
`Collector` of the benchmark.  `Start` closes the collector and its result is
what the client sends back.

What makes each modelled part correct:

* collector: `Close` returns every operation that was sent, in order; nobody
  sends after `Close`;
* benchmark: the result is complete, threads stop soon after the end, objects
  are deleted once, reading always finds an object, cleanup removes what the run
  uploaded and leaves the others' objects, a run that was started ends;
* analysis: each figure of the report is about the operations it claims to be
  about: who was active when, which bytes fell into which segment, which requests
  a percentile covers; writing and reading the operations changes none of it;
* pools: an object that a thread works on is still there and nobody else has it;
  the pool is empty only when the benchmark deletes more than it uploads;
* hosts: the counts are the clients handed out, and no host starves;
* monitoring: a reply belongs to this run and this request, the status never
  goes back, the run returns whatever is asked;
* client: repeated requests close no channel twice as long as they do not
  overlap, a benchmark is in no stage that was not asked for, a finished
  benchmark has operations to send, one coordinator is served at a time, a
  cancelled benchmark ends;
* coordinator: stages do not overlap between clients, the merged data is
  complete, clients are released at the end, and the end is reached.

The hazards that these properties are aimed at are listed, line by line, under
`hazards` in `PROJECT.json`, those of the parts not modelled too.

## 2. Modules

| module | models | extends |
|---|---|---|
| `Collector` | `bench.Collector` with the contract it expects of its users: the abstract specification of "operations are collected" | |
| `BenchRun` | a benchmark from `Prepare` to `Cleanup`, run by `runBench` or by `runClientBenchmark`; eight kinds; composed with the collector | `Collector` |
| `ClientBench` | a client: `serveWs` handlers, `clientBenchmark`, the goroutine of the command, the timers of its stages; the coordinators are its environment | |
| `Coordinator` | `runServerBenchmark` and its connections; a client is reduced to its progress | |
| `Stages` | the abstract specification of what `Coordinator` promises: a team taken through the stages in step | |
| `Operations` | the algorithms on recorded operations, as operators | |
| `Analysis` | recording, download and merge, CSV, aggregation: from operations to the report | `Operations` |
| `HostSelect` | the choice of a host for each request | |
| `Pools` | the mixed and the versioned benchmark; composed with the host selection | `HostSelect` |
| `Monitor` | the runner with its progress bars and the monitoring server beside it | |
| `MCAnalysis`, `MCPools`, `MCSizes` | values of constants that a `.cfg` cannot write | the module they instantiate |
| `CollectorProofs`, `BenchRunProofs`, `ClientBenchProofs`, `CoordinatorProofs`, `AnalysisProofs`, `AggregateProofs`, `MonitorProofs`, `PoolsProofs` | theorems | the module they are about |

### Collector

The channel is the sequence `rcv` with capacity `ChanCap`.  The drain goroutine
takes an operation off the channel (`DrainReceive`) and appends it under `opsMu`
(`DrainAppend`); it leaves when the channel is closed *and* empty (`DrainExit`).
`Close` is `CloseRcv` and `CloseReturn`.  The slice it returns is the collector's
own array, and its caller sorts it in place: `CallerSwaps`, two neighbours at a
time.  `sent` is a history variable.  An operation keeps its type, thread, number within the thread and number of
objects; times and sizes are left out.

### BenchRun

`kind` is the benchmark: `put`, `video` (the worker of the video workload),
`snowball`, `get` (`stat` and `select` prepare, read and clean up in the same
way and are covered by it), `retention`, `existing` (`get` with
`--list-existing`), `list` and `delete`.  `main` is the goroutine of the runner,
`pc[w]` the thread `w` of `Prepare` and then of `Start`.  `todo` is the channel of
tokens of `Prepare`, `objects` the slice it fills under the mutex, `bucket` the
contents of the bucket.  An object version is named by the random prefix of the
generator that made it and a number.  The bucket starts with an object of
somebody else (`OtherObject`).

* `PrepareBucket`, `PrepareVideo`, `PrepareExisting`: what the kinds begin with.
  Listed objects have no prefix, and the video workload does not clear.
* `PrepareRange`, `PrepareShare`, `PrepareUpload`, `PrepareUploadFails`,
  `PrepareSend`: the upload loop.  `get`, `retention` and `list` upload several
  versions of an object without looking at the context in between; `list` gives
  each thread a share instead of tokens.  A failing thread ends and leaves the
  others running; a cancelled one ends without an error, so `Prepare` may return
  success with no object at all.
* `PrepareReturns`: `delete` shuffles its objects, `list` the slices of its
  threads, so that a thread of `Start` lists what another one uploaded.
* `ScheduleStart`, `CloseStart`, `Deadline`, `CancelClient`, `AutoTerm`: who
  closes `start` and who ends the context.  In a local run the deadline is
  computed from the planned start, so it may pass before `start` is closed.
* `WaitStart`, `CheckExit`, `CheckContinue`, `Request`, `SendOp`: the loop of
  `Start`.  Requests may fail with any partial effect.
* `StartCloses`, `StartReturns`: the end of `Start`.  `SortSwaps`, `Sorted`: the
  caller sorts the slice in place (`SortByStartTime`).  Two operations of one
  thread keep their order, because they follow each other in time; `SetClientID`
  writes a field that is not modelled.
* `Cleanup`, `NoCleanup`: what follows.  `DeleteAllInBucket` with no prefixes deletes *everything*, as in the code.

* `PickObject`, `Request`: a reader picks any object, `list` the prefix of its
  slice, `delete` the next batch; `snowball` packs several objects and the server
  may unpack some of them only; `list` counts what it finds, and an error that
  ends the listing early.

Left out: byte ranges of `get`; the options `noprefix` (prefixes are random and
differ between threads) and `noclear`.  `list` runs with at least as many objects
as threads: with fewer, `ObjPerPrefix` is 0 and `objs[0]` panics at once.  The
requests of the cleanup succeed.  `Start` never returns an error in the
benchmarks modelled, and neither does it here.

### ClientBench

A coordinator walks through `Script`, the requests of `runServerBenchmark` to one
client, and repeats its request when a connection is lost.  Each connection has
a handler with its own program counter; a request whose code takes the lock
twice, or uses what it read after it gave back the lock, takes several steps
(`Exec...`, `Lookup...`, `Finish...`).  `Return` is the deferred function of
`serveWs`.  For each benchmark request there is a `clientBenchmark` and a
goroutine (`rpc`): `Attach` is its look at `activeBenchmark`, which may no longer
be the benchmark it was launched for.  `startCh` and `doneCh` count how often a
channel was closed: a second time is a panic and stops the process.

Nothing orders the handlers.  `roundTrip` dials again at once, and a new
connection is served while the handler of the old one is still busy or the
goroutine of a repeated benchmark request has not run.  So these happen, in the
code and in the model:

* two handlers find `startRequested` unset and both have the channel closed;
* two goroutines work on one `clientBenchmark`, and close its channels twice;
* a handler reads the map of stages, to which it copied only the reference under
  the lock (`benchclient.go:216-218, 257-259`), while `start_stage` or `stageDone`
  writes it: a fatal error in Go (`InfoRace`);
* a repeated benchmark request is executed late and replaces a benchmark whose
  stages were started: the coordinator polls the new one for ever (`Stranded`).

No text of the repository promises that they do not, so they are hazards and not
findings; the properties say what holds all the same, and that nothing *else*
leads there.  `DoubleCloseNeedsOverlap`: a channel is closed twice only in the
first two ways.  `NotAhead`: whichever benchmark a goroutine works on, it is in
no stage whose start no coordinator asked for.  `OpsDownloaded` is about a
coordinator that downloads from the benchmark that was reported finished
(`told`); a benchmark put in place in between has nothing to send.  `ServersEnd`
excepts the stranded coordinator only.

The field `stage` of `clientBenchmark` is written and never read, and is left
out.  So is the custom data of a stage: `stageDone` passes `common.Custom`, which
only `Multipart` sets, and no command builds that.  Progress, time stamps and
profiling are left out.

### Coordinator

`pc` is the main goroutine, `go[i]` the goroutine it runs for client `i`
(one per connected client in `startStageAll`, `waitForStage` and `downloadOps`),
`ws[i]` the connection.  `Write` delivers a request and executes it at the
client; the reply may be lost (`Break`) and the request is then repeated.
`Refused`, `ConnectFails`, `FatalError` are the error paths: fatal while
connecting and preparing, a dropped client afterwards, a panic in `downloadOps`.
A client is its progress `at` through the stages, the last stage it was asked
for, and whether it failed or was cancelled; a restarted client has lost its
benchmark.

### Stages

Three variables: the stage that was opened last, the team, and the progress of
each member.  `Coordinator` implements it with `open <- stage`, `prog <- at` and
`team <- Team`, the clients whose benchmark works and whose connection was not
given up.  Connecting a client is `Join`; a lost connection, a restart, a refusal
and the end of the coordinator are `Leave`; `AllConnected`, `StageFinished` and
`OpsSaved` are `Open(1)`, `Open(2)` and `Open(3)`.  Requests, replies and retries
are stutters.

### Operations and Analysis

`Operations` has one operator for each function of `ops.go` and `analyze.go` that
the report uses, over sequences of records with times in nanoseconds.  Sorts
and filters are `Arranged`: the chosen positions in the order of a key, equal
ones in the order of the sequence, and sums are `SumAt` (the prover cannot look
into `SortSeq`, `SelectSeq` and `MapThenSumSet`).  Floats are rational: a rate keeps its numerator and duration, a
share of an operation is rounded down as the conversion to an integer does.

`Analysis` is the pipeline.  Clients record operations (`Record`: one after the
other in each thread, in any interleaving and with any gaps), the coordinator
merges (`MergeAll`, `OffsetThreads` included), then either the merged operations
(`Analyze`) or the CSV file that is read back (`AnalyzeFile`, with offset and
limit) is filtered and aggregated.  The reference definitions are in the
properties, in terms of the recorded operations: sets and quantifiers where the
code sorts, scans and accumulates.

### HostSelect and Pools

`lastFinished` is the rank of each host's time, `running` the counts; `HandOut` is a call
of the function that `NewClient` returns, `GiveBack` a call of the function that
returns in turn.  `passed` is a history variable: how often a free host was
passed over.

In `Pools` an operation is four steps: `getOp` takes the next operation of the
cyclic list, a `...Takes` action takes an object out of the pool and a client for
a host, `Serve` is the server (which may fail, with or without the effect), a
`...Ends` action gives back what the code gives back on that path.  `RanOut` is
the panic of `deleteRandomObj` and `randomObj`.  `pool` and `bucket` hold object
versions; `lost` is a history variable for objects of requests that failed, those
of failed reads too, which come back to the pool.  A
thread of `Prepare` that failed keeps its client, as in the code.

### Monitor

`RunWorkflow` and `runBench` have the same shape and are one module, with
`command` for the two places where they differ.  Modelled are the upload threads
with the non-blocking send on the progress channel, the two progress bars, the
timer that closes the start channel, the deadline, the server with its five
handlers, each one step under the mutex except that a download writes after it
gave back the mutex, and `Done`.  What the benchmark does is left to `BenchRun`.

## 3. Runs

| run | configuration | shows |
|---|---|---|
| `benchrun` | 2 threads, all eight kinds, both runners, 2 objects of 2 versions, 2 objects per snowball, batches of 1, channel of 1, 2 operations of `Start`, 1 for `get`, `retention` and `list` | the collector is used as it expects (`UsesCollector`, safety and fairness), no send on a closed channel, complete results, also while they are sorted in place, at most one request per thread after the end, each object deleted once, reads have objects, cleanup leaves nothing of ours and everything of others, `Prepare` returns and a run that was started ends |
| `client` | 1 coordinator, 2 connections, 2 faults | a coordinator that loses connections at any moment has a channel closed twice only where handlers or launches overlap; no stage is entered that was not asked for; the operations of a finished benchmark are there when they are asked for; coordinator and cancelled benchmark end |
| `coordinator` | 2 clients, 3 faults | stages in step, complete data, clients released, termination, refinement of `Stages` |
| `analysis` | 2 clients with a thread each, 4 operations of 4 kinds (two types, failed ones, two sizes, two hosts, two files), 5 ticks | active ranges, segments, mixed types, percentiles, the aggregation and the CSV agree with their reference definitions |
| `pools` | 2 hosts, 2 threads, 2 or 3 objects, 4 operations of one of four lists, 1 failing request | objects taken exist and are nobody else's, the pool runs out only when overdrawn, host counts are right and no host starves, cleanup deletes every upload if no `PUT` and no `DELETE` failed |
| `monitor` | 2 upload threads and objects, 2 users, 3 requests, 2 segment lengths, both commands, with and without bars and server | replies belong to the run and the request, the status goes forward, the run returns |
| `delete_cleanup` | as `benchrun`, delete, 3 objects in batches of 2 | **violation**: `Delete.Cleanup` deletes nothing once the slice is used up, though requests may have failed |
| `client_torn` | 1 connection, no fault | **violation**: `runClientBenchmark` sorts the published slice while it may be sent |
| `client_two_servers` | 2 coordinators, 3 connections, 1 fault | **violation**: a second coordinator is let in while the first, reconnected, is served |
| `download_panic` | 2 clients, 2 faults | **violation**: a client that cannot be reached ends the coordinator in `downloadOps` |
| `rates` | as `analysis` | **violation**: with an empty active range a rate of the report is 0 divided by 0, not 0 |
| `sizes` | 1 client, 42 requests, up to 3 of them small | **violation**: a range of sizes that takes two magnitudes to fill reports requests twice |

The findings in `PROJECT.json` quote the lines that the violated properties come
from.

Bounds.  Two threads are enough for every race between threads (they are
symmetric and share only the channel, the slice and the tokens).  A channel of
capacity 1 makes senders block at once, where 1000 in the code would hide it.
With two objects one thread can upload both, each one, or none; batches of one
give a slice that is shared and runs out, and the uneven last batch is in
`delete_cleanup`.  `MaxReads` bounds the operations of `Start`, of all threads
together, for `get`, `retention` and `list`, and `MaxOps` for the others but `delete`, which ends with its objects.  Two let one be under way when the context ends and another follow, of the
same thread or of the other, and are swapped by the sort; one is enough for what
`MaxReads` is about, a reader and what `Prepare` left it, since what follows the
read is the same code for all kinds.  Two connections and two
faults let a request be repeated beside the old handler, and two
`clientBenchmark`s exist; the invariants are proved for any number of
connections, coordinators and faults.  Two clients and three faults reach every
error path in every stage, also twice for one client.

In `analysis` two clients with one thread each make every case of
`ActiveTimeRange` (threads that overlap, follow each other, are idle, are
alone), four operations give each thread a first, an inner and a last one or one
client all of them, and lengths of 1 and 3 ticks give operations inside a
segment, across one boundary and across several.  A tick is 3 ns and the
segments tried are 1 and 2 ns, so that boundaries fall between the ends of
operations as well as onto them.  Requests of length 0, which a nanosecond clock does not
record, are not in the instance, nor is an active range of 1 ns, at which `Total`
indexes an empty slice (noted with the hazard at `analyze.go:159`).
Two types with equal time ranges overlap, and `isMixed` does not notice
(`ops.go:488` takes the end of the second type for its start, although
`ops.go:446` and `476` say "overlapping"); `MixedTypesOverlap` is therefore only
one direction: what is called mixed does overlap.  The other direction does not
hold in the code and no run claims it.
The share of the requests that a range of sizes must hold is the constant
`MinShare`, 5 percent in the code.  For each further magnitude `SplitSizes` goes
through the list again from the smallest size of the range (`ops.go:704-708`) and
appends the operations that the range already holds.  With fewer than 40 requests
a range is full with one request and nothing is taken again, which
`FewSizesCountedOnce` proves; with 40 a range can hold its only small request
twice, and the report says 2 where `requests.go:109` says "Number of requests in
this range."  The run `sizes` has lists of that length, of which the first and
the last request lie outside the active range; `AggregateAccounts` is about
everything else in the report.  Writing and parsing the text of the CSV is the
identity in the model; what is modelled is how names become numbers and letters
and which rows are taken.
`OffsetThreads` of a client without
operations starts the numbering again, so `ActiveRangeIsActive` asks for such a
client to be the last one.

In `pools` the lists of operations have uploads, reads and deletes in orders
that empty the pool, one is shorter than the operations issued and starts again;
with two threads one of them holds an object while the other looks for one.  Two
objects are refused (`CreateObjects <= Concurrency`, `PrepareRefuses`); three are
the smallest pool that runs, and the lists empty it.  The list of two deletes and
two uploads reaches the bound of `RunsOutOnlyWhenOverdrawn` in the versioned
benchmark, where the thread that finds the pool empty may itself owe an upload.
`SYMMETRY` permutes the threads; no property of the run is temporal.  In
`monitor` two uploads fill the progress channel, and a third request follows two
that overlap.

Deadlock is not checked (`CHECK_DEADLOCK FALSE`): every one of these programs
ends, an analysis has one result, and a client that nobody asks for anything stops where it is.  That they
end where they should is what the liveness properties say.

Fairness.  Goroutines that can run do run; timers fire; requests return (the
HTTP client has timeouts).  All of it is weak fairness, as Go's scheduler gives
it.  Faults are not owed, and nothing forces a coordinator to request the start
of a client: therefore `CancelledRunReturns` is about `Prepare` and about runs whose start was
scheduled, and `CancelledEnds` excepts a client whose threads wait for a
start that was never requested.  These goroutines stay for ever in the
code (`<-wait` in `put.go:62` does not look at the context).  In `Monitor` the
bars' `select` takes a channel that is ready although the ticker is ready too,
as Go chooses at random; nobody has to make a request, so a run with an open
server waits for a stop that may not come, and `RunnerReturns` asks for its
return only once there is no server to wait for.

## 4. Proofs

Checked by TLAPS for every value of the constants.

**Collector.**  `CollectorInv` is the conjunction of the type, of `Conservation`
(what was sent is the slice, then what the goroutine holds, then the channel)
and of `CloseProgress` (where `Close` stands tells what can be left).  That
`Close` returns everything (`CollectorReturnsAll`) is not inductive: it needs
to know that the drain goroutine left only with an empty channel and empty
hands, which is `CloseProgress`, and that nothing else can hold an operation,
which is `Conservation`.

**BenchRun.**  `RunTypeOK` is the type of the benchmark's own variables, for all eight kinds.
`PhaseInv` relates `main` to the threads and the channel: the threads of
`Prepare` exist only while `main` waits for them, those of `Start` likewise, and
once the channel is closed all have left.  From it follow
`NoSendOnClosedChannel` and that every step of a run is a step of the collector
or leaves it alone, hence `RunRefinesCollector`; with it the collector's
theorems hold of every run (`RunConserves`, `RunReturnsAll`).  Both speak of the
slice up to the return of `Close`; what its caller then does to it is a
permutation that keeps the operations of a thread in order (`SwapInOrder`,
`SwapCounts`), so that `ResultIsComplete` and `EveryObjectOnce` hold while the
slice is sorted and after it.
`LateInv` strengthens `OvershootBounded`: a thread that has begun a late request
is no longer in front of another one.  `ResultComplete` is about the end; what is
inductive is the same statement (`IssuedInOrder`) about `sent`: a report is
numbered when it is sent, so the operations of a thread are in order there, and
by the collector's theorem `sent` is what `Close` returns.  Assumptions: a finite nonempty set of
threads, positive sizes, for `list` at least as many objects as threads, and
prefixes of threads that are nobody else's.

The second half of `BenchRunProofs` is about the objects.  That a reader has one
(`ReadsHaveObjects`) rests on four facts about different variables, `StoreInv`:
a run is started only after a `Prepare` that did not fail, and one that was
cancelled before is not started any more (`SignalInv`); while `Prepare` is not
cancelled, a token that was taken or a share that was begun has become an object
or is about to (`PrepareInv`); so what is ready to start has an object, for
`list` one of every thread (`ReadyInv`); and the prefixes in the slice and in the
batches are those of the threads (`PrefixInv`).  `BucketInv` adds that the bucket
holds nothing but what the slice has prefixes of and what others put there.  With
`ReadyInv` and `SignalInv` a `Cleanup` therefore always comes with at least one
prefix, and never with an empty or a foreign one: `OthersKept`, and
`CleanupLeavesNothing`.  The statements of the latter two are conjuncts of
`BucketInv`.  `DeletedOnce` needs the books in between (`DeleteInv`): objects
uploaded and reported, with those whose report a thread of `Prepare` has yet to
send (`Uploading`), are as many as the slice holds, the batches hold (`Held`) and
the reported deletes asked for.  A batch is counted as pairs of a thread and a
number, and the reported objects as pairs of an operation and a number, so that
a step adds or removes finite sets instead of changing a sum over a sequence.

**ClientBench.**  The theorems are about any number of coordinators, connections
and faults, and assume nothing about how handlers and goroutines are scheduled.
`ClientInv` follows a request from the coordinator to the goroutine.  `ConnInv`:
a handler has a request just while it works on it, and then it is the one its
coordinator waits for; what is being worked on was written (`asked`).  `MadeInv`:
a benchmark that is active, or that somebody works on, was made, and by the
connection it is named after, which makes at most one.  `StartInv`: unless two
handlers were busy with the start of a stage at a time (`overlapped`), its timer
and its closed channel are at most one together, at most one handler is about to
request it, and none once it is requested; a stage that is scheduled was asked
for.  `RunnerInv`: a benchmark that only its own goroutine works on has the
channel of a stage closed only when that goroutine is past the stage, and a
benchmark whose stage is done has results.  `OpsInv`: so has the one that was
reported finished, and the reply to its coordinator.  From these follow
`RepeatsHarmless`, `StagesAskedFor` and `Downloads`.

**Coordinator.**  The barriers are not inductive: that client `i` measures and
client `j` is prepared is known to the coordinator only through a chain of
facts, which `CoordInv` collects for any number of clients: `PhaseInv`
(which stage goes with which phase), `AskedInv` (no client was asked for more
than the coordinator's stage), `ReplyInv` (what a reply under way says about the
client, in this phase), `LinkInv` (which goroutines may exist with which
connections), `ProgressInv` (a client whose goroutine ended in this phase is as
far as the phase requires; all of them once the stage is past) and
`DownloadInv`.  From it follow `StageBarrier`, `CleanupBarrier` and
`ResultsComplete`.  A client that the coordinator drops after the prepare stage
may still measure while the others clean up; `CleanupBarrier` says so by
asking only about clients still connected.  `Released` says nothing before the
end; what holds all along (`ReleaseInv`) is that a client whose connection the
coordinator gave up was lost, cancelled or had no work left.

**Coordinator implements Stages.**  `CoordinatorRefinesStages`, in the same
module, is `Spec => ImplementsStages`, from the same invariant.  `LeaveStep` takes care of
every action that leaves stage and progress alone and shrinks the team, which is
most of them; `TeamShrinks` gives its premise.  The three `Open` steps need
`LinkInv` (nobody enters or leaves the team with the change of phase) and
`ProgressInv` with `AskedInv`, which together fix the progress of a member at
exactly the end of the stage before.

**Monitor.**  `MonitorInv` relates where the runner is to everything that runs
beside it: `ProgressInv` (a bar or a timer exists only in its part of the run, a
thread of `Prepare` only while the runner waits for it, and the number last sent
on the progress channel is not ahead of the uploads), `StageInv` (how far the
status can be, given where the runner is and which bar and timer are left, whose
late messages it bounds) and `DataInv` (the server gets the operations only when
they are sorted and the runner does not touch them any more; the results that are
kept were made of them).  `RepliesAreRight` is a conjunct of the invariant: a
download writes after it gave back the mutex, and it is `DataInv` that makes what
it took still right then.  `StatusForward` is an action property; each step is
looked at with the invariant at hand, which bounds the text the step may set.

**Pools and HostSelect.**  The hosts are proved first, from what a step does to
them: it takes a client, gives one back or leaves them alone (`HostStep`).
`CountInv` says that the counts are the clients in use, from which it follows
that none falls below 0.  That no host starves is not inductive; `TurnInv` is:
how often a host was passed over is at most the number of hosts that are now
busier or ended a request later (`Later`).  Handing out a client moves the chosen
host into that set of every free host that was passed over, which needs that no
two hosts have the same rank.  For the objects, every step takes one of the
seventeen forms of `StepForm`, where the operations that need an object, and all
that end, have one form each.  `ThreadInv` says what a thread holds where it is,
`NumberInv` that a new object is none of those there are, `OwnInv` that nobody
has what another has, `BucketInv` that everything in the bucket is in the pool,
in the hands of a thread or was left by a failed request: hence
`ObjectsTakenExist` and, since `Cleanup` takes the prefixes of the pool,
`CleanupDeletesUploads`.  That property has a condition which the comment it quotes
does not have ("Cleanup deletes everything uploaded to the bucket.",
`mixed.go:384`, `versioned.go:290`): an object whose `PUT` or `DELETE` failed is
not in the pool, and stays if nothing in the pool has its prefix, as
`delete_cleanup` shows for `delete.go`.  `PoolInv` keeps the books (`Balance`): the pool, what
the threads hold and what was deleted are what was created and uploaded.  When a
thread finds the pool empty the others hold or owe at most `Outstanding`
objects (`AtMostOutstanding`), which is `RunsOutOnlyWhenOverdrawn`.  The proof
attempt corrected that bound for the versioned benchmark: it had been one too
small, and TLC then showed the list of operations that reaches it.  Assumptions: a finite
nonempty set of threads, at least two hosts, lists of the four types that are
not empty.

**Operations and Analysis.**  `AnalysisProofs` is about lists of any length.  An
induction over a list is an argument about a set of numbers and the least one
that is missing (`Induction`); minima and maxima of the starts or ends of a list
exist because finitely many integers are bounded (`Among`, `MinOf`, `MaxOf`).
`ArrangedIs` says that a sort is a permutation in the order of the keys: the
place of an element, one more than the number of those before it, is one-to-one
from the positions to as many numbers, hence onto.  From these follow, for any
timed operations, `MixedIsOverlap`, `PercentileCovers` (the index of a percentile
is bounded by `MedianIndex`, and the permutation maps the positions up to it
into the requests that took no longer), `AllThreadsActive`, `OneDiscarded`, and
for one operation and its segments `PartSizeSane` and `NoByteTwice`.

The merge is a loop over the clients.  `MergeIs` proves by induction over them
where each client's operations begin in the merged list (`at`) and what their
threads are moved by (`base`).  With at most `T` threads each, client `k`
begins no later than at `(k - 1) * T`, so nothing wraps around while
`N * T < 2^16`, and the thread numbers of the clients lie in disjoint ranges
(`MergeKeepsApart`).  `AInv` is the inductive invariant of `Analysis`: the clients hold
operations with ordered times and threads in range, and the merged operations
are the sorted merge of those.  With it `MixedTypesOverlap`, `PercentilesCover` and
`ActiveRangeIsActive` hold in every state; the last one under the hypothesis
`N * T < 2^16`, beyond which the code's 16 bits make threads of different clients
one.

`SegmentsAccount` compares two sums: over the segments, what each was charged,
and over the operations, their sizes.  `UpTo(op, e)` is what an operation had
moved by the time `e`; a segment from `a` to `b` is charged with
`UpTo(op, b) - UpTo(op, a)` but for a rounding (`ChargeIsBetween`), so that the
segments, which follow each other without a gap (`Chain`), add up to what was
moved by the end of the last one (`ChainCountsAtMost`, `ChainCountsAtLeast`, by
induction over the segments, with `SumsBelow` and `SumsAbove` for the sums over
the operations).  The ends are counted in the same way (`ChainEndsOnce`).
That a client has at most `2^16` threads is an assumption on `T`: the field
is a `uint16`.

`AggregateProofs` is about the report.  `AggregateAccounts` is made of sums over
sets (types, hosts, ranges of sizes), which `SumOver` counts out, so a sum is
bounded by one argument (`CountedOut`): if every element has positions of the
list for its own (`Parted`), as many as its number or more, those of all
elements together fit into the list, and fill it when nothing is left over
(`Covered`).  A filter followed by a filter is counted through the permutation
that the first one is (`Picks`, `MatchingCount`).  The parts are the operations
of a type (`TypesAddUp`), those of a host, split into failed and successful
(`HostsBounded`), and the requests with sizes between two powers of the table.
The last rests on the loop of `SplitSizes`: as long as a range is full with one
request, a magnitude that holds one ends its range and one that holds none adds
nothing, so the ranges follow each other and nothing is taken again
(`RangesSeparate`); that is the hypothesis of `FewSizesCountedOnce`,
`requests * MinShare < 200`, and where it ends the code counts twice (the run
`sizes`).  `AggregateAccounts` has no such condition and does not speak of sizes.
That there are not too many segments (`SegmentsWanted`) rests on the choice of
`analysisDur`: the active range is no longer than all of the operations took.
`TotalBounded` uses that two times of the clock are 2 ns apart or more
(`TicksApart`), so that an active range that is not empty has room for the one
segment that `Total` takes.  In the state machine, `ReportInv` says that a report is the
result of `Aggregate` on operations that have a type and times of the clock,
whether they were merged or read back from the file; with it `ReportsAddUp`
proves `AggregateAccounts` for every state.  That operations have a type is the
assumption `KindsNamed`: `FilterByOp` takes the empty one for "all".

`LoadingKeepsAnalysis` compares two whole reports, that of the rows in the window
and that of what was read back from the file.  Two lists are `Alike` if they
differ in nothing but the names of files and clients, where the same are named
the same and others differently.  One lemma for each function of the analysis
says that alike lists are sorted and filtered into alike lists and give the same
figures (`AlikeSorted`, `AlikeFilter`, `AlikeSegment` up to `AlikeReport`): names
are compared with each other or counted, never read.  What is loaded is alike to
the window (`LoadedAlike`), as the number of the first appearance is one-to-one
(`RankIs`) and a byte keeps up to 256 letters apart (`LettersApart`).  Hence the
hypothesis `N <= 256`: the code's `cb++` wraps around, and the 257th client of a
file would be taken for the first.

**Only model-checked.**  Everything temporal under fairness
(`CancelledRunReturns`, `ServersEnd`, `CancelledEnds`, `CoordinatorEnds`, and the
fairness part of `UsesCollector`, `RunnerReturns`), which the prover does not
treat.

## 5. Not modelled, and the plan

Not modelled, and why:

* `multipart`: the upload is begun by `InitOnce`, which nothing in the
  repository calls, so every part is refused and `Prepare` fails; there is no
  behaviour beyond that.  (In the code as it stands a thread of `Start` asks for
  the part with the *index* of an object in the slice, which is filled in the
  order of completion, and compares with that object's size.)
* `s3zip`: one archive written through a pipe.  Its writer goroutine leaves on
  cancellation without closing the pipe, so `Prepare` would hang; no command
  builds the benchmark.  `Start` is the loop of `get`.
* the producer and consumer pool of the video workload (`StageMain`): its tasks
  only print; the sizes that `calculate.go` derives are arithmetic on options.
* `compare.go` and the CSV of segments (`csv.go`): differences and formatting of
  figures that `Operations` models; averages and standard deviations.
* `status.Error` of the monitoring API, profiling, byte ranges, `noprefix` and
  `noclear`.
* data generation, printing, logging, flags and the S3 protocol itself, which
  keep no state that the properties are about.

Every invariant and every action property that a run checks is proved, some of
them under the hypotheses that section 4 names.  Next would be the parts listed
as partly modelled: the averages of `aggregate`, and `compare.go` on top of them.

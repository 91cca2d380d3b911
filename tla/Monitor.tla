------------------------------ MODULE Monitor ------------------------------
(***************************************************************************)
(* The local runner and the monitoring API: RunWorkflow (workflow/run.go)  *)
(* and runBench (cli/benchmark.go), which have the same shape, with their  *)
(* goroutines (progress bars, the timer that closes the start channel) and *)
(* the api.Server whose handlers read what the runner publishes            *)
(* (api/api.go).  What the benchmark itself does in Prepare, Start and     *)
(* Cleanup is the subject of BenchRun and Pools; here Prepare reports its  *)
(* progress, Start returns some operations.                                *)
(*                                                                         *)
(* A function of the server that runs under its lock is one step.  The     *)
(* operations are one shared slice: only whether it is sorted is told      *)
(* apart, since sorting it in place is all that anybody does to it.        *)
(***************************************************************************)
EXTENDS Integers, Sequences, FiniteSets

CONSTANTS
    Uploaders,    \* the threads of Prepare
    Uploads,      \* number of objects they upload
    Clients,      \* users of the monitoring API
    Durations,    \* segment durations they ask for
    MaxRequests   \* bound: requests made to the server

ASSUME UploadsAssumption == Uploads \in Nat
ASSUME MaxRequestsAssumption == MaxRequests \in Nat

VARIABLES
    command,      \* "benchmark" (runBench) or "workflow" (RunWorkflow)
    quiet,        \* no progress bars
    server,       \* "off", "opening", "open", "closed" (stopped), "returned"
    main,         \* where the runner is
    uploader,     \* where each thread of Prepare is
    uploaded,     \* number of uploaded objects
    progress,     \* PrepareProgress: a channel for one value
    progressOpen, \* it is not closed
    bar,          \* the goroutine of a progress bar: "off", "prepare", "bench"
    newVal,       \* what the bar received last
    timer,        \* the goroutine that closes start: "off", "armed", "fired"
    ctx2Done,     \* the context of Start is done
    status,       \* Server.status.LastStatus
    data,         \* the slice of operations: "none", "empty", "unsorted", "sorted"
    ops,          \* Server.ops is that slice, else nil
    aggr,         \* Server.agrr: the duration and the data it is made of, or NoAggr
    asked,        \* number of requests made
    handler,      \* what the handler of each client does
    reply,        \* the last answer to each client
    told          \* history: a client read that the data is ready

config == <<command, quiet>>
prepare == <<uploader, uploaded>>
bars == <<progress, progressOpen, bar, newVal>>
signals == <<timer, ctx2Done>>
served == <<asked, handler, reply, told>>
vars == <<config, server, main, prepare, bars, signals, status, data, ops, aggr, served>>

NoAggr == [dur |-> 0, of |-> "none"]
NoReply == [kind |-> "none"]

(* The texts of the status, in the order of the stages they tell of.       *)
StageOf(text) ==
    CASE text = "" -> 0
      [] text \in {"preparing", "preparation"} -> 1
      [] text \in {"starting in", "starting", "running"} -> 2
      [] text \in {"saving", "written"} -> 3
      [] text = "cleanup" -> 4
      [] text = "done" -> 5
Texts == {"", "preparing", "preparation", "starting in", "starting", "running", "saving",
          "written", "cleanup", "done"}

(* NewBenchmarkMonitor: with an address the server is opened by a          *)
(* goroutine of its own.                                                   *)
Init ==
    /\ command \in {"benchmark", "workflow"}
    /\ quiet \in BOOLEAN
    /\ server \in {"off", "opening"}
    /\ main = "begin"
    /\ uploader = [u \in Uploaders |-> "idle"]
    /\ uploaded = 0
    /\ progress = <<>>
    /\ progressOpen = FALSE
    /\ bar = "off"
    /\ newVal = -1
    /\ timer = "off"
    /\ ctx2Done = FALSE
    /\ status = ""
    /\ data = "none"
    /\ ops = FALSE
    /\ aggr = NoAggr
    /\ asked = 0
    /\ handler = [c \in Clients |-> "idle"]
    /\ reply = [c \in Clients |-> NoReply]
    /\ told = FALSE

(* InfoLn and InfoQuietln.                                                 *)
InfoLn(text) == status' = text
-----------------------------------------------------------------------------
(* The runner.                                                             *)

RunBegins ==
    /\ main = "begin"
    /\ main' = "prepare"
    /\ InfoLn("preparing")
    /\ uploader' = [u \in Uploaders |-> "next"]
    /\ progressOpen' = ~quiet
    /\ bar' = IF quiet THEN "off" ELSE "prepare"
    /\ UNCHANGED <<config, server, uploaded, progress, newVal, signals, data, ops, aggr, served>>

(* Mutant of prepareProgress: a value is sent though the channel is full.  *)
prepareProgressBlind(n) == progress' = IF progressOpen THEN Append(progress, n) ELSE progress

(* A value is sent unless the channel is full (or nil).                    *)
prepareProgress(n) ==
    progress' = IF progressOpen /\ progress = <<>> THEN <<n>> ELSE progress

(* A thread of Prepare uploads an object and reports it, finds nothing to  *)
(* do, or fails.  A send on the closed channel is a panic.                 *)
Upload(u) ==
    /\ uploader[u] = "next"
    /\ \/ /\ uploaded < Uploads
          /\ uploaded' = uploaded + 1
          /\ prepareProgress(uploaded + 1)
          /\ main' = IF quiet \/ progressOpen THEN main ELSE "panic"
          /\ UNCHANGED uploader
       \/ /\ uploaded = Uploads
          /\ uploader' = [uploader EXCEPT ![u] = "left"]
          /\ UNCHANGED <<main, uploaded, progress>>
       \/ /\ uploaded < Uploads
          /\ uploader' = [uploader EXCEPT ![u] = "failed"]
          /\ UNCHANGED <<main, uploaded, progress>>
    /\ UNCHANGED <<config, server, progressOpen, bar, newVal, signals, status, data, ops,
                   aggr, served>>

(* Mutant of PrepareReturns: one thread is waited for, not all.            *)
PrepareReturnsEarly ==
    /\ main = "prepare"
    /\ \E u \in Uploaders : uploader[u] = "left"
    /\ main' = "prepared"
    /\ progressOpen' = FALSE
    /\ UNCHANGED <<config, server, prepare, progress, bar, newVal, signals, status, data, ops,
                   aggr, served>>

(* Prepare waits for its threads; an error ends the program.  The channel  *)
(* is closed after it.                                                     *)
PrepareReturns ==
    /\ main = "prepare"
    /\ \A u \in Uploaders : uploader[u] \in {"left", "failed"}
    /\ IF \E u \in Uploaders : uploader[u] = "failed"
       THEN main' = "failed" /\ UNCHANGED progressOpen
       ELSE main' = "prepared" /\ progressOpen' = FALSE
    /\ UNCHANGED <<config, server, prepare, progress, bar, newVal, signals, status, data, ops,
                   aggr, served>>

(* The bar shows the preparation: it ticks ...                             *)
BarTicks ==
    /\ bar = "prepare"
    /\ InfoLn("preparation")
    /\ UNCHANGED <<config, server, main, prepare, bars, signals, data, ops, aggr, served>>

(* ... receives a value, or ends when the channel is closed and empty.     *)
BarReceives ==
    /\ bar = "prepare"
    /\ \/ /\ progress # <<>>
          /\ newVal' = Head(progress)
          /\ progress' = Tail(progress)
          /\ UNCHANGED bar
       \/ /\ progress = <<>> /\ ~progressOpen
          /\ bar' = "off"
          /\ UNCHANGED <<newVal, progress>>
    /\ UNCHANGED <<config, server, main, prepare, progressOpen, signals, status, data, ops, aggr,
                   served>>

(* The runner waits for the bar, and starts the timer: three seconds, or   *)
(* the time of syncstart, which may be over.                               *)
TimerArmed ==
    /\ main = "prepared"
    /\ bar = "off"
    /\ main' = "armed"
    /\ timer' = "armed"
    /\ UNCHANGED <<config, server, prepare, bars, ctx2Done, status, data, ops, aggr, served>>

(* Profiles are started (a failure ends the program), then the second bar  *)
(* and the benchmark.                                                      *)
BenchStarts ==
    /\ main = "armed"
    /\ \/ /\ main' = "bench"
          /\ InfoLn("starting in")
          /\ bar' = IF quiet THEN "off" ELSE "bench"
       \/ /\ main' = "failed"
          /\ UNCHANGED <<status, bar>>
    /\ UNCHANGED <<config, server, prepare, progress, progressOpen, newVal, signals, data, ops,
                   aggr, served>>

TimerFires ==
    /\ timer = "armed"
    /\ timer' = "fired"
    /\ InfoLn("starting")
    /\ UNCHANGED <<config, server, main, prepare, bars, ctx2Done, data, ops, aggr, served>>

(* The start plus the duration is over.                                    *)
Deadline ==
    /\ main \in {"armed", "bench"}
    /\ ~ctx2Done
    /\ ctx2Done' = TRUE
    /\ UNCHANGED <<config, server, main, prepare, bars, timer, status, data, ops, aggr, served>>

(* The bar shows the time that passed, and ends with the context.          *)
BenchBarTicks ==
    /\ bar = "bench"
    /\ InfoLn("running")
    /\ UNCHANGED <<config, server, main, prepare, bars, signals, data, ops, aggr, served>>
BenchBarEnds ==
    /\ bar = "bench"
    /\ ctx2Done
    /\ bar' = "off"
    /\ UNCHANGED <<config, server, main, prepare, progress, progressOpen, newVal, signals, status,
                   data, ops, aggr, served>>

(* Start returns when its threads are through: the context is done, or     *)
(* they found nothing left to do.  Its context is cancelled.               *)
StartReturns ==
    /\ main = "bench"
    /\ timer = "fired"
    /\ main' = "measured"
    /\ ctx2Done' = TRUE
    /\ data' \in {"empty", "unsorted", "sorted"}
    /\ UNCHANGED <<config, server, prepare, bars, timer, status, ops, aggr, served>>

(* Mutant of AwaitBar: the runner does not wait for the bar.               *)
AwaitBarNot == TRUE

(* <-pgDone                                                                *)
AwaitBar == bar = "off"

(* SortByStartTime writes to the slice only if it is not sorted.           *)
Sorted(d) == IF d = "unsorted" THEN "sorted" ELSE d

SaveBegins ==
    /\ main = "measured"
    /\ AwaitBar
    /\ main' = "save"
    /\ InfoLn("saving")
    /\ data' = Sorted(data)
    /\ UNCHANGED <<config, server, prepare, bars, signals, ops, aggr, served>>

(* The file is written; it cannot be created (the runner goes on); or it   *)
(* cannot be written, which ends the program.                              *)
SaveEnds ==
    /\ main = "save"
    /\ \/ main' = "saved" /\ InfoLn("written")
       \/ main' = "saved" /\ UNCHANGED status
       \/ main' = "failed" /\ UNCHANGED status
    /\ UNCHANGED <<config, server, prepare, bars, signals, data, ops, aggr, served>>

(* The server gets the operations.                                         *)
OperationsReady ==
    /\ main = "saved"
    /\ main' = IF command = "benchmark" THEN "analyse" ELSE "analysed"
    /\ ops' = TRUE
    /\ UNCHANGED <<config, server, prepare, bars, signals, status, data, aggr, served>>

(* runBench prints the analysis of the same slice.                         *)
PrintAnalysis ==
    /\ main = "analyse"
    /\ main' = "analysed"
    /\ data' = Sorted(data)
    /\ UNCHANGED <<config, server, prepare, bars, signals, status, ops, aggr, served>>

(* Cleanup, unless the data is to be kept.                                 *)
CleanupBegins ==
    /\ main = "analysed"
    /\ \/ main' = "cleanup" /\ InfoLn("cleanup")
       \/ main' = "cleaned" /\ UNCHANGED status
    /\ UNCHANGED <<config, server, prepare, bars, signals, data, ops, aggr, served>>
CleanupEnds ==
    /\ main = "cleanup"
    /\ main' = "cleaned"
    /\ UNCHANGED <<config, server, prepare, bars, signals, status, data, ops, aggr, served>>
RunEnds ==
    /\ main = "cleaned"
    /\ main' = "wait"
    /\ InfoLn("done")
    /\ UNCHANGED <<config, server, prepare, bars, signals, data, ops, aggr, served>>

(* Done: without a server the runner returns at once, else when the server *)
(* is closed.                                                              *)
Done ==
    /\ main = "wait"
    /\ server \in {"off", "returned"}
    /\ main' = "returned"
    /\ UNCHANGED <<config, server, prepare, bars, signals, status, data, ops, aggr, served>>
-----------------------------------------------------------------------------
(* The server.                                                             *)
Running == main \notin {"failed", "panic", "returned"}

(* ListenAndServe opens the address, or returns an error; it returns when  *)
(* the server is closed.                                                   *)
ListenAndServe ==
    /\ Running
    /\ \/ server = "opening" /\ server' \in {"open", "returned"}
       \/ server = "closed" /\ server' = "returned"
    /\ UNCHANGED <<config, main, prepare, bars, signals, status, data, ops, aggr, served>>

(* A client makes a request of the open server and gets an answer.         *)
Request(c) ==
    /\ Running /\ server = "open"
    /\ handler[c] = "idle"
    /\ asked < MaxRequests
    /\ asked' = asked + 1
    /\ UNCHANGED <<config, main, prepare, bars, signals, status, ops>>
Answer(c, r) == reply' = [reply EXCEPT ![c] = r]

handleStatus(c) ==
    /\ Request(c)
    /\ Answer(c, [kind |-> "status", ready |-> ops])
    /\ told' = (told \/ ops)
    /\ UNCHANGED <<server, data, aggr, handler>>

(* Mutant of Aggregated: the cached result serves every duration.          *)
AggregatedOnce(dur) ==
    IF aggr = NoAggr THEN [dur |-> dur, of |-> Sorted(data)] ELSE aggr

(* The result that is kept, unless it is of another duration.              *)
Aggregated(dur) ==
    IF aggr = NoAggr \/ aggr.dur # dur THEN [dur |-> dur, of |-> Sorted(data)] ELSE aggr

handleAggregated(c) ==
    /\ Request(c)
    /\ IF ops
       THEN \E dur \in Durations :
                /\ aggr' = Aggregated(dur)
                /\ data' = IF aggr' = aggr THEN data ELSE Sorted(data)
                /\ Answer(c, [kind |-> "aggregated", want |-> dur, got |-> aggr'])
       ELSE /\ Answer(c, [kind |-> "404", told |-> told])
            /\ UNCHANGED <<aggr, data>>
    /\ UNCHANGED <<server, handler, told>>

(* The slice is fetched under the lock, and written to the client after.   *)
handleDownloadZst(c) ==
    /\ Request(c)
    /\ IF ops /\ data # "empty"
       THEN /\ handler' = [handler EXCEPT ![c] = data]
            /\ UNCHANGED reply
       ELSE /\ Answer(c, [kind |-> "204", told |-> told /\ data # "empty"])
            /\ UNCHANGED handler
    /\ UNCHANGED <<server, data, aggr, told>>
handleDownloadJSON(c) ==
    /\ Request(c)
    /\ IF ops
       THEN /\ handler' = [handler EXCEPT ![c] = data]
            /\ UNCHANGED reply
       ELSE /\ Answer(c, [kind |-> "null", told |-> told])
            /\ UNCHANGED handler
    /\ UNCHANGED <<server, data, aggr, told>>
Written(c) ==
    /\ Running
    /\ handler[c] # "idle"
    /\ handler' = [handler EXCEPT ![c] = "idle"]
    /\ IF server = "open" THEN Answer(c, [kind |-> "operations", first |-> handler[c], last |-> data])
       ELSE UNCHANGED reply
    /\ UNCHANGED <<config, server, main, prepare, bars, signals, status, data, ops, aggr, asked, told>>

handleStop(c) ==
    /\ Request(c)
    /\ server' = "closed"
    /\ UNCHANGED <<data, aggr, handler, reply, told>>
-----------------------------------------------------------------------------
Runner ==
    \/ RunBegins \/ PrepareReturns \/ TimerArmed \/ BenchStarts \/ StartReturns
    \/ SaveBegins \/ SaveEnds \/ OperationsReady \/ PrintAnalysis
    \/ CleanupBegins \/ CleanupEnds \/ RunEnds \/ Done
Bar == BarTicks \/ BarReceives \/ BenchBarTicks \/ BenchBarEnds
Serve(c) ==
    \/ handleStatus(c) \/ handleAggregated(c) \/ handleDownloadZst(c)
    \/ handleDownloadJSON(c) \/ handleStop(c) \/ Written(c)

Next ==
    \/ Runner \/ ListenAndServe
    \/ Running /\ (Bar \/ TimerFires \/ Deadline \/ \E u \in Uploaders : Upload(u))
    \/ \E c \in Clients : Serve(c)

(* The goroutines run, timers fire, select takes a ready channel though    *)
(* the ticker is ready too; nobody needs to make a request.                *)
Fairness ==
    /\ WF_vars(Runner)
    /\ WF_vars(ListenAndServe)
    /\ WF_vars(BarReceives) /\ WF_vars(BenchBarEnds)
    /\ WF_vars(TimerFires) /\ WF_vars(Deadline)
    /\ \A u \in Uploaders : WF_vars(Upload(u))

Spec == Init /\ [][Next]_vars /\ Fairness
-----------------------------------------------------------------------------
MonitorTypeOK ==
    /\ command \in {"benchmark", "workflow"} /\ quiet \in BOOLEAN
    /\ server \in {"off", "opening", "open", "closed", "returned"}
    /\ main \in {"begin", "prepare", "prepared", "armed", "bench", "measured", "save", "saved",
                 "analyse", "analysed", "cleanup", "cleaned", "wait", "returned", "failed", "panic"}
    /\ uploader \in [Uploaders -> {"idle", "next", "left", "failed"}]
    /\ uploaded \in 0 .. Uploads
    /\ progress \in {<<>>} \cup {<<n>> : n \in 1 .. Uploads}
    /\ progressOpen \in BOOLEAN
    /\ bar \in {"off", "prepare", "bench"}
    /\ newVal \in -1 .. Uploads
    /\ timer \in {"off", "armed", "fired"} /\ ctx2Done \in BOOLEAN
    /\ status \in Texts
    /\ data \in {"none", "empty", "unsorted", "sorted"} /\ ops \in BOOLEAN
    /\ aggr = NoAggr \/ aggr.dur \in Durations
    /\ asked \in 0 .. MaxRequests
    /\ handler \in [Clients -> {"idle", "empty", "unsorted", "sorted"}]
    /\ told \in BOOLEAN

(* The status a client reads never goes back to an earlier stage, though   *)
(* the runner, two progress bars and the timer all set it, and the         *)
(* progress of the preparation only grows.                                 *)
StatusForward ==
    [][StageOf(status') >= StageOf(status) /\ newVal' >= newVal]_vars

(* What a client is served is the measured data: the result of the segment *)
(* duration it asked for, operations that nobody rearranges while they are *)
(* written, and no "not found" after the status said that data is ready.   *)
RepliesAreRight ==
    \A c \in Clients :
        LET r == reply[c]
        IN  /\ r.kind = "aggregated" => r.got.dur = r.want /\ r.got.of = data
            /\ r.kind = "operations" => r.first = r.last
            /\ r.kind \in {"404", "204", "null"} => ~r.told

(* The runner ends: it always gets through its work or fails, and returns  *)
(* once there is no server to wait for.  It never ends in a panic, a send  *)
(* on the progress channel it has closed.                                  *)
RunnerReturns ==
    /\ <>(main \in {"wait", "returned", "failed"})
    /\ server \in {"off", "closed", "returned"} ~> main \in {"returned", "failed"}
=============================================================================

------------------------------ MODULE BenchRun ------------------------------
(***************************************************************************)
(* One bench.Benchmark from Prepare to Cleanup, for the shapes the         *)
(* benchmarks of pkg/bench have:                                           *)
(*   put        Prepare only makes the bucket, every operation uploads     *)
(*              (put.go);                                                  *)
(*   video      the loop of put without any Prepare (worker.go);           *)
(*   snowball   as put, with NumObjs objects in one request (snowball.go); *)
(*   get        Prepare uploads CreateObjects objects, each in Versions    *)
(*              versions, through the same Collector that Start closes,    *)
(*              and Start reads them (get.go; stat.go and select.go have   *)
(*              the same loops, and so has retention.go, which watches     *)
(*              for operations of another type: "retention");              *)
(*   existing   get --list-existing: Prepare lists what the bucket holds;  *)
(*   list       each thread of Prepare uploads its share, each thread of   *)
(*              Start lists the share of one of them (list.go);            *)
(*   delete     as get, but Start consumes the objects in batches and a    *)
(*              thread ends early when there are none left (delete.go).    *)
(* It runs under runBench (clientMode = FALSE: the context has a deadline  *)
(* and a timer goroutine closes the start channel) or under                *)
(* runClientBenchmark (clientMode = TRUE: the coordinator requests the     *)
(* start and may cancel the context at any time).                          *)
(***************************************************************************)
EXTENDS Integers, Collector, FiniteSets, SequencesExt

CONSTANTS
    Kinds,          \* which of the benchmarks are run
    CreateObjects,  \* number of objects Prepare uploads
    Versions,       \* versions of each object (get, retention, list)
    NumObjs,        \* objects in one upload of snowball
    BatchSize,      \* objects per delete request
    ClientModes,    \* subset of BOOLEAN: run by runClientBenchmark or not
    MaxOps,         \* bound: operations of Start that no Prepare precedes
    MaxReads        \* bound: operations of Start on what Prepare uploaded

ASSUME WorkersAssumption == IsFiniteSet(Workers) /\ Workers # {}
ASSUME KindsAssumption ==
    Kinds \subseteq {"put", "video", "snowball", "get", "retention",
                     "existing", "list", "delete"}
ASSUME CreateObjectsAssumption == CreateObjects \in Nat \ {0}
(* With fewer objects than threads list panics at its first request.       *)
ASSUME ListAssumption == "list" \in Kinds => Cardinality(Workers) <= CreateObjects
ASSUME VersionsAssumption == Versions \in Nat \ {0} /\ NumObjs \in Nat \ {0}
ASSUME BatchSizeAssumption == BatchSize \in Nat \ {0}
ASSUME ClientModesAssumption == ClientModes \subseteq BOOLEAN
ASSUME MaxOpsAssumption == MaxOps \in Nat /\ MaxReads \in Nat

VARIABLES
    kind,      \* which benchmark runs
    clientMode,  \* a client of a coordinator runs it
    main,      \* where the goroutine of runBench / runClientBenchmark is
    ctxDone,   \* the context given to Prepare and Start is done
    startReq,  \* the start of the benchmark is scheduled
    start,     \* the start channel is closed
    pc,        \* where each thread is
    issued,    \* number of operations each thread has issued
    batch,     \* the objects of the operation in progress
    todo,      \* tokens left in Prepare's channel obj
    groupErr,  \* some thread of Prepare failed
    ver,       \* versions of its current object a thread has uploaded
    objects,   \* the slice of objects Prepare uploaded
    lists,     \* list: whose objects each thread of Start lists
    bucket,    \* the objects in the bucket, by (thread of Prepare, number)
    late       \* history: operations each thread began with ctx done

mode == <<kind, clientMode>>          \* fixed for a run
signals == <<ctxDone, startReq, start>>
store == <<todo, groupErr, ver, objects, lists, bucket>>

benchVars == <<mode, main, signals, pc, issued, batch, store, late>>

vars == <<benchVars, collectorVars>>

(* An uploaded version of an object: its name starts with the random       *)
(* prefix of the generator of the thread that uploaded it.  The bucket     *)
(* also holds an object of somebody else: another client of the same       *)
(* coordinator, or what was there before.  The entry that list-existing    *)
(* makes of it has no prefix.                                              *)
OtherPrefix == "other"
NoPrefix == ""
Object == [prefix : Workers \cup {OtherPrefix, NoPrefix}, num : Nat]
OtherObject == [prefix |-> OtherPrefix, num |-> 0]
Listed == [prefix |-> NoPrefix, num |-> 0]

(* The prefixes of the generators are random.                              *)
ASSUME PrefixesAssumption == {OtherPrefix, NoPrefix} \cap Workers = {}

(* The type of the operations that Start reports ...                       *)
OpType(k) == CASE k \in {"put", "video", "snowball"} -> "put"
               [] k \in {"get", "existing"} -> "get"
               [] OTHER -> k

(* ... and the one AutoTerm looks for: retention's waits for the wrong one.*)
AutoTermType(k) == IF k = "retention" THEN "get" ELSE OpType(k)

OpOf(w, t) == [type |-> t, thread |-> w, num |-> issued[w] + 1,
               objPerOp |-> Len(batch[w])]

NewObject(w) == [prefix |-> w, num |-> issued[w] + 1]

(* The versions a thread uploads of each object of Prepare.                *)
VersionsOf(k) == IF k \in {"get", "retention", "list"} THEN Versions ELSE 1

(* The objects each thread of a list benchmark uploads.                    *)
ObjPerPrefix == CreateObjects \div Cardinality(Workers)

ObjectPrefixes(objs) == {objs[i].prefix : i \in 1 .. Len(objs)}

Init ==
    /\ NewCollector
    /\ kind \in Kinds
    /\ clientMode \in ClientModes
    /\ kind = "video" => ~clientMode
    /\ main = "create"
    /\ ctxDone = FALSE
    /\ startReq = FALSE
    /\ start = FALSE
    /\ pc = [w \in Workers |-> "idle"]
    /\ issued = [w \in Workers |-> 0]
    /\ batch = [w \in Workers |-> <<>>]
    /\ todo = CreateObjects
    /\ groupErr = FALSE
    /\ ver = [w \in Workers |-> 0]
    /\ objects = <<>>
    /\ lists = [w \in Workers |-> w]
    /\ bucket = {OtherObject}
    /\ late = [w \in Workers |-> 0]
-----------------------------------------------------------------------------
(* Prepare.                                                                *)

(* CreateEmptyBucket: only runBench sets Clear (noclear, which would keep  *)
(* the bucket and skip the cleanup, is not given).                         *)
CreateEmptyBucket == bucket' = IF clientMode THEN bucket ELSE {}

(* CreateEmptyBucket, then the upload threads are launched if there are    *)
(* any.                                                                    *)
PrepareBucket ==
    /\ main = "create"
    /\ kind \notin {"video", "existing"}
    /\ CreateEmptyBucket
    /\ \/ /\ main' = "failed"
          /\ UNCHANGED pc
       \/ /\ kind \in {"put", "snowball"}
          /\ main' = "prepared"
          /\ UNCHANGED pc
       \/ /\ kind \notin {"put", "snowball"}
          /\ main' = "prepareWg"
          /\ pc' = [w \in Workers |-> "range"]
    /\ UNCHANGED <<mode, signals, issued, batch, todo, groupErr, ver, objects,
                   lists, late, collectorVars>>

(* Prepare of the video workload does nothing.                             *)
PrepareVideo ==
    /\ main = "create"
    /\ kind = "video"
    /\ main' = "prepared"
    /\ UNCHANGED <<mode, signals, pc, issued, batch, store, late, collectorVars>>

(* list-existing: there is no bucket, it cannot be listed or is empty, or  *)
(* its objects become the objects to read.                                 *)
PrepareExisting ==
    /\ main = "create"
    /\ kind = "existing"
    /\ \/ /\ main' = "failed"
          /\ UNCHANGED objects
       \/ /\ main' = "prepared"
          /\ objects' = <<Listed>>
    /\ UNCHANGED <<mode, signals, pc, issued, batch, todo, groupErr, ver, lists,
                   bucket, late, collectorVars>>

(* for range obj, and the look at ctx that opens the loop body.            *)
PrepareRange(w) ==
    /\ pc[w] = "range"
    /\ kind # "list"
    /\ IF todo = 0
         THEN /\ pc' = [pc EXCEPT ![w] = "exited"]
              /\ UNCHANGED todo
         ELSE /\ todo' = todo - 1
              /\ pc' = [pc EXCEPT ![w] = IF ctxDone THEN "exited" ELSE "upload"]
    /\ ver' = [ver EXCEPT ![w] = 0]
    /\ UNCHANGED <<mode, main, signals, issued, batch, groupErr, objects, lists,
                   bucket, late, collectorVars>>

(* The same of list: every thread counts to its share.                     *)
PrepareShare(w) ==
    /\ pc[w] = "range"
    /\ kind = "list"
    /\ pc' = [pc EXCEPT ![w] =
                IF issued[w] = ObjPerPrefix * VersionsOf(kind) \/ ctxDone
                  THEN "exited" ELSE "upload"]
    /\ ver' = [ver EXCEPT ![w] = 0]
    /\ UNCHANGED <<mode, main, signals, issued, batch, todo, groupErr, objects,
                   lists, bucket, late, collectorVars>>

(* PutObject succeeds: the object joins the slice before it is reported.   *)
PrepareUpload(w) ==
    /\ pc[w] = "upload"
    /\ bucket' = bucket \cup {NewObject(w)}
    /\ objects' = Append(objects, NewObject(w))
    /\ ver' = [ver EXCEPT ![w] = @ + 1]
    /\ batch' = [batch EXCEPT ![w] = <<NewObject(w)>>]
    /\ pc' = [pc EXCEPT ![w] = "prepareSend"]
    /\ UNCHANGED <<mode, main, signals, issued, todo, groupErr, lists, late,
                   collectorVars>>

(* Mutant of PrepareUploadFails: the error is logged but not kept.         *)
PrepareUploadFailureIgnored(w) ==
    /\ pc[w] = "upload"
    /\ bucket' \in {bucket, bucket \cup {NewObject(w)}}
    /\ pc' = [pc EXCEPT ![w] = "exited"]
    /\ UNCHANGED <<mode, main, signals, issued, batch, todo, groupErr, ver,
                   objects, lists, late, collectorVars>>

(* PutObject fails or uploads too little: the thread gives up.             *)
PrepareUploadFails(w) ==
    /\ pc[w] = "upload"
    /\ bucket' \in {bucket, bucket \cup {NewObject(w)}}
    /\ groupErr' = TRUE
    /\ pc' = [pc EXCEPT ![w] = "exited"]
    /\ UNCHANGED <<mode, main, signals, issued, batch, todo, ver, objects,
                   lists, late, collectorVars>>

(* rcv <- op, in Prepare and in Start alike.                               *)
Report(w, t, from, to) ==
    /\ pc[w] = from
    /\ Send(OpOf(w, t))
    /\ pc' = [pc EXCEPT ![w] = to]
    /\ issued' = [issued EXCEPT ![w] = @ + 1]
    /\ batch' = [batch EXCEPT ![w] = <<>>]
    /\ UNCHANGED <<mode, main, signals, store, late>>

(* The next version of the object follows without a look at ctx.           *)
PrepareSend(w) ==
    Report(w, "put", "prepareSend",
           IF ver[w] < VersionsOf(kind) THEN "upload" ELSE "range")

(* rand.Shuffle: the same objects in any order.                            *)
Shuffles(s) == {t \in [1 .. Len(s) -> ToSet(s)] : ToSet(t) = ToSet(s)}

(* The same of the slices of list, one of each thread.                     *)
ShuffledLists ==
    {f \in [Workers -> Workers] : \A v, w \in Workers : f[v] = f[w] => v = w}

(* wg.Wait returns; delete shuffles the slice, list the slices.            *)
PrepareReturns ==
    /\ main = "prepareWg"
    /\ \A w \in Workers : pc[w] = "exited"
    /\ \/ kind = "delete" /\ objects' \in Shuffles(objects) /\ UNCHANGED lists
       \/ kind = "list" /\ lists' \in ShuffledLists /\ UNCHANGED objects
       \/ kind \in {"get", "retention"} /\ UNCHANGED <<objects, lists>>
    /\ main' = IF groupErr THEN "failed" ELSE "prepared"
    /\ UNCHANGED <<mode, signals, pc, issued, batch, todo, groupErr, ver, bucket,
                   late, collectorVars>>
-----------------------------------------------------------------------------
(* The start signal and the context.                                       *)

(* runBench schedules the start itself; a client is asked to by start_stage*)
(* once it reported the end of Prepare.  A coordinator that cancelled the  *)
(* benchmark does not ask for its next stage.                              *)
ScheduleStart ==
    /\ main \in {"prepared", "startWg"}
    /\ ~startReq
    /\ clientMode => ~ctxDone
    /\ startReq' = TRUE
    /\ UNCHANGED <<mode, main, ctxDone, start, pc, issued, batch, store,
                   late, collectorVars>>

(* Mutant of CloseStart: the timer goroutine gives up when ctx is done.    *)
CloseStartUnlessDone ==
    /\ startReq
    /\ ~start
    /\ ~ctxDone
    /\ start' = TRUE
    /\ UNCHANGED <<mode, main, ctxDone, startReq, pc, issued, batch, store,
                   late, collectorVars>>

(* close(start), when the timer fires.                                     *)
CloseStart ==
    /\ startReq
    /\ ~start
    /\ start' = TRUE
    /\ UNCHANGED <<mode, main, ctxDone, startReq, pc, issued, batch, store,
                   late, collectorVars>>

(* The duration is over: the deadline of ctx2, which no lock orders with   *)
(* the timer that closes start, or the timer goroutine of                  *)
(* runClientBenchmark, which begins to count when start is closed.         *)
Deadline ==
    /\ ~ctxDone
    /\ startReq
    /\ clientMode => start
    /\ ctxDone' = TRUE
    /\ UNCHANGED <<mode, main, startReq, start, pc, issued, batch, store,
                   late, collectorVars>>

(* disconnect, or a new benchmark request, cancels a client's benchmark.   *)
CancelClient ==
    /\ clientMode
    /\ ~ctxDone
    /\ ctxDone' = TRUE
    /\ UNCHANGED <<mode, main, startReq, start, pc, issued, batch, store,
                   late, collectorVars>>

(* AutoTerm's ticker: some segments of the operations collected so far are *)
(* about equally fast.  Only operations of the benchmark's own type count, *)
(* and without any there are no segments.                                  *)
AutoTerm ==
    /\ ~clientMode
    /\ main = "startWg"
    /\ ~ctxDone
    /\ \E i \in 1 .. Len(ops) : ops[i].type = AutoTermType(kind)
    /\ ctxDone' = TRUE
    /\ UNCHANGED <<mode, main, startReq, start, pc, issued, batch, store,
                   late, collectorVars>>
-----------------------------------------------------------------------------
(* Start.                                                                  *)

StartCalled ==
    /\ main = "prepared"
    /\ main' = "startWg"
    /\ pc' = [w \in Workers |-> "wait"]
    /\ UNCHANGED <<mode, signals, issued, batch, store, late, collectorVars>>

(* <-wait: a thread does not look at ctx here.                             *)
WaitStart(w) ==
    /\ pc[w] = "wait"
    /\ start
    /\ pc' = [pc EXCEPT ![w] = "check"]
    /\ UNCHANGED <<mode, main, signals, issued, batch, store, late,
                   collectorVars>>

(* The head of the loop sees ctx done, or (delete) no object is left.      *)
CheckExit(w) ==
    /\ pc[w] = "check"
    /\ ctxDone \/ (kind = "delete" /\ objects = <<>>)
    /\ pc' = [pc EXCEPT ![w] = "exited"]
    /\ UNCHANGED <<mode, main, signals, issued, batch, store, late,
                   collectorVars>>

BatchLen == IF Len(objects) > BatchSize THEN BatchSize ELSE Len(objects)

(* Mutant of FetchBatch: the last object of a batch stays in the slice.    *)
FetchBatchOverlaps(w) ==
    /\ kind = "delete"
    /\ objects # <<>>
    /\ batch' = [batch EXCEPT ![w] = SubSeq(objects, 1, BatchLen)]
    /\ objects' = SubSeq(objects, BatchLen, Len(objects))

(* delete: the next batch is cut off the slice under the mutex.            *)
FetchBatch(w) ==
    /\ kind = "delete"
    /\ objects # <<>>
    /\ batch' = [batch EXCEPT ![w] = SubSeq(objects, 1, BatchLen)]
    /\ objects' = SubSeq(objects, BatchLen + 1, Len(objects))

(* put and video generate an object.                                       *)
GenerateObject(w) ==
    /\ kind \in {"put", "video"}
    /\ batch' = [batch EXCEPT ![w] = <<NewObject(w)>>]

(* snowball generates several and packs them.                              *)
PackSnowball(w) ==
    /\ kind = "snowball"
    /\ batch' = [batch EXCEPT ![w] = [i \in 1 .. NumObjs |->
                   [prefix |-> w, num |-> issued[w] * NumObjs + i]]]

(* The readers pick one of the objects at random.                          *)
PickAny(w) ==
    /\ kind \in {"get", "retention", "existing"}
    /\ \E obj \in ToSet(objects) : batch' = [batch EXCEPT ![w] = <<obj>>]

(* The objects that thread w of list works on.                             *)
ListOf(w) == {obj \in ToSet(objects) : obj.prefix = lists[w]}

(* list takes the prefix that all of them share from the first one.        *)
PickPrefix(w) ==
    /\ kind = "list"
    /\ ListOf(w) # {}
    /\ UNCHANGED batch

(* The operations of Start so far, those in progress included: the bound   *)
(* leaves out what Prepare reported, one operation for each upload.        *)
OpsOfStart ==
    Len(sent) + Cardinality({v \in Workers : pc[v] \in {"request", "send"}})
        - Cardinality({i \in 1 .. Len(objects) : objects[i].prefix # NoPrefix})

(* All but delete go on until ctx is done (or the bound is reached).       *)
PickObject(w) ==
    /\ OpsOfStart < (IF kind \in {"get", "retention", "list"} THEN MaxReads ELSE MaxOps)
    /\ GenerateObject(w) \/ PackSnowball(w) \/ PickAny(w) \/ PickPrefix(w)
    /\ UNCHANGED objects

(* Mutant of CheckContinue: the loop does not look at ctx.                 *)
CheckContinueAlways(w) ==
    /\ pc[w] = "check"
    /\ FetchBatch(w) \/ PickObject(w)
    /\ pc' = [pc EXCEPT ![w] = "request"]
    /\ UNCHANGED <<mode, main, signals, issued, todo, groupErr, ver, lists,
                   bucket, late, collectorVars>>

(* The head of the loop goes on.                                           *)
CheckContinue(w) ==
    /\ pc[w] = "check"
    /\ ~ctxDone
    /\ FetchBatch(w) \/ PickObject(w)
    /\ pc' = [pc EXCEPT ![w] = "request"]
    /\ UNCHANGED <<mode, main, signals, issued, todo, groupErr, ver, lists,
                   bucket, late, collectorVars>>

(* The requests may fail: an upload may then be there or not, a snowball   *)
(* unpacked up to one of its objects, any part of a batch left.            *)
ReadRequest(w) ==
    /\ kind \in {"get", "retention", "existing"}
    /\ UNCHANGED <<bucket, batch>>

PutRequest(w) ==
    /\ kind \in {"put", "video"}
    /\ bucket' \in {bucket, bucket \cup ToSet(batch[w])}
    /\ UNCHANGED batch

SnowballRequest(w) ==
    /\ kind = "snowball"
    /\ \E n \in 0 .. Len(batch[w]) :
          bucket' = bucket \cup ToSet(SubSeq(batch[w], 1, n))
    /\ UNCHANGED batch

(* list counts what it finds under its prefix, all versions of it and the  *)
(* error that ends the listing early.                                      *)
ListRequest(w) ==
    /\ kind = "list"
    /\ LET all == Cardinality({o \in bucket : o.prefix = lists[w]})
       IN  \E found \in 0 .. all, errors \in 0 .. 1 :
              /\ errors = 0 => found = all
              /\ batch' = [batch EXCEPT ![w] = [i \in 1 .. found + errors |->
                              [prefix |-> lists[w], num |-> i]]]
    /\ UNCHANGED bucket

DeleteRequest(w) ==
    /\ kind = "delete"
    /\ \E left \in SUBSET ToSet(batch[w]) :
          bucket' = bucket \ (ToSet(batch[w]) \ left)
    /\ UNCHANGED batch

(* The request, with the non-terminating context.                          *)
Request(w) ==
    /\ pc[w] = "request"
    /\ \/ ReadRequest(w) \/ PutRequest(w) \/ SnowballRequest(w)
       \/ ListRequest(w) \/ DeleteRequest(w)
    /\ pc' = [pc EXCEPT ![w] = "send"]
    /\ late' = [late EXCEPT ![w] = IF ctxDone THEN @ + 1 ELSE @]
    /\ UNCHANGED <<mode, main, signals, issued, todo, groupErr, ver, objects,
                   lists, collectorVars>>

SendOp(w) == Report(w, OpType(kind), "send", "check")

(* Mutant of StartCloses: wg counts one thread only.                       *)
StartClosesEarly ==
    /\ main = "startWg"
    /\ \E w \in Workers : pc[w] = "exited"
    /\ CloseRcv
    /\ main' = "close"
    /\ UNCHANGED <<mode, signals, pc, issued, batch, store, late>>

(* wg.Wait returns, then c.Close().                                        *)
StartCloses ==
    /\ main = "startWg"
    /\ \A w \in Workers : pc[w] = "exited"
    /\ CloseRcv
    /\ main' = "close"
    /\ UNCHANGED <<mode, signals, pc, issued, batch, store, late>>

(* Mutant of StartReturns: Close does not wait for the drain goroutine.    *)
StartReturnsUndrained ==
    /\ main = "close"
    /\ closePc' = "returned"
    /\ main' = "sort"
    /\ UNCHANGED <<mode, signals, pc, issued, batch, store, late, rcv,
                   rcvClosed, hold, drained, ops, sent>>

(* c.Close() returned the operations.                                      *)
StartReturns ==
    /\ main = "close"
    /\ CloseReturn
    /\ main' = "sort"
    /\ UNCHANGED <<mode, signals, pc, issued, batch, store, late>>

(* SortByStartTime works in place on the slice of the collector, whose     *)
(* operations stand in the order of their ends (SetClientID, which changes *)
(* no field kept here, does so too).  Those of a thread began one after    *)
(* the other, those of Start after those of Prepare; others in any order.  *)
SortSwaps ==
    /\ main = "sort"
    /\ \E i \in 1 .. Len(ops) - 1 :
          /\ ops[i].thread # ops[i + 1].thread
          /\ ops[i].type = ops[i + 1].type
          /\ ops' = Swap(ops, i)
    /\ UNCHANGED <<benchVars, rcv, rcvClosed, hold, drained, closePc, sent>>

Sorted ==
    /\ main = "sort"
    /\ main' = "cleanup"
    /\ UNCHANGED <<mode, signals, pc, issued, batch, store, late, collectorVars>>

DrainOps == Drain /\ UNCHANGED benchVars

(* DeleteAllInBucket removes what has one of the prefixes, and everything  *)
(* if there are none or one is empty.  What is left; its requests succeed  *)
(* here.                                                                   *)
DeleteAllInBucket(prefixes) ==
    {o \in bucket : /\ prefixes # {} /\ NoPrefix \notin prefixes
                    /\ o.prefix \notin prefixes}

(* Put.Cleanup and those like it use the prefixes Start took from its      *)
(* generators, the others the prefixes of the slice; get leaves a listed   *)
(* bucket alone, delete one it has emptied.                                *)
KeepsBucket == kind = "existing" \/ (kind = "delete" /\ objects = <<>>)

CleanupPrefixes == IF kind \in {"put", "video", "snowball"} THEN Workers
                                                          ELSE ObjectPrefixes(objects)

(* Mutant of Cleanup: looks at the first object only.                      *)
CleanupFirstPrefix ==
    /\ main = "cleanup"
    /\ bucket' = IF KeepsBucket THEN bucket
                 ELSE DeleteAllInBucket(IF objects = <<>> THEN Workers
                                                          ELSE {objects[1].prefix})
    /\ main' = "done"
    /\ UNCHANGED <<mode, signals, pc, issued, batch, todo, groupErr, ver,
                   objects, lists, late, collectorVars>>

(* Mutant of Cleanup: a listed bucket is cleaned up like any other.        *)
CleanupAlways ==
    /\ main = "cleanup"
    /\ bucket' = DeleteAllInBucket(CleanupPrefixes)
    /\ main' = "done"
    /\ UNCHANGED <<mode, signals, pc, issued, batch, todo, groupErr, ver,
                   objects, lists, late, collectorVars>>

(* Cleanup of the benchmark, in the last stage.                            *)
Cleanup ==
    /\ main = "cleanup"
    /\ bucket' = IF KeepsBucket THEN bucket ELSE DeleteAllInBucket(CleanupPrefixes)
    /\ main' = "done"
    /\ UNCHANGED <<mode, signals, pc, issued, batch, todo, groupErr, ver,
                   objects, lists, late, collectorVars>>

(* keep-data is set, or the coordinator of a client never gets to the      *)
(* cleanup stage.                                                          *)
NoCleanup ==
    /\ main = "cleanup"
    /\ main' = "kept"
    /\ UNCHANGED <<mode, signals, pc, issued, batch, store, late,
                   collectorVars>>
-----------------------------------------------------------------------------
Thread(w) ==
    \/ PrepareRange(w) \/ PrepareShare(w) \/ PrepareUpload(w) \/ PrepareUploadFails(w)
    \/ PrepareSend(w) \/ WaitStart(w) \/ CheckExit(w) \/ CheckContinue(w)
    \/ Request(w) \/ SendOp(w)

Main ==
    \/ PrepareBucket \/ PrepareVideo \/ PrepareExisting \/ PrepareReturns
    \/ StartCalled \/ StartCloses \/ StartReturns \/ Sorted
    \/ Cleanup \/ NoCleanup

Signals == ScheduleStart \/ CloseStart \/ Deadline \/ CancelClient \/ AutoTerm

Next ==
    \/ \E w \in Workers : Thread(w)
    \/ Main
    \/ Signals
    \/ DrainOps
    \/ SortSwaps

(* Goroutines that can run do run and requests come back (the clients have *)
(* HTTP timeouts); a scheduled start and the end of the duration are       *)
(* timers.  Nothing makes a coordinator request a start.                   *)
Fairness ==
    /\ \A w \in Workers : WF_vars(Thread(w))
    /\ WF_vars(Main)
    /\ WF_vars(CloseStart)
    /\ WF_vars(Deadline)
    /\ WF_vars(DrainOps)
    /\ WF_vars(~clientMode /\ ScheduleStart)

Spec == Init /\ [][Next]_vars /\ Fairness
-----------------------------------------------------------------------------
Pcs == {"idle", "range", "upload", "prepareSend", "wait", "check", "request",
        "send", "exited"}

Mains == {"create", "prepareWg", "prepared", "failed", "startWg", "close",
          "sort", "cleanup", "done", "kept"}

BenchTypeOK ==
    /\ CollectorTypeOK
    /\ kind \in Kinds
    /\ clientMode \in BOOLEAN
    /\ main \in Mains
    /\ ctxDone \in BOOLEAN /\ startReq \in BOOLEAN /\ start \in BOOLEAN
    /\ pc \in [Workers -> Pcs]
    /\ issued \in [Workers -> Nat]
    /\ batch \in [Workers -> Seq(Object)]
    /\ todo \in Nat
    /\ groupErr \in BOOLEAN
    /\ ver \in [Workers -> Nat]
    /\ objects \in Seq(Object)
    /\ lists \in [Workers -> Workers]
    /\ bucket \in SUBSET Object
    /\ late \in [Workers -> Nat]

(* A thread that is about to send finds the channel open: a send on the    *)
(* closed channel would panic.  It rests on Start closing the collector    *)
(* only after every thread of Prepare and of Start is gone.                *)
NoSendOnClosedChannel ==
    \A w \in Workers : pc[w] \in {"prepareSend", "send"} => ~rcvClosed

(* s holds each operation any thread issued exactly once, and those of one *)
(* thread in the order it issued them.                                     *)
IssuedInOrder(s) ==
    /\ \A i \in 1 .. Len(s) : s[i].num \in 1 .. issued[s[i].thread]
    /\ \A w \in Workers : \A k \in 1 .. issued[w] :
          \E i \in 1 .. Len(s) : s[i].thread = w /\ s[i].num = k
    /\ \A i, j \in 1 .. Len(s) :
          i < j /\ s[i].thread = s[j].thread => s[i].num < s[j].num

(* When Start has returned, and when the operations are sorted, the result *)
(* holds each operation any thread issued exactly once, those of Prepare   *)
(* included, and those of one thread in the order it issued them.          *)
ResultComplete == closePc = "returned" => IssuedInOrder(ops)

(* Once the duration is over, or AutoTerm or a disconnect ended the run,   *)
(* no thread starts more than one further request.                         *)
OvershootBounded == \A w \in Workers : late[w] <= 1

(* The uploads that s reports, and the objects its delete operations asked *)
(* for: pairs of an operation and one of its objects.                      *)
UploadsIn(s) == {i \in 1 .. Len(s) : s[i].type = "put"}
DeletesIn(s) == {i \in 1 .. Len(s) : s[i].type = "delete"}
AskedIn(s) == UNION {{i} \X (1 .. s[i].objPerOp) : i \in DeletesIn(s)}

(* The delete benchmark asks for each prepared object exactly once: at the *)
(* end the objects counted by the reported operations and those left in    *)
(* the slice add up to what Prepare uploaded.                              *)
DeletedOnce ==
    kind = "delete" /\ closePc = "returned" =>
        Cardinality(UploadsIn(ops)) = Len(objects) + Cardinality(AskedIn(ops))

(* A thread that reads always has an object to pick (rng.Intn(0) and       *)
(* objs[0] would panic), though Prepare may fail, may be cancelled half-   *)
(* way and, for list, gives every thread of Start the objects of one       *)
(* thread of Prepare only.                                                 *)
ReadsHaveObjects ==
    \A w \in Workers : pc[w] = "check" =>
        /\ kind \in {"get", "retention", "existing"} => objects # <<>>
        /\ kind = "list" => ListOf(w) # {}

Uploaded == {o \in bucket : o.prefix # OtherPrefix}

(* Cleanup leaves nothing of what the run uploaded, however its uploads    *)
(* failed (for delete see below).                                          *)
CleanupLeavesNothing == main = "done" /\ kind # "delete" => Uploaded = {}

(* What somebody else put into the bucket stays: a client shares it with   *)
(* the other clients of its coordinator, the video workload never clears   *)
(* it, and list-existing reads it.  Cleanup is never called with an empty  *)
(* prefix or none, though Prepare may have been cancelled before the first *)
(* upload and the objects of list-existing have no prefix.                 *)
OthersKept == clientMode \/ kind \in {"video", "existing"} => OtherObject \in bucket

(* "Cleanup deletes everything uploaded to the bucket." (delete.go:215)    *)
CleanupDeletesEverything == main = "done" => Uploaded = {}

(* Prepare returns, cancelled or not, and a run whose start was scheduled  *)
(* ends once its context is done: no thread hangs on the start channel, on *)
(* the full collector channel or on another thread.                        *)
CancelledRunReturns ==
    /\ main = "prepareWg" ~> main # "prepareWg"
    /\ startReq /\ ctxDone ~> main \in {"cleanup", "done", "kept"}

(* The benchmark uses the Collector as the Collector expects.              *)
UsesCollector == CollectorSpec
=============================================================================

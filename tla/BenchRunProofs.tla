--------------------------- MODULE BenchRunProofs ---------------------------
(***************************************************************************)
(* A benchmark run uses its collector correctly, for any number of threads *)
(* and objects, any batch size and any channel capacity: types, no send on *)
(* the closed channel, the bounded overshoot, and the refinement of the    *)
(* Collector, from which the completeness of the result follows.           *)
(***************************************************************************)
EXTENDS BenchRun, CollectorProofs, FiniteSetTheorems

(* Threads live only while Prepare or Start waits for them, the collector  *)
(* is open as long as one of the two may still run, and its slice is       *)
(* sorted when Close has returned it.                                      *)
PhaseInv ==
    /\ \A w \in Workers :
          /\ pc[w] \in {"range", "upload", "prepareSend"} => main = "prepareWg"
          /\ pc[w] \in {"wait", "check", "request", "send"} => main = "startWg"
    /\ main \in {"create", "prepareWg", "prepared", "failed", "startWg"}
          => closePc = "open"
    /\ closePc = "open" => ~rcvClosed
    /\ main = "sort" => closePc = "returned"

(* A thread that made its late request is not about to make another one.   *)
LateInv ==
    \A w \in Workers :
        /\ late[w] <= 1
        /\ ~ctxDone => late[w] = 0
        /\ late[w] = 1 => pc[w] # "request"

(* The part of the type invariant that is not the collector's.             *)
RunTypeOK ==
    /\ kind \in Kinds
    /\ clientMode \in BOOLEAN
    /\ main \in Mains
    /\ ctxDone \in BOOLEAN /\ startReq \in BOOLEAN /\ start \in BOOLEAN
    /\ pc \in [Workers -> Pcs]
    /\ issued \in [Workers -> Nat]
    /\ batch \in [Workers -> Seq(Object)]
    /\ todo \in Nat
    /\ groupErr \in BOOLEAN
    /\ ver \in [Workers -> Nat]
    /\ objects \in Seq(Object)
    /\ lists \in [Workers -> Workers]
    /\ bucket \in SUBSET Object
    /\ late \in [Workers -> Nat]

USE DEF mode, signals, store
-----------------------------------------------------------------------------
(* The variables of a run start with their types.                          *)
LEMMA InitRunTypeOK == Init => RunTypeOK
<1> SUFFICES ASSUME Init PROVE RunTypeOK
  OBVIOUS
<1>1. batch \in [Workers -> Seq(Object)] /\ objects \in Seq(Object)
  BY DEF Init
<1>2. bucket \in SUBSET Object
  BY DEF Init, OtherObject, Object
<1> QED BY <1>1, <1>2, ClientModesAssumption, CreateObjectsAssumption
        DEF Init, RunTypeOK, Mains, Pcs

(* What a thread uploads or picks is an object, what it reports an         *)
(* operation.                                                              *)
LEMMA ObjectTypes ==
    ASSUME RunTypeOK, NEW w \in Workers, NEW t \in OperationTypes
    PROVE  NewObject(w) \in Object /\ OpOf(w, t) \in Operation
<1>1. issued[w] + 1 \in Nat /\ batch[w] \in Seq(Object)
  BY DEF RunTypeOK
<1>2. Len(batch[w]) \in Nat
  BY <1>1
<1> QED BY <1>1, <1>2 DEF NewObject, OpOf, Object, Operation

(* Every benchmark reports operations of a known type.                     *)
LEMMA OpTypes ==
    ASSUME RunTypeOK
    PROVE  "put" \in OperationTypes /\ OpType(kind) \in OperationTypes
BY KindsAssumption DEF RunTypeOK, OpType, OperationTypes

(* Reporting an operation keeps the types.                                 *)
LEMMA ReportTypeOK ==
    ASSUME RunTypeOK, NEW w \in Workers, NEW t, NEW from, NEW to \in Pcs,
           Report(w, t, from, to)
    PROVE  RunTypeOK'
<1>1. pc' \in [Workers -> Pcs] /\ issued' \in [Workers -> Nat]
  BY DEF Report, RunTypeOK
<1>2. batch' \in [Workers -> Seq(Object)]
  BY DEF Report, RunTypeOK
<1> QED BY <1>1, <1>2 DEF Report, RunTypeOK

(* Any request leaves objects in the bucket and a batch of objects.        *)
LEMMA RequestTypeOK ==
    ASSUME RunTypeOK, NEW w \in Workers,
           \/ ReadRequest(w) \/ PutRequest(w) \/ SnowballRequest(w)
           \/ ListRequest(w) \/ DeleteRequest(w)
    PROVE  bucket' \in SUBSET Object /\ batch' \in [Workers -> Seq(Object)]
<1>1. ToSet(batch[w]) \subseteq Object
  BY DEF RunTypeOK, ToSet
<1>2. CASE ReadRequest(w) \/ PutRequest(w) \/ DeleteRequest(w)
  BY <1>1, <1>2 DEF ReadRequest, PutRequest, DeleteRequest, RunTypeOK
<1>3. CASE SnowballRequest(w)
  <2>1. PICK n \in 0 .. Len(batch[w]) :
           bucket' = bucket \cup ToSet(SubSeq(batch[w], 1, n))
    BY <1>3 DEF SnowballRequest
  <2>2. SubSeq(batch[w], 1, n) \in Seq(Object)
    BY DEF RunTypeOK
  <2>3. ToSet(SubSeq(batch[w], 1, n)) \subseteq Object
    BY <2>2 DEF ToSet
  <2> QED BY <1>3, <2>1, <2>3 DEF SnowballRequest, RunTypeOK
<1>4. CASE ListRequest(w)
  <2>1. PICK n \in Nat : batch' = [batch EXCEPT ![w] = [i \in 1 .. n |->
                                     [prefix |-> lists[w], num |-> i]]]
    <3> DEFINE all == Cardinality({o \in bucket : o.prefix = lists[w]})
               Found(n) == batch' = [batch EXCEPT ![w] = [i \in 1 .. n |->
                                       [prefix |-> lists[w], num |-> i]]]
    <3>1. PICK found \in 0 .. all, errors \in 0 .. 1 : Found(found + errors)
      BY <1>4, Zenon DEF ListRequest
    <3>2. found + errors \in Nat
      <4> HIDE DEF all
      <4> QED OBVIOUS
    <3> QED BY <3>1, <3>2, Zenon
  <2>2. \A i \in 1 .. n : [prefix |-> lists[w], num |-> i] \in Object
    BY DEF Object, RunTypeOK
  <2> QED BY <1>4, <2>1, <2>2 DEF ListRequest, RunTypeOK
<1> QED BY <1>2, <1>3, <1>4

(* Every step of a thread keeps the types.                                 *)
LEMMA ThreadTypeOK ==
    ASSUME RunTypeOK, NEW w \in Workers, Thread(w)
    PROVE  RunTypeOK'
<1>1. CASE PrepareRange(w)
  <2>1. todo' \in Nat
    BY <1>1 DEF PrepareRange, RunTypeOK
  <2>2. pc' \in [Workers -> Pcs] /\ ver' \in [Workers -> Nat]
    BY <1>1 DEF PrepareRange, RunTypeOK, Pcs
  <2> QED BY <1>1, <2>1, <2>2 DEF PrepareRange, RunTypeOK
<1>8. CASE PrepareShare(w)
  <2>1. pc' \in [Workers -> Pcs] /\ ver' \in [Workers -> Nat]
    BY <1>8 DEF PrepareShare, RunTypeOK, Pcs
  <2> QED BY <1>8, <2>1 DEF PrepareShare, RunTypeOK
<1>2. CASE PrepareUpload(w)
  <2>1. NewObject(w) \in Object
    BY ObjectTypes, OpTypes
  <2>2. objects' \in Seq(Object) /\ bucket' \in SUBSET Object
    BY <1>2, <2>1 DEF PrepareUpload, RunTypeOK
  <2>3. /\ batch' \in [Workers -> Seq(Object)] /\ pc' \in [Workers -> Pcs]
        /\ ver' \in [Workers -> Nat]
    <3>1. ver' \in [Workers -> Nat]
      BY <1>2 DEF PrepareUpload, RunTypeOK
    <3> QED BY <1>2, <2>1, <3>1 DEF PrepareUpload, RunTypeOK, Pcs
  <2> QED BY <1>2, <2>2, <2>3 DEF PrepareUpload, RunTypeOK
<1>3. CASE PrepareUploadFails(w)
  <2>1. NewObject(w) \in Object
    BY ObjectTypes, OpTypes
  <2>2. pc' \in [Workers -> Pcs]
    BY <1>3 DEF PrepareUploadFails, RunTypeOK, Pcs
  <2> QED BY <1>3, <2>1, <2>2 DEF PrepareUploadFails, RunTypeOK
<1>4. CASE PrepareSend(w) \/ SendOp(w)
  <2>1. "upload" \in Pcs /\ "range" \in Pcs /\ "check" \in Pcs
    BY DEF Pcs
  <2>2. (IF ver[w] < VersionsOf(kind) THEN "upload" ELSE "range") \in Pcs
    BY <2>1
  <2>3. CASE PrepareSend(w)
    BY <2>2, <2>3, ReportTypeOK DEF PrepareSend
  <2>4. CASE SendOp(w)
    BY <2>1, <2>4, ReportTypeOK DEF SendOp
  <2> QED BY <1>4, <2>3, <2>4
<1>5. CASE WaitStart(w) \/ CheckExit(w)
  <2>1. pc' \in [Workers -> Pcs]
    BY <1>5 DEF WaitStart, CheckExit, RunTypeOK, Pcs
  <2> QED BY <1>5, <2>1 DEF WaitStart, CheckExit, RunTypeOK
<1>6. CASE CheckContinue(w)
  <2>1. CASE FetchBatch(w)
    <3>1. /\ SubSeq(objects, 1, BatchLen) \in Seq(Object)
          /\ SubSeq(objects, BatchLen + 1, Len(objects)) \in Seq(Object)
      BY BatchSizeAssumption DEF RunTypeOK, BatchLen
    <3>2. pc' \in [Workers -> Pcs]
      BY <1>6 DEF CheckContinue, RunTypeOK, Pcs
    <3> QED BY <1>6, <2>1, <3>1, <3>2 DEF CheckContinue, FetchBatch, RunTypeOK
  <2>2. CASE PickObject(w)
    <3>1. \/ UNCHANGED batch
          \/ \E s \in Seq(Object) : batch' = [batch EXCEPT ![w] = s]
      <4>1. NewObject(w) \in Object /\ ToSet(objects) \subseteq Object
        BY ObjectTypes, OpTypes DEF RunTypeOK, ToSet
      <4>2. CASE GenerateObject(w) \/ PickAny(w)
        <5>1. PICK obj \in Object : batch' = [batch EXCEPT ![w] = <<obj>>]
          BY <4>1, <4>2 DEF GenerateObject, PickAny
        <5>2. <<obj>> \in Seq(Object)
          OBVIOUS
        <5> QED BY <5>1, <5>2, Zenon
      <4>3. CASE PackSnowball(w)
        <5>1. \A i \in 1 .. NumObjs : issued[w] * NumObjs + i \in Nat
          BY VersionsAssumption DEF RunTypeOK
        <5>2. \A i \in 1 .. NumObjs :
                 [prefix |-> w, num |-> issued[w] * NumObjs + i] \in Object
          BY <5>1 DEF Object
        <5>3. [i \in 1 .. NumObjs |-> [prefix |-> w, num |-> issued[w] * NumObjs + i]]
                 \in Seq(Object)
          BY <5>2, VersionsAssumption
        <5> QED BY <4>3, <5>3, Zenon DEF PackSnowball
      <4>4. CASE PickPrefix(w)
        BY <4>4 DEF PickPrefix
      <4> QED BY <2>2, <4>2, <4>3, <4>4 DEF PickObject
    <3>2. batch' \in [Workers -> Seq(Object)]
      BY <3>1 DEF RunTypeOK
    <3>3. pc' \in [Workers -> Pcs]
      BY <1>6 DEF CheckContinue, RunTypeOK, Pcs
    <3> QED BY <1>6, <2>2, <3>2, <3>3 DEF CheckContinue, PickObject, RunTypeOK
  <2> QED BY <1>6, <2>1, <2>2 DEF CheckContinue
<1>7. CASE Request(w)
  <2>1. bucket' \in SUBSET Object /\ batch' \in [Workers -> Seq(Object)]
    BY <1>7, RequestTypeOK DEF Request
  <2>2. late' \in [Workers -> Nat] /\ pc' \in [Workers -> Pcs]
    BY <1>7 DEF Request, RunTypeOK, Pcs
  <2> QED BY <1>7, <2>1, <2>2 DEF Request, RunTypeOK
<1> QED BY <1>1, <1>2, <1>3, <1>4, <1>5, <1>6, <1>7, <1>8 DEF Thread

(* Every step of a run keeps the types.                                    *)
LEMMA StepRunTypeOK == RunTypeOK /\ [Next]_vars => RunTypeOK'
<1> SUFFICES ASSUME RunTypeOK, [Next]_vars PROVE RunTypeOK'
  OBVIOUS
<1>1. CASE \E w \in Workers : Thread(w)
  BY <1>1, ThreadTypeOK
<1>2. CASE Main
  <2>4. CASE PrepareVideo \/ PrepareExisting
    <3>1. <<Listed>> \in Seq(Object)
      BY DEF Listed, Object
    <3> QED
      BY <2>4, <3>1 DEF PrepareVideo, PrepareExisting, RunTypeOK, Mains
  <2>1. CASE PrepareBucket \/ StartCalled
    <3>1. bucket' \in SUBSET Object
      BY <2>1 DEF PrepareBucket, CreateEmptyBucket, StartCalled, RunTypeOK
    <3> QED
      BY <2>1, <3>1 DEF PrepareBucket, StartCalled, RunTypeOK, Pcs, Mains
  <2>0. CASE PrepareReturns
    <3>1. ToSet(objects) \subseteq Object /\ Len(objects) \in Nat
      BY DEF RunTypeOK, ToSet
    <3>2. objects' \in Seq(Object)
      <4>1. CASE kind = "delete"
        <5>1. objects' \in [1 .. Len(objects) -> ToSet(objects)]
          BY <2>0, <4>1 DEF PrepareReturns, Shuffles
        <5> QED BY <3>1, <5>1
      <4>2. CASE kind # "delete"
        BY <2>0, <4>2 DEF PrepareReturns, RunTypeOK
      <4> QED BY <4>1, <4>2
    <3>3. lists' \in [Workers -> Workers]
      BY <2>0 DEF PrepareReturns, ShuffledLists, RunTypeOK
    <3> QED BY <2>0, <3>2, <3>3 DEF PrepareReturns, RunTypeOK, Mains
  <2>2. CASE StartCloses \/ StartReturns \/ Sorted \/ NoCleanup
    BY <2>2 DEF StartCloses, StartReturns, Sorted, NoCleanup, RunTypeOK, Mains
  <2>3. CASE Cleanup
    <3>1. bucket' \subseteq bucket
      BY <2>3 DEF Cleanup, DeleteAllInBucket, RunTypeOK
    <3> QED BY <2>3, <3>1 DEF Cleanup, RunTypeOK, Mains
  <2> QED BY <1>2, <2>0, <2>1, <2>2, <2>3, <2>4 DEF Main
<1>3. CASE Signals
  BY <1>3 DEF Signals, ScheduleStart, CloseStart, Deadline, CancelClient, AutoTerm,
              RunTypeOK
<1>4. CASE DrainOps \/ SortSwaps \/ UNCHANGED vars
  BY <1>4 DEF DrainOps, SortSwaps, vars, benchVars, RunTypeOK
<1> QED BY <1>1, <1>2, <1>3, <1>4 DEF Next
-----------------------------------------------------------------------------
(* No thread runs and the collector is open at first.                      *)
LEMMA InitPhaseInv == Init => PhaseInv
BY DEF Init, NewCollector, PhaseInv

(* Threads are launched and joined by the same phase.                      *)
LEMMA StepPhaseInv == RunTypeOK /\ PhaseInv /\ [Next]_vars => PhaseInv'
<1> SUFFICES ASSUME RunTypeOK, PhaseInv, [Next]_vars PROVE PhaseInv'
  OBVIOUS
<1>1. CASE \E w \in Workers : Thread(w)
  <2>1. PICK w \in Workers : Thread(w)
    BY <1>1
  <2>2. /\ UNCHANGED <<main, closePc, rcvClosed>>
        /\ \E from, to \in Pcs :
              /\ pc[w] = from
              /\ pc' = [pc EXCEPT ![w] = to]
              /\ \/ /\ from \in {"range", "upload", "prepareSend"}
                    /\ to \in {"range", "upload", "prepareSend", "exited"}
                 \/ /\ from \in {"wait", "check", "request", "send"}
                    /\ to \in {"check", "request", "send", "exited"}
    <3>1. CASE \/ PrepareRange(w) \/ PrepareShare(w)
               \/ PrepareUpload(w) \/ PrepareUploadFails(w)
      BY <3>1 DEF PrepareRange, PrepareShare, PrepareUpload, PrepareUploadFails,
                  collectorVars, Pcs
    <3>2. CASE PrepareSend(w) \/ SendOp(w)
      BY <3>2 DEF PrepareSend, SendOp, Report, Send, Pcs
    <3>3. CASE WaitStart(w) \/ CheckExit(w) \/ CheckContinue(w) \/ Request(w)
      BY <3>3 DEF WaitStart, CheckExit, CheckContinue, Request, collectorVars, Pcs
    <3> QED BY <2>1, <3>1, <3>2, <3>3 DEF Thread
  <2> QED BY <2>2 DEF RunTypeOK, PhaseInv
<1>2. CASE Main
  <2>1. CASE PrepareBucket \/ PrepareVideo \/ PrepareExisting \/ PrepareReturns
    BY <2>1 DEF PrepareBucket, PrepareVideo, PrepareExisting, PrepareReturns,
                PhaseInv, RunTypeOK, collectorVars
  <2>2. CASE StartCalled
    BY <2>2 DEF StartCalled, PhaseInv, collectorVars
  <2>3. CASE StartCloses
    BY <2>3 DEF StartCloses, CloseRcv, PhaseInv
  <2>4. CASE StartReturns
    BY <2>4 DEF StartReturns, CloseReturn, PhaseInv
  <2>5. CASE Sorted \/ Cleanup \/ NoCleanup
    BY <2>5 DEF Sorted, Cleanup, NoCleanup, PhaseInv, collectorVars
  <2> QED BY <1>2, <2>1, <2>2, <2>3, <2>4, <2>5 DEF Main
<1>3. CASE Signals
  BY <1>3 DEF Signals, ScheduleStart, CloseStart, Deadline, CancelClient, AutoTerm,
              PhaseInv, collectorVars
<1>4. CASE DrainOps \/ SortSwaps
  BY <1>4 DEF DrainOps, SortSwaps, Drain, DrainReceive, DrainAppend, DrainExit, benchVars,
              PhaseInv
<1>5. CASE UNCHANGED vars
  BY <1>5 DEF vars, benchVars, collectorVars, PhaseInv
<1> QED BY <1>1, <1>2, <1>3, <1>4, <1>5 DEF Next

(* Threads of Prepare and of Start run only while their caller waits for   *)
(* them, and the collector stays open that long.                           *)
THEOREM RunPhases == Spec => [](RunTypeOK /\ PhaseInv)
BY InitRunTypeOK, StepRunTypeOK, InitPhaseInv, StepPhaseInv, PTL DEF Spec

(* A thread about to send is one of a phase with the collector open.       *)
LEMMA PhaseInvSends == PhaseInv => NoSendOnClosedChannel
BY DEF PhaseInv, NoSendOnClosedChannel

(* No thread ever sends on the closed channel.                             *)
THEOREM NoSendOnClosed == Spec => []NoSendOnClosedChannel
BY RunPhases, PhaseInvSends, PTL
-----------------------------------------------------------------------------
(* No request is late before the context is done.                          *)
LEMMA InitLateInv == Init => LateInv
<1> SUFFICES ASSUME Init PROVE LateInv
  OBVIOUS
<1>1. \A w \in Workers : late[w] = 0
  BY DEF Init
<1>2. 0 <= 1 /\ 0 # 1
  OBVIOUS
<1> QED BY <1>1, <1>2, Zenon DEF LateInv

(* A thread looks at the context between two requests.                     *)
LEMMA StepLateInv == RunTypeOK /\ LateInv /\ [Next]_vars => LateInv'
<1> SUFFICES ASSUME RunTypeOK, LateInv, [Next]_vars PROVE LateInv'
  OBVIOUS
<1>1. CASE \E w \in Workers : Thread(w)
  <2>1. PICK w \in Workers : Thread(w)
    BY <1>1
  <2>2. CASE Request(w)
    BY <2>2 DEF Request, LateInv, RunTypeOK
  <2>3. CASE CheckContinue(w)
    BY <2>3 DEF CheckContinue, LateInv, RunTypeOK
  <2>4. CASE \/ PrepareRange(w) \/ PrepareShare(w)
             \/ PrepareUpload(w) \/ PrepareUploadFails(w)
    BY <2>4 DEF PrepareRange, PrepareShare, PrepareUpload, PrepareUploadFails,
                LateInv, RunTypeOK
  <2>5. CASE PrepareSend(w) \/ SendOp(w) \/ WaitStart(w) \/ CheckExit(w)
    BY <2>5 DEF PrepareSend, SendOp, Report, WaitStart, CheckExit, LateInv, RunTypeOK
  <2> QED BY <2>1, <2>2, <2>3, <2>4, <2>5 DEF Thread
<1>2. CASE Main
  BY <1>2 DEF Main, PrepareBucket, PrepareVideo, PrepareExisting, PrepareReturns,
              StartCalled, StartCloses, StartReturns, Sorted, Cleanup, NoCleanup, LateInv,
              RunTypeOK
<1>3. CASE Signals
  BY <1>3 DEF Signals, ScheduleStart, CloseStart, Deadline, CancelClient, AutoTerm,
              LateInv, RunTypeOK
<1>4. CASE DrainOps \/ SortSwaps \/ UNCHANGED vars
  BY <1>4 DEF DrainOps, SortSwaps, vars, benchVars, LateInv
<1> QED BY <1>1, <1>2, <1>3, <1>4 DEF Next

(* One late request is the most.                                           *)
LEMMA LateInvBounds == LateInv => OvershootBounded
BY DEF LateInv, OvershootBounded

(* However long requests take, a thread begins at most one after the end.  *)
THEOREM Overshoot == Spec => []OvershootBounded
BY InitRunTypeOK, StepRunTypeOK, InitLateInv, StepLateInv, LateInvBounds, PTL DEF Spec
-----------------------------------------------------------------------------
(* A thread's report is a send of the collector.                           *)
LEMMA ReportIsSend ==
    ASSUME RunTypeOK, CollectorInv, NEW w \in Workers, NEW from, NEW to,
           NEW t \in OperationTypes, Report(w, t, from, to)
    PROVE  SendAny
<1>1. OpOf(w, t) \in Operation /\ sent \in Seq(Operation)
  BY ObjectTypes DEF CollectorInv, CollectorTypeOK
<1>2. sent' = Append(sent, OpOf(w, t)) /\ Send(OpOf(w, t))
  BY DEF Report, Send
<1>3. sent' # <<>> /\ sent'[Len(sent')] = OpOf(w, t)
  <2>1. /\ Append(sent, OpOf(w, t)) # <<>>
        /\ Len(Append(sent, OpOf(w, t))) = Len(sent) + 1
        /\ Append(sent, OpOf(w, t))[Len(sent) + 1] = OpOf(w, t)
    BY <1>1, AppendProperties
  <2> QED BY <1>2, <2>1
<1> QED BY <1>1, <1>2, <1>3, Zenon DEF SendAny

(* Every step of a run is a step of the collector or leaves it alone.      *)
LEMMA StepRefines ==
    RunTypeOK /\ PhaseInv /\ CollectorInv /\ [Next]_vars => [CollectorNext]_collectorVars
<1> SUFFICES ASSUME RunTypeOK, PhaseInv, CollectorInv, [Next]_vars
             PROVE  [CollectorNext]_collectorVars
  OBVIOUS
<1>1. CASE \E w \in Workers : Thread(w)
  <2>1. PICK w \in Workers : Thread(w)
    BY <1>1
  <2>2. CASE PrepareSend(w) \/ SendOp(w)
    BY <2>2, ReportIsSend, OpTypes DEF PrepareSend, SendOp, CollectorNext
  <2>3. CASE ~(PrepareSend(w) \/ SendOp(w))
    BY <2>1, <2>3 DEF Thread, PrepareRange, PrepareShare, PrepareUpload,
           PrepareUploadFails, WaitStart, CheckExit, CheckContinue, Request
  <2> QED BY <2>2, <2>3
<1>2. CASE Main
  BY <1>2 DEF Main, PrepareBucket, PrepareVideo, PrepareExisting, PrepareReturns,
              StartCalled, StartCloses, StartReturns, Sorted, Cleanup, NoCleanup,
              CollectorNext
<1>3. CASE Signals
  BY <1>3 DEF Signals, ScheduleStart, CloseStart, Deadline, CancelClient, AutoTerm
<1>4. CASE DrainOps \/ UNCHANGED vars
  BY <1>4 DEF DrainOps, vars, CollectorNext
<1>5. CASE SortSwaps
  BY <1>5 DEF SortSwaps, CallerSwaps, CollectorNext, PhaseInv
<1> QED BY <1>1, <1>2, <1>3, <1>4, <1>5 DEF Next

(* A run begins with a new collector.                                      *)
LEMMA InitRefines == Init => NewCollector
BY DEF Init

(* The collector's invariant holds throughout a run.                       *)
THEOREM RunCollectorInv == Spec => [](RunTypeOK /\ PhaseInv /\ CollectorInv)
<1>1. Init => CollectorInv
  BY InitRefines, CollectorInitInv
<1>2. RunTypeOK /\ PhaseInv /\ CollectorInv /\ [Next]_vars => CollectorInv'
  BY StepRefines, CollectorStepInv
<1> QED BY <1>1, <1>2, RunPhases, PTL DEF Spec

(* A run implements the collector's specification (its safety part).       *)
THEOREM RunRefinesCollector == Spec => CollectorSafety
BY RunCollectorInv, InitRefines, StepRefines, PTL DEF Spec, CollectorSafety

(* The two parts of the type invariant make up BenchTypeOK.                *)
LEMMA TypesTogether == RunTypeOK /\ CollectorInv => BenchTypeOK
BY DEF RunTypeOK, CollectorInv, BenchTypeOK

(* Every variable of a run keeps its type.                                 *)
THEOREM RunTypes == Spec => []BenchTypeOK
BY RunCollectorInv, TypesTogether, PTL

(* The invariant of the collector contains the conservation.               *)
LEMMA InvConserves == CollectorInv => Conservation
BY DEF CollectorInv

(* No operation is lost, duplicated or reordered between a thread's send   *)
(* and the slice, at any moment of a run.                                  *)
THEOREM RunConserves == Spec => []Conservation
BY RunCollectorInv, InvConserves, PTL

(* What Close hands to Start is every operation its threads, and those of  *)
(* Prepare, ever sent.                                                     *)
THEOREM RunReturnsAll == Spec => CloseReturnsAll
BY RunRefinesCollector, CollectorReturnsAll, PTL
-----------------------------------------------------------------------------
(* A step reports one operation of one thread, or neither the history nor  *)
(* the numbers of the operations change.                                   *)
LEMMA ReportsOrNot ==
    ASSUME RunTypeOK, [Next]_vars
    PROVE  \/ \E w \in Workers, t \in OperationTypes, from, to \in Pcs :
                 Report(w, t, from, to)
           \/ UNCHANGED <<sent, issued>>
<1>1. CASE \E w \in Workers : Thread(w)
  <2>1. PICK w \in Workers : Thread(w)
    BY <1>1
  <2>2. CASE PrepareSend(w)
    <3>1. {"prepareSend", "upload", "range"} \subseteq Pcs
      BY DEF Pcs
    <3> QED BY <2>2, <3>1, OpTypes DEF PrepareSend
  <2>3. CASE SendOp(w)
    <3>1. {"send", "check"} \subseteq Pcs
      BY DEF Pcs
    <3> QED BY <2>3, <3>1, OpTypes DEF SendOp
  <2>4. CASE \/ PrepareRange(w) \/ PrepareShare(w)
             \/ PrepareUpload(w) \/ PrepareUploadFails(w)
    BY <2>4 DEF PrepareRange, PrepareShare, PrepareUpload, PrepareUploadFails,
                collectorVars
  <2>5. CASE WaitStart(w) \/ CheckExit(w) \/ CheckContinue(w) \/ Request(w)
    BY <2>5 DEF WaitStart, CheckExit, CheckContinue, Request, collectorVars
  <2> QED BY <2>1, <2>2, <2>3, <2>4, <2>5 DEF Thread
<1>2. CASE Main
  BY <1>2 DEF Main, PrepareBucket, PrepareVideo, PrepareExisting, PrepareReturns,
              StartCalled, StartCloses, StartReturns, Sorted, Cleanup, NoCleanup,
              CloseRcv, CloseReturn, collectorVars
<1>3. CASE Signals
  BY <1>3 DEF Signals, ScheduleStart, CloseStart, Deadline, CancelClient, AutoTerm,
              collectorVars
<1>4. CASE DrainOps \/ SortSwaps
  BY <1>4 DEF DrainOps, SortSwaps, Drain, DrainReceive, DrainAppend, DrainExit, benchVars
<1>5. CASE UNCHANGED vars
  BY <1>5 DEF vars, benchVars, collectorVars
<1> QED BY <1>1, <1>2, <1>3, <1>4, <1>5 DEF Next

(* No operation is issued before the first.                                *)
LEMMA InitInOrder == Init => IssuedInOrder(sent)
<1> SUFFICES ASSUME Init PROVE IssuedInOrder(sent)
  OBVIOUS
<1>1. Len(sent) = 0 /\ \A w \in Workers : issued[w] = 0
  BY DEF Init, NewCollector
<1> QED BY <1>1 DEF IssuedInOrder

(* A thread numbers its operations one by one, and reports each before it  *)
(* turns to the next.                                                      *)
LEMMA ReportInOrder ==
    ASSUME RunTypeOK, CollectorInv, IssuedInOrder(sent), NEW w \in Workers,
           NEW t \in OperationTypes, NEW from, NEW to, Report(w, t, from, to)
    PROVE  IssuedInOrder(sent)'
<1> DEFINE op == OpOf(w, t)
           n == Len(sent) + 1
<1>1. /\ sent \in Seq(Operation)
      /\ issued \in [Workers -> Nat]
      /\ op \in Operation
  BY ObjectTypes DEF CollectorInv, CollectorTypeOK, RunTypeOK
<1>2. op.thread = w /\ op.num = issued[w] + 1
  BY DEF OpOf
<1>3. sent' = Append(sent, op)
  BY DEF Report, Send
<1>4. /\ issued'[w] = issued[w] + 1
      /\ \A v \in Workers : v # w => issued'[v] = issued[v]
  BY <1>1 DEF Report
<1> HIDE DEF op
<1>5. /\ n \in Nat /\ Len(sent') = n
      /\ sent'[n] = op
      /\ \A i \in 1 .. Len(sent) : sent'[i] = sent[i]
  BY <1>1, <1>3
<1>6. \A i \in 1 .. Len(sent) : sent[i].thread \in Workers /\ sent[i].num \in Nat
  <2> SUFFICES ASSUME NEW i \in 1 .. Len(sent)
               PROVE  sent[i].thread \in Workers /\ sent[i].num \in Nat
    OBVIOUS
  <2>1. sent[i] \in Operation
    BY <1>1
  <2> QED BY <2>1 DEF Operation
<1>7. \A i \in 1 .. Len(sent) : sent[i].num \in 1 .. issued[sent[i].thread]
  BY DEF IssuedInOrder
<1>8. ASSUME NEW i \in 1 .. Len(sent') PROVE sent'[i].num \in 1 .. issued'[sent'[i].thread]
  <2>1. CASE i = n
    BY <1>1, <1>2, <1>4, <1>5, <2>1
  <2>2. CASE i # n
    <3>1. i \in 1 .. Len(sent) /\ sent'[i] = sent[i]
      BY <1>1, <1>5, <2>2
    <3>2. issued[sent[i].thread] <= issued'[sent[i].thread]
      BY <1>1, <1>4, <1>6, <3>1
    <3> QED BY <1>1, <1>4, <1>6, <1>7, <3>1, <3>2
  <2> QED BY <2>1, <2>2
<1>9. ASSUME NEW v \in Workers, NEW k \in 1 .. issued'[v]
      PROVE  \E i \in 1 .. Len(sent') : sent'[i].thread = v /\ sent'[i].num = k
  <2>1. CASE v = w /\ k = issued[w] + 1
    BY <1>2, <1>5, <2>1
  <2>2. CASE ~(v = w /\ k = issued[w] + 1)
    <3>1. k \in 1 .. issued[v]
      BY <1>1, <1>4, <2>2
    <3>2. PICK i \in 1 .. Len(sent) : sent[i].thread = v /\ sent[i].num = k
      BY <3>1 DEF IssuedInOrder
    <3>3. i \in 1 .. Len(sent') /\ sent'[i] = sent[i]
      BY <1>1, <1>5
    <3> QED BY <3>2, <3>3
  <2> QED BY <2>1, <2>2
<1>10. ASSUME NEW i \in 1 .. Len(sent'), NEW j \in 1 .. Len(sent'),
              i < j, sent'[i].thread = sent'[j].thread
       PROVE  sent'[i].num < sent'[j].num
  <2>1. i \in 1 .. Len(sent) /\ sent'[i] = sent[i]
    BY <1>1, <1>5, <1>10
  <2>2. CASE j = n
    BY <1>1, <1>2, <1>5, <1>6, <1>7, <1>10, <2>1, <2>2
  <2>3. CASE j # n
    <3>1. j \in 1 .. Len(sent) /\ sent'[j] = sent[j]
      BY <1>1, <1>5, <2>3
    <3> QED BY <1>10, <2>1, <3>1 DEF IssuedInOrder
  <2> QED BY <2>2, <2>3
<1> QED BY <1>8, <1>9, <1>10 DEF IssuedInOrder

(* Every step keeps the history in the order of the threads.               *)
LEMMA StepInOrder ==
    RunTypeOK /\ CollectorInv /\ IssuedInOrder(sent) /\ [Next]_vars => IssuedInOrder(sent)'
<1> SUFFICES ASSUME RunTypeOK, CollectorInv, IssuedInOrder(sent), [Next]_vars
             PROVE  IssuedInOrder(sent)'
  OBVIOUS
<1>1. CASE \E w \in Workers, t \in OperationTypes, from, to \in Pcs : Report(w, t, from, to)
  BY <1>1, ReportInOrder
<1>2. CASE UNCHANGED <<sent, issued>>
  BY <1>2 DEF IssuedInOrder
<1> QED BY <1>1, <1>2, ReportsOrNot

(* When Close returns, the slice is the history; then no thread is left to *)
(* issue anything, and only the sort touches the slice.                    *)
LEMMA ReturnedStep ==
    ASSUME RunTypeOK, PhaseInv, CollectorInv, [Next]_vars, closePc' = "returned"
    PROVE  /\ UNCHANGED <<issued, sent>>
           /\ \/ closePc # "returned" /\ ops' = sent
              \/ closePc = "returned" /\ ops' = ops
              \/ closePc = "returned" /\ SortSwaps
<1>1. CASE \E w \in Workers : Thread(w)
  <2>1. PICK w \in Workers : Thread(w)
    BY <1>1
  <2>2. main \in {"prepareWg", "startWg"} /\ UNCHANGED closePc
    <3>1. CASE PrepareSend(w) \/ SendOp(w)
      BY <3>1 DEF PrepareSend, SendOp, Report, Send, PhaseInv
    <3>2. CASE ~(PrepareSend(w) \/ SendOp(w))
      <4>1. UNCHANGED closePc
        BY <2>1, <3>2 DEF Thread, PrepareRange, PrepareShare, PrepareUpload,
               PrepareUploadFails, WaitStart, CheckExit, CheckContinue, Request,
               collectorVars
      <4>2. main \in {"prepareWg", "startWg"}
        BY <2>1, <3>2 DEF Thread, PrepareRange, PrepareShare, PrepareUpload,
               PrepareUploadFails, WaitStart, CheckExit, CheckContinue, Request, PhaseInv
      <4> QED BY <4>1, <4>2
    <3> QED BY <3>1, <3>2
  <2> QED BY <2>2 DEF PhaseInv
<1>2. CASE Main
  <2>1. CASE StartReturns
    <3>1. closePc # "returned" /\ UNCHANGED <<issued, sent>>
      BY <2>1 DEF StartReturns, CloseReturn
    <3>2. ops' = sent'
      BY <3>1, StepRefines, ReturnStep DEF collectorVars
    <3> QED BY <3>1, <3>2
  <2>2. CASE Main /\ ~StartReturns
    <3>1. UNCHANGED <<issued, sent, ops>> /\ closePc = "returned"
      BY <2>2 DEF Main, PrepareBucket, PrepareVideo, PrepareExisting, PrepareReturns,
             StartCalled, StartCloses, Sorted, Cleanup, NoCleanup, CloseRcv, collectorVars
    <3> QED BY <3>1
  <2> QED BY <1>2, <2>1, <2>2
<1>3. CASE Signals
  BY <1>3 DEF Signals, ScheduleStart, CloseStart, Deadline, CancelClient, AutoTerm,
              collectorVars
<1>4. CASE DrainOps
  <2>1. closePc = "returned"
    BY <1>4 DEF DrainOps, Drain, DrainReceive, DrainAppend, DrainExit
  <2> QED BY <1>4, <2>1 DEF DrainOps, Drain, DrainReceive, DrainAppend, DrainExit,
                            CollectorInv, CloseProgress
<1>5. CASE SortSwaps
  BY <1>5 DEF SortSwaps, PhaseInv, benchVars
<1>6. CASE UNCHANGED vars
  BY <1>6 DEF vars, benchVars, collectorVars
<1> QED BY <1>1, <1>2, <1>3, <1>4, <1>5, <1>6 DEF Next

(* Two operations of different threads that change places leave those of   *)
(* each thread where they are among themselves.                            *)
LEMMA SwapInOrder ==
    ASSUME NEW s \in Seq(Operation), NEW i \in 1 .. Len(s) - 1,
           s[i].thread # s[i + 1].thread, IssuedInOrder(s)
    PROVE  IssuedInOrder(Swap(s, i))
<1> DEFINE t == Swap(s, i)
           pi == [k \in 1 .. Len(s) |-> IF k = i THEN i + 1 ELSE IF k = i + 1 THEN i ELSE k]
<1>1. /\ Len(s) \in Nat /\ i \in 1 .. Len(s) /\ i + 1 \in 1 .. Len(s)
      /\ t \in Seq(Operation) /\ Len(t) = Len(s)
  BY SwapType
<1>2. /\ \A k \in 1 .. Len(s) : pi[k] \in 1 .. Len(s) /\ pi[pi[k]] = k
      /\ \A j, k \in 1 .. Len(s) : j < k /\ ~(j = i /\ k = i + 1) => pi[j] < pi[k]
  BY <1>1
<1>3. \A k \in 1 .. Len(s) : t[k] = s[pi[k]]
  BY <1>1 DEF Swap
<1> HIDE DEF t, pi
<1>4. \A k \in 1 .. Len(t) : t[k].num \in 1 .. issued[t[k].thread]
  BY <1>1, <1>2, <1>3 DEF IssuedInOrder
<1>5. ASSUME NEW w \in Workers, NEW n \in 1 .. issued[w]
      PROVE  \E k \in 1 .. Len(t) : t[k].thread = w /\ t[k].num = n
  <2>1. PICK k \in 1 .. Len(s) : s[k].thread = w /\ s[k].num = n
    BY DEF IssuedInOrder
  <2>2. pi[k] \in 1 .. Len(t) /\ t[pi[k]] = s[k]
    BY <1>1, <1>2, <1>3
  <2> QED BY <2>1, <2>2
<1>6. ASSUME NEW j \in 1 .. Len(t), NEW k \in 1 .. Len(t),
             j < k, t[j].thread = t[k].thread
      PROVE  t[j].num < t[k].num
  <2>1. j \in 1 .. Len(s) /\ k \in 1 .. Len(s) /\ t[j] = s[pi[j]] /\ t[k] = s[pi[k]]
    BY <1>1, <1>3
  <2>2. ~(j = i /\ k = i + 1)
    <3> SUFFICES ASSUME j = i, k = i + 1 PROVE FALSE
      OBVIOUS
    <3>1. t[i] = s[i + 1] /\ t[i + 1] = s[i]
      BY <1>1 DEF t, Swap
    <3> QED BY <1>6, <3>1
  <2>3. pi[j] < pi[k] /\ pi[j] \in 1 .. Len(s) /\ pi[k] \in 1 .. Len(s)
    BY <1>2, <1>6, <2>1, <2>2
  <2> QED BY <1>6, <2>1, <2>3 DEF IssuedInOrder
<1>7. IssuedInOrder(t)
  BY <1>4, <1>5, <1>6 DEF IssuedInOrder
<1> QED BY <1>7 DEF t

(* The result, sorted or not, is complete.                                 *)
LEMMA StepComplete ==
    ASSUME RunTypeOK, PhaseInv, CollectorInv, IssuedInOrder(sent), ResultComplete,
           [Next]_vars
    PROVE  ResultComplete'
<1> SUFFICES ASSUME closePc' = "returned" PROVE IssuedInOrder(ops)'
  BY DEF ResultComplete
<1>1. /\ UNCHANGED <<issued, sent>>
      /\ \/ closePc # "returned" /\ ops' = sent
         \/ closePc = "returned" /\ ops' = ops
         \/ closePc = "returned" /\ SortSwaps
  BY ReturnedStep
<1>2. IssuedInOrder(ops') => IssuedInOrder(ops)'
  BY <1>1 DEF IssuedInOrder
<1>3. IssuedInOrder(ops')
  <2>1. CASE closePc # "returned"
    BY <1>1, <2>1
  <2>2. CASE closePc = "returned" /\ ops' = ops
    BY <2>2 DEF ResultComplete
  <2>3. CASE closePc = "returned" /\ SortSwaps
    <3>1. PICK i \in 1 .. Len(ops) - 1 :
             ops[i].thread # ops[i + 1].thread /\ ops' = Swap(ops, i)
      BY <2>3 DEF SortSwaps
    <3>2. ops \in Seq(Operation) /\ IssuedInOrder(ops)
      BY <2>3 DEF CollectorInv, CollectorTypeOK, ResultComplete
    <3> QED BY <3>1, <3>2, SwapInOrder
  <2> QED BY <1>1, <2>1, <2>2, <2>3
<1> QED BY <1>2, <1>3

(* Nothing is returned at first.                                           *)
LEMMA InitComplete == Init => ResultComplete
BY DEF Init, NewCollector, ResultComplete

(* The operations a run returns are, of each thread, those it issued, each *)
(* once and in the order of their numbers, and so they are when sorted.    *)
THEOREM ResultIsComplete == Spec => []ResultComplete
<1>1. RunTypeOK /\ PhaseInv /\ CollectorInv /\ IssuedInOrder(sent) /\ ResultComplete
        /\ [Next]_vars => (IssuedInOrder(sent) /\ ResultComplete)'
  BY StepInOrder, StepComplete
<1> QED BY <1>1, RunCollectorInv, InitInOrder, InitComplete, PTL DEF Spec
-----------------------------------------------------------------------------
(***************************************************************************)
(* What a run uploads, reads and deletes, for any number of threads and    *)
(* objects: readers always have an object to read, and Cleanup removes     *)
(* what the run uploaded and nothing else.                                 *)
(*                                                                         *)
(* All of it rests on the prefixes in the slice of objects: a Prepare that *)
(* succeeded and was not cancelled left one there (for list, one of every  *)
(* thread), a run that was cancelled before that is never started and      *)
(* never cleans up, and what is in the bucket has a prefix of the slice    *)
(* unless an upload failed.  That a delete benchmark asks for each object  *)
(* once rests on the books kept of those that are in somebody's hands.     *)
(***************************************************************************)

(* The prefixes of the objects that Prepare uploaded.                      *)
Known == ObjectPrefixes(objects)

Started == {"close", "sort", "cleanup", "done", "kept"}

(* Who may have signalled what in which phase: a run is started only after *)
(* Prepare, and a local run is not cancelled before.                       *)
SignalInv ==
    /\ start => startReq
    /\ startReq => main \notin {"create", "prepareWg", "failed"}
    /\ ~clientMode /\ ctxDone =>
         /\ main \notin {"create", "prepareWg", "failed"}
         /\ startReq \/ main # "prepared"
    /\ main = "startWg" => \A w \in Workers : pc[w] = "wait" \/ start
    /\ main \in Started => start

(* Prepare under way: a thread is through only when the tokens are used up *)
(* (list: when it uploaded its share), and a token that was taken has led  *)
(* to an object or is about to.                                            *)
PrepareInv ==
    /\ main = "create" => todo = CreateObjects /\ \A w \in Workers : issued[w] = 0
    /\ main = "prepareWg" => kind \in {"get", "retention", "list", "delete"}
    /\ groupErr => main \in {"prepareWg", "failed"}
    /\ main = "prepareWg" /\ ~groupErr /\ ~ctxDone =>
         /\ kind # "list" =>
              /\ \A w \in Workers : pc[w] = "exited" => todo = 0
              /\ todo < CreateObjects => Known # {} \/ \E w \in Workers : pc[w] = "upload"
         /\ kind = "list" =>
              \A w \in Workers :
                 pc[w] \in {"exited", "prepareSend"} \/ issued[w] > 0 => w \in Known

(* A prepared run that is started, or may still be, has objects to read.   *)
ReadyInv ==
    main \in {"prepared", "startWg"} \cup Started /\ (~clientMode \/ ~ctxDone \/ startReq) =>
        /\ kind \in {"get", "retention", "existing"} => Known # {}
        /\ kind = "list" => Workers \subseteq Known

(* The prefixes a run works with are those of its own threads.             *)
PrefixInv ==
    kind # "existing" =>
        /\ Known \subseteq Workers
        /\ \A w \in Workers : ObjectPrefixes(batch[w]) \subseteq Workers

(* Where the objects in the bucket come from.                              *)
Owned == IF kind \in {"put", "video", "snowball"} THEN Workers
         ELSE IF kind = "existing" THEN {} ELSE Known

BucketInv ==
    /\ OthersKept
    /\ kind # "delete" /\ ~groupErr =>
         \A o \in bucket : o.prefix \in Owned \cup {OtherPrefix}
    /\ CleanupLeavesNothing

StoreInv == SignalInv /\ PrepareInv /\ ReadyInv /\ PrefixInv /\ BucketInv

USE DEF mode, signals, store
-----------------------------------------------------------------------------
(* An object adds its prefix to those of a slice.                          *)
LEMMA PrefixesAppend ==
    ASSUME NEW s \in Seq(Object), NEW o \in Object
    PROVE  ObjectPrefixes(Append(s, o)) = ObjectPrefixes(s) \cup {o.prefix}
BY DEF ObjectPrefixes

(* A slice without prefixes is empty.                                      *)
LEMMA PrefixesEmpty ==
    ASSUME NEW s \in Seq(Object)
    PROVE  ObjectPrefixes(s) = {} <=> s = <<>>
<1>1. s = <<>> <=> Len(s) = 0
  OBVIOUS
<1>2. Len(s) \in Nat
  OBVIOUS
<1>3. CASE Len(s) = 0
  BY <1>1, <1>3 DEF ObjectPrefixes
<1>4. CASE Len(s) # 0
  <2>1. 1 \in 1 .. Len(s)
    BY <1>2, <1>4
  <2>2. s[1].prefix \in ObjectPrefixes(s)
    BY <2>1 DEF ObjectPrefixes
  <2> QED BY <1>1, <1>4, <2>2
<1> QED BY <1>3, <1>4

(* A part of a slice has no other prefixes.                                *)
LEMMA PrefixesSub ==
    ASSUME NEW s \in Seq(Object), NEW m \in Nat \ {0}, NEW n \in 0 .. Len(s)
    PROVE  ObjectPrefixes(SubSeq(s, m, n)) \subseteq ObjectPrefixes(s)
<1> SUFFICES ASSUME NEW i \in 1 .. Len(SubSeq(s, m, n))
             PROVE  SubSeq(s, m, n)[i].prefix \in ObjectPrefixes(s)
  BY DEF ObjectPrefixes
<1>1. m + i - 1 \in 1 .. Len(s) /\ SubSeq(s, m, n)[i] = s[m + i - 1]
  OBVIOUS
<1> QED BY <1>1 DEF ObjectPrefixes

(* A shuffled slice has the same prefixes.                                 *)
LEMMA PrefixesShuffle ==
    ASSUME NEW s \in Seq(Object), NEW t \in Shuffles(s)
    PROVE  ObjectPrefixes(t) = ObjectPrefixes(s)
<1>1. /\ t \in [1 .. Len(s) -> ToSet(s)]
      /\ {t[i] : i \in DOMAIN t} = {s[i] : i \in DOMAIN s}
  BY DEF Shuffles, ToSet
<1>2. DOMAIN t = 1 .. Len(s) /\ DOMAIN s = 1 .. Len(s) /\ Len(s) \in Nat
  BY <1>1
<1>3. t \in Seq(ToSet(s)) /\ Len(t) = Len(s)
  BY <1>1, <1>2
<1>4. ObjectPrefixes(t) = {x.prefix : x \in {t[i] : i \in DOMAIN t}}
  BY <1>2, <1>3 DEF ObjectPrefixes
<1>5. ObjectPrefixes(s) = {x.prefix : x \in {s[i] : i \in DOMAIN s}}
  BY <1>2 DEF ObjectPrefixes
<1> QED BY <1>1, <1>4, <1>5

(* A single object has its own prefix.                                     *)
LEMMA PrefixesOne ==
    ASSUME NEW o
    PROVE  ObjectPrefixes(<<o>>) = {o.prefix}
BY DEF ObjectPrefixes

(* There are threads, and they share at least one object each.             *)
LEMMA Shares ==
    ASSUME "list" \in Kinds
    PROVE  ObjPerPrefix \in Nat \ {0} /\ VersionsOf("list") \in Nat \ {0}
<1> DEFINE n == Cardinality(Workers)
<1>1. n \in Nat \ {0} /\ n <= CreateObjects /\ CreateObjects \in Nat
  BY WorkersAssumption, ListAssumption, CreateObjectsAssumption,
     FS_CardinalityType, FS_EmptySet
<1>2. CreateObjects \div n \in Nat \ {0}
  <2> HIDE DEF n
  <2> QED BY <1>1
<1>3. VersionsOf("list") = Versions
  BY DEF VersionsOf
<1> QED BY <1>2, <1>3, VersionsAssumption DEF ObjPerPrefix
-----------------------------------------------------------------------------
(* Nothing is uploaded or signalled at first.                              *)
LEMMA InitStoreInv == Init => StoreInv
<1> SUFFICES ASSUME Init PROVE StoreInv
  OBVIOUS
<1>1. Known = {} /\ \A w \in Workers : ObjectPrefixes(batch[w]) = {}
  BY DEF Init, Known, ObjectPrefixes
<1>2. SignalInv
  BY DEF Init, SignalInv, Started
<1>3. PrepareInv
  BY DEF Init, PrepareInv
<1>4. ReadyInv
  BY DEF Init, ReadyInv, Started
<1>5. PrefixInv
  BY <1>1 DEF PrefixInv
<1>6. BucketInv
  BY DEF Init, BucketInv, OthersKept, CleanupLeavesNothing, OtherObject
<1> QED BY <1>2, <1>3, <1>4, <1>5, <1>6 DEF StoreInv

(* A thread of Start has seen the start channel closed, and Start returns  *)
(* when all have.                                                          *)
LEMMA StepSignalInv ==
    RunTypeOK /\ PhaseInv /\ SignalInv /\ [Next]_vars => SignalInv'
<1> SUFFICES ASSUME RunTypeOK, PhaseInv, SignalInv, [Next]_vars PROVE SignalInv'
  OBVIOUS
<1>1. CASE \E w \in Workers : Thread(w)
  <2>1. PICK w \in Workers : Thread(w)
    BY <1>1
  <2>2. /\ UNCHANGED <<mode, signals, main>>
        /\ \E to \in Pcs : pc' = [pc EXCEPT ![w] = to]
        /\ pc[w] = "wait" => start
    <3>1. CASE PrepareRange(w) \/ PrepareShare(w) \/ PrepareUpload(w) \/ PrepareUploadFails(w)
      BY <3>1 DEF PrepareRange, PrepareShare, PrepareUpload, PrepareUploadFails, Pcs
    <3>2. CASE PrepareSend(w) \/ SendOp(w)
      BY <3>2 DEF PrepareSend, SendOp, Report, Pcs
    <3>3. CASE WaitStart(w) \/ CheckExit(w) \/ CheckContinue(w) \/ Request(w)
      BY <3>3 DEF WaitStart, CheckExit, CheckContinue, Request, Pcs
    <3> QED BY <2>1, <3>1, <3>2, <3>3 DEF Thread
  <2>3. \A v \in Workers : v # w => pc'[v] = pc[v]
    BY <2>2 DEF RunTypeOK
  <2>4. main = "startWg" => pc[w] = "wait" \/ start
    BY DEF SignalInv
  <2>5. main' = "startWg" => \A v \in Workers : pc'[v] = "wait" \/ start'
    BY <2>2, <2>3, <2>4 DEF SignalInv
  <2> QED BY <2>2, <2>5 DEF SignalInv
<1>2. CASE Main
  <2>1. CASE PrepareBucket \/ PrepareVideo \/ PrepareExisting \/ PrepareReturns
    BY <2>1 DEF PrepareBucket, PrepareVideo, PrepareExisting, PrepareReturns,
                SignalInv, Started
  <2>2. CASE StartCalled
    BY <2>2 DEF StartCalled, SignalInv, Started
  <2>3. CASE StartCloses
    <3>1. PICK w \in Workers : pc[w] = "exited"
      BY <2>3, WorkersAssumption DEF StartCloses
    <3>2. start
      BY <2>3, <3>1 DEF StartCloses, SignalInv
    <3> QED BY <2>3, <3>2 DEF StartCloses, SignalInv, Started
  <2>4. CASE StartReturns \/ Sorted \/ Cleanup \/ NoCleanup
    BY <2>4 DEF StartReturns, Sorted, Cleanup, NoCleanup, SignalInv, Started
  <2> QED BY <1>2, <2>1, <2>2, <2>3, <2>4 DEF Main
<1>3. CASE Signals
  BY <1>3 DEF Signals, ScheduleStart, CloseStart, Deadline, CancelClient, AutoTerm,
              SignalInv, Started
<1>4. CASE DrainOps \/ SortSwaps \/ UNCHANGED vars
  BY <1>4 DEF DrainOps, SortSwaps, vars, benchVars, SignalInv
<1> QED BY <1>1, <1>2, <1>3, <1>4 DEF Next

(* What a thread does to the slice and to its batch: Prepare adds objects  *)
(* of the thread, delete takes some away, requests change nothing.         *)
LEMMA ThreadObjects ==
    ASSUME RunTypeOK, PhaseInv, PrefixInv, NEW w \in Workers, Thread(w)
    PROVE  /\ Known' \subseteq Known \cup {w}
           /\ kind = "delete" \/ Known \subseteq Known'
           /\ PrefixInv'
<1> USE DEF Known
<1>0. objects \in Seq(Object) /\ NewObject(w) \in Object /\ NewObject(w).prefix = w
  BY ObjectTypes, OpTypes DEF RunTypeOK, NewObject
<1>1. CASE UNCHANGED <<kind, objects, batch>>
  BY <1>1 DEF PrefixInv
<1>2. CASE PrepareUpload(w)
  <2>1. Known' = Known \cup {w}
    BY <1>0, <1>2, PrefixesAppend DEF PrepareUpload
  <2>2. \A v \in Workers : batch'[v] = batch[v] \/ batch'[v] = <<NewObject(w)>>
    BY <1>2 DEF PrepareUpload, RunTypeOK
  <2>3. ObjectPrefixes(<<NewObject(w)>>) = {w}
    BY <1>0, PrefixesOne
  <2>4. kind' = kind
    BY <1>2 DEF PrepareUpload
  <2>5. kind # "existing" => \A v \in Workers : ObjectPrefixes(batch'[v]) \subseteq Workers
    BY <2>2, <2>3 DEF PrefixInv
  <2> QED BY <2>1, <2>4, <2>5 DEF PrefixInv
<1>3. CASE PrepareSend(w) \/ SendOp(w)
  <2>1. UNCHANGED <<kind, objects>> /\ batch' = [batch EXCEPT ![w] = <<>>]
    BY <1>3 DEF PrepareSend, SendOp, Report
  <2>2. \A v \in Workers : batch'[v] = batch[v] \/ batch'[v] = <<>>
    BY <2>1 DEF RunTypeOK
  <2>3. ObjectPrefixes(<<>>) = {}
    BY DEF ObjectPrefixes
  <2> QED BY <2>1, <2>2, <2>3 DEF PrefixInv
<1>4. CASE CheckContinue(w)
  <2>0. kind' = kind
    BY <1>4 DEF CheckContinue
  <2>1. CASE FetchBatch(w)
    <3>1. Len(objects) \in Nat /\ BatchLen \in 0 .. Len(objects)
      BY <1>0, BatchSizeAssumption DEF BatchLen
    <3>2. /\ ObjectPrefixes(SubSeq(objects, 1, BatchLen)) \subseteq Known
          /\ ObjectPrefixes(SubSeq(objects, BatchLen + 1, Len(objects))) \subseteq Known
      BY <1>0, <3>1, PrefixesSub
    <3>3. Known' \subseteq Known /\ kind = "delete"
      BY <2>1, <3>2 DEF FetchBatch
    <3>4. \A v \in Workers : batch'[v] = batch[v]
                             \/ batch'[v] = SubSeq(objects, 1, BatchLen)
      BY <2>1 DEF FetchBatch, RunTypeOK
    <3> QED BY <2>0, <3>2, <3>3, <3>4 DEF PrefixInv
  <2>2. CASE PickObject(w)
    <3>1. UNCHANGED objects
      BY <2>2 DEF PickObject
    <3>2. \A v \in Workers :
             batch'[v] = batch[v] \/ ObjectPrefixes(batch'[v]) \subseteq Known \cup {w}
      <4>1. CASE GenerateObject(w)
        <5>1. \A v \in Workers : batch'[v] = batch[v] \/ batch'[v] = <<NewObject(w)>>
          BY <4>1 DEF GenerateObject, RunTypeOK
        <5>2. ObjectPrefixes(<<NewObject(w)>>) = {w}
          BY <1>0, PrefixesOne
        <5> QED BY <5>1, <5>2
      <4>2. CASE PackSnowball(w)
        <5> DEFINE pack == [i \in 1 .. NumObjs |->
                              [prefix |-> w, num |-> issued[w] * NumObjs + i]]
        <5>1. \A v \in Workers : batch'[v] = batch[v] \/ batch'[v] = pack
          BY <4>2 DEF PackSnowball, RunTypeOK
        <5>2. Len(pack) = NumObjs
          BY VersionsAssumption
        <5>3. \A i \in 1 .. NumObjs : pack[i].prefix = w
          OBVIOUS
        <5>4. ObjectPrefixes(pack) \subseteq {w}
          <6> HIDE DEF pack
          <6> QED BY <5>2, <5>3 DEF ObjectPrefixes
        <5> QED BY <5>1, <5>4
      <4>3. CASE PickAny(w)
        <5>1. PICK o \in ToSet(objects) : batch' = [batch EXCEPT ![w] = <<o>>]
          BY <4>3 DEF PickAny
        <5>2. o.prefix \in Known
          BY <1>0, <5>1 DEF ToSet, ObjectPrefixes
        <5>3. ObjectPrefixes(<<o>>) = {o.prefix}
          BY PrefixesOne
        <5>4. \A v \in Workers : batch'[v] = batch[v] \/ batch'[v] = <<o>>
          BY <5>1 DEF RunTypeOK
        <5> QED BY <5>2, <5>3, <5>4
      <4>4. CASE PickPrefix(w)
        BY <4>4 DEF PickPrefix
      <4> QED BY <2>2, <4>1, <4>2, <4>3, <4>4 DEF PickObject
    <3> QED BY <2>0, <3>1, <3>2 DEF PrefixInv
  <2> QED BY <1>4, <2>1, <2>2 DEF CheckContinue
<1>5. CASE Request(w)
  <2>1. UNCHANGED <<kind, objects>>
    BY <1>5 DEF Request
  <2>2. \A v \in Workers : batch'[v] = batch[v] \/ ObjectPrefixes(batch'[v]) \subseteq Workers
    <3>1. CASE UNCHANGED batch
      BY <3>1
    <3>2. CASE ListRequest(w)
      <4>1. \E n : batch' = [batch EXCEPT ![w] = [i \in 1 .. n |->
                                [prefix |-> lists[w], num |-> i]]]
        BY <3>2 DEF ListRequest
      <4>2. batch' \in [Workers -> Seq(Object)]
        BY <3>2, RequestTypeOK
      <4>3. PICK n : batch' = [batch EXCEPT ![w] = [i \in 1 .. n |->
                                 [prefix |-> lists[w], num |-> i]]]
        BY <4>1
      <4>4. batch'[w] = [i \in 1 .. n |-> [prefix |-> lists[w], num |-> i]]
        BY <4>3 DEF RunTypeOK
      <4>5. batch'[w] \in Seq(Object)
        BY <4>2
      <4>6. DOMAIN batch'[w] = 1 .. Len(batch'[w])
        BY <4>5
      <4>7. \A i \in 1 .. Len(batch'[w]) : batch'[w][i].prefix = lists[w]
        <5>1. \A i \in DOMAIN batch'[w] : batch'[w][i] = [prefix |-> lists[w], num |-> i]
          BY <4>4, Zenon
        <5>2. ASSUME NEW i \in 1 .. Len(batch'[w])
              PROVE  batch'[w][i].prefix = lists[w]
          <6>1. batch'[w][i] = [prefix |-> lists[w], num |-> i]
            BY <4>6, <5>1, Zenon
          <6> QED BY <6>1
        <5> QED BY <5>2
      <4>8. ObjectPrefixes(batch'[w]) \subseteq Workers
        BY <4>7 DEF ObjectPrefixes, RunTypeOK
      <4>9. \A v \in Workers : v # w => batch'[v] = batch[v]
        BY <4>3 DEF RunTypeOK
      <4> QED BY <4>8, <4>9
    <3> QED BY <1>5, <3>1, <3>2
            DEF Request, ReadRequest, PutRequest, SnowballRequest, DeleteRequest
  <2> QED BY <2>1, <2>2 DEF PrefixInv
<1> QED BY <1>1, <1>2, <1>3, <1>4, <1>5 DEF Thread, PrepareRange, PrepareShare,
           PrepareUploadFails, WaitStart, CheckExit

(* Threads run in one of two phases and signal nothing.                    *)
LEMMA ThreadPhase ==
    ASSUME PhaseInv, NEW w \in Workers, Thread(w)
    PROVE  /\ UNCHANGED <<mode, signals, main>>
           /\ \/ /\ main = "prepareWg"
                 /\ \/ PrepareRange(w) \/ PrepareShare(w) \/ PrepareUpload(w)
                    \/ PrepareUploadFails(w) \/ PrepareSend(w)
              \/ /\ main = "startWg"
                 /\ UNCHANGED groupErr
                 /\ \/ WaitStart(w) \/ CheckExit(w) \/ CheckContinue(w)
                    \/ Request(w) \/ SendOp(w)
<1>1. CASE PrepareRange(w) \/ PrepareShare(w) \/ PrepareUpload(w) \/ PrepareUploadFails(w)
  BY <1>1 DEF PrepareRange, PrepareShare, PrepareUpload, PrepareUploadFails, PhaseInv
<1>2. CASE PrepareSend(w)
  BY <1>2 DEF PrepareSend, Report, PhaseInv
<1>3. CASE SendOp(w)
  BY <1>3 DEF SendOp, Report, PhaseInv
<1>4. CASE WaitStart(w) \/ CheckExit(w) \/ CheckContinue(w) \/ Request(w)
  BY <1>4 DEF WaitStart, CheckExit, CheckContinue, Request, PhaseInv
<1> QED BY <1>1, <1>2, <1>3, <1>4 DEF Thread

(* Apart from the threads, only list-existing puts a new prefix into the   *)
(* slice: a shuffle keeps them all.                                        *)
LEMMA OtherSteps ==
    ASSUME RunTypeOK, PrefixInv, Main \/ Signals \/ DrainOps \/ SortSwaps \/ UNCHANGED vars
    PROVE  /\ UNCHANGED <<mode, batch>>
           /\ kind # "existing" => Known' = Known
           /\ PrefixInv'
<1>1. /\ UNCHANGED <<mode, batch>>
      /\ kind # "existing" => Known' = Known
  <2>1. CASE Main
    <3>1. CASE PrepareReturns
      <4>1. objects \in Seq(Object)
        BY DEF RunTypeOK
      <4>2. CASE kind = "delete"
        <5>1. objects' \in Shuffles(objects)
          BY <3>1, <4>2 DEF PrepareReturns
        <5>2. Known' = Known
          BY <4>1, <5>1, PrefixesShuffle DEF Known
        <5> QED BY <3>1, <5>2 DEF PrepareReturns
      <4>3. CASE kind # "delete"
        BY <3>1, <4>3 DEF PrepareReturns, Known
      <4> QED BY <4>2, <4>3
    <3>2. CASE PrepareBucket \/ PrepareVideo \/ PrepareExisting \/ StartCalled
      BY <3>2 DEF PrepareBucket, PrepareVideo, PrepareExisting, StartCalled, Known
    <3>3. CASE StartCloses \/ StartReturns \/ Sorted \/ Cleanup \/ NoCleanup
      BY <3>3 DEF StartCloses, StartReturns, Sorted, Cleanup, NoCleanup, Known
    <3> QED BY <2>1, <3>1, <3>2, <3>3 DEF Main
  <2>2. CASE Signals
    BY <2>2 DEF Signals, ScheduleStart, CloseStart, Deadline, CancelClient, AutoTerm, Known
  <2>3. CASE DrainOps \/ SortSwaps \/ UNCHANGED vars
    BY <2>3 DEF DrainOps, SortSwaps, vars, benchVars, Known
  <2> QED BY <2>1, <2>2, <2>3
<1> QED BY <1>1 DEF PrefixInv

(* The prefixes stay those of the threads.                                 *)
LEMMA StepPrefixInv ==
    RunTypeOK /\ PhaseInv /\ PrefixInv /\ [Next]_vars => PrefixInv'
BY ThreadObjects, OtherSteps DEF Next
-----------------------------------------------------------------------------
(* A step of a thread of Prepare that takes a token or a share leaves an   *)
(* object behind, or the error that fails Prepare.                         *)
LEMMA PrepareThread ==
    ASSUME RunTypeOK, PrepareInv, PrefixInv, PhaseInv,
           NEW w \in Workers, Thread(w), main = "prepareWg"
    PROVE  PrepareInv'
<1>1. /\ UNCHANGED <<mode, signals, main>>
      /\ \/ PrepareRange(w) \/ PrepareShare(w) \/ PrepareUpload(w)
         \/ PrepareUploadFails(w) \/ PrepareSend(w)
  BY ThreadPhase
<1>2. kind \in {"get", "retention", "list", "delete"}
  BY DEF PrepareInv
<1>3. /\ pc \in [Workers -> Pcs] /\ issued \in [Workers -> Nat]
      /\ todo \in Nat /\ CreateObjects \in Nat
  BY CreateObjectsAssumption DEF RunTypeOK
<1>4. CASE PrepareRange(w)
  <2>1. kind # "list" /\ pc[w] = "range" /\ UNCHANGED <<groupErr, objects>>
    BY <1>4 DEF PrepareRange
  <2>2. CASE todo = 0
    <3>1. pc' = [pc EXCEPT ![w] = "exited"] /\ UNCHANGED todo
      BY <1>4, <2>2 DEF PrepareRange
    <3>2. \A v \in Workers : pc[v] = "upload" => pc'[v] = "upload"
      BY <1>3, <2>1, <3>1
    <3> QED BY <1>1, <1>2, <2>1, <2>2, <3>1, <3>2 DEF PrepareInv, Known
  <2>3. CASE todo # 0 /\ ~ctxDone
    <3>1. pc' = [pc EXCEPT ![w] = "upload"]
      BY <1>4, <2>3 DEF PrepareRange
    <3>2. pc'[w] = "upload" /\ \A v \in Workers : v # w => pc'[v] = pc[v]
      BY <1>3, <3>1
    <3>3. ~groupErr => \A v \in Workers : pc'[v] # "exited"
      BY <2>1, <2>3, <3>2 DEF PrepareInv
    <3> QED BY <1>1, <1>2, <2>1, <3>2, <3>3 DEF PrepareInv
  <2>4. CASE ctxDone
    BY <1>1, <1>2, <2>1, <2>4 DEF PrepareInv
  <2> QED BY <2>2, <2>3, <2>4
<1>5. CASE PrepareShare(w)
  <2>1. kind = "list" /\ UNCHANGED <<groupErr, objects, issued>>
    BY <1>5 DEF PrepareShare
  <2>2. CASE ctxDone
    BY <1>1, <1>2, <2>1, <2>2 DEF PrepareInv
  <2>3. CASE ~ctxDone
    <3>1. ObjPerPrefix * VersionsOf(kind) > 0
      <4>1. kind \in Kinds
        BY DEF RunTypeOK
      <4>2. ObjPerPrefix \in Nat \ {0} /\ VersionsOf(kind) \in Nat \ {0}
        BY <2>1, <4>1, Shares
      <4> QED BY <4>2
    <3>2. \A v \in Workers :
             \/ pc'[v] = pc[v]
             \/ pc'[v] = "upload"
             \/ v = w /\ issued[v] > 0
      BY <1>3, <1>5, <2>3, <3>1 DEF PrepareShare
    <3>3. ~groupErr => \A v \in Workers :
             pc'[v] \in {"exited", "prepareSend"} \/ issued[v] > 0 => v \in Known
      BY <2>1, <2>3, <3>2 DEF PrepareInv
    <3> QED BY <1>1, <1>2, <2>1, <3>3 DEF PrepareInv, Known
  <2> QED BY <2>2, <2>3
<1>6. CASE PrepareUpload(w)
  <2>1. objects \in Seq(Object) /\ NewObject(w) \in Object /\ NewObject(w).prefix = w
    BY ObjectTypes, OpTypes DEF RunTypeOK, NewObject
  <2>2. Known' = Known \cup {w}
    BY <1>6, <2>1, PrefixesAppend DEF PrepareUpload, Known
  <2>3. UNCHANGED <<todo, groupErr, issued>> /\ pc' = [pc EXCEPT ![w] = "prepareSend"]
    BY <1>6 DEF PrepareUpload
  <2>4. pc'[w] = "prepareSend" /\ \A v \in Workers : v # w => pc'[v] = pc[v]
    BY <1>3, <2>3
  <2> QED BY <1>1, <1>2, <2>2, <2>3, <2>4 DEF PrepareInv
<1>7. CASE PrepareUploadFails(w)
  BY <1>1, <1>2, <1>7 DEF PrepareUploadFails, PrepareInv
<1>8. CASE PrepareSend(w)
  <2>1. /\ pc[w] = "prepareSend"
        /\ pc' \in {[pc EXCEPT ![w] = "upload"], [pc EXCEPT ![w] = "range"]}
        /\ issued' = [issued EXCEPT ![w] = @ + 1]
        /\ UNCHANGED <<todo, groupErr, objects>>
    BY <1>8 DEF PrepareSend, Report
  <2>2. /\ pc'[w] \in {"upload", "range"}
        /\ \A v \in Workers : v # w => pc'[v] = pc[v] /\ issued'[v] = issued[v]
    BY <1>3, <2>1
  <2>3. CASE kind = "list"
    <3>1. ~groupErr /\ ~ctxDone => w \in Known
      BY <2>1, <2>3 DEF PrepareInv
    <3>2. ~groupErr /\ ~ctxDone => \A v \in Workers :
             pc'[v] \in {"exited", "prepareSend"} \/ issued'[v] > 0 => v \in Known
      BY <2>2, <2>3, <3>1 DEF PrepareInv
    <3> QED BY <1>1, <2>1, <2>3, <3>2 DEF PrepareInv, Known
  <2>4. CASE kind # "list"
    <3>1. \A v \in Workers : pc'[v] = "exited" => pc[v] = "exited"
      BY <2>2
    <3>2. \A v \in Workers : pc[v] = "upload" => pc'[v] = "upload"
      BY <2>1, <2>2
    <3> QED BY <1>1, <1>2, <2>1, <2>4, <3>1, <3>2 DEF PrepareInv, Known
  <2> QED BY <2>3, <2>4
<1> QED BY <1>1, <1>4, <1>5, <1>6, <1>7, <1>8

(* Prepare begins with all its tokens; its end and the start of the        *)
(* benchmark leave what it did.                                            *)
LEMMA StepPrepareInv ==
    RunTypeOK /\ PhaseInv /\ PrefixInv /\ PrepareInv /\ [Next]_vars => PrepareInv'
<1> SUFFICES ASSUME RunTypeOK, PhaseInv, PrefixInv, PrepareInv, [Next]_vars
             PROVE  PrepareInv'
  OBVIOUS
<1>1. CASE \E w \in Workers : Thread(w)
  <2>1. PICK w \in Workers : Thread(w)
    BY <1>1
  <2>2. CASE main = "prepareWg"
    BY <2>1, <2>2, PrepareThread
  <2>3. CASE main = "startWg"
    <3>1. main' = "startWg" /\ UNCHANGED groupErr
      BY <2>1, <2>3, ThreadPhase
    <3> QED BY <2>3, <3>1 DEF PrepareInv
  <2> QED BY <2>1, <2>2, <2>3, ThreadPhase
<1>2. CASE Main
  <2>1. CASE PrepareBucket
    <3>1. /\ todo = CreateObjects /\ \A w \in Workers : issued[w] = 0
          /\ ~groupErr
      BY <2>1 DEF PrepareBucket, PrepareInv
    <3>2. kind \in {"put", "snowball", "get", "retention", "list", "delete"}
      BY <2>1, KindsAssumption DEF PrepareBucket, RunTypeOK
    <3>3. UNCHANGED <<kind, todo, issued, groupErr>>
      BY <2>1 DEF PrepareBucket
    <3>4. CASE main' # "prepareWg"
      BY <2>1, <3>1, <3>3, <3>4 DEF PrepareBucket, PrepareInv
    <3>5. CASE main' = "prepareWg"
      <4>1. /\ kind \in {"get", "retention", "list", "delete"}
            /\ \A w \in Workers : pc'[w] = "range"
        BY <2>1, <3>2, <3>5 DEF PrepareBucket
      <4>2. ~ (todo' < CreateObjects) /\ \A w \in Workers : ~ (issued'[w] > 0)
        BY <3>1, <3>3, CreateObjectsAssumption
      <4> QED BY <3>1, <3>3, <3>5, <4>1, <4>2 DEF PrepareInv
    <3> QED BY <3>4, <3>5
  <2>2. CASE PrepareVideo \/ PrepareExisting
    BY <2>2 DEF PrepareVideo, PrepareExisting, PrepareInv
  <2>3. CASE PrepareReturns
    BY <2>3 DEF PrepareReturns, PrepareInv
  <2>4. CASE StartCalled \/ StartCloses \/ StartReturns \/ Sorted \/ Cleanup \/ NoCleanup
    BY <2>4 DEF StartCalled, StartCloses, StartReturns, Sorted, Cleanup, NoCleanup, PrepareInv
  <2> QED BY <1>2, <2>1, <2>2, <2>3, <2>4 DEF Main
<1>3. CASE Signals
  <2>1. UNCHANGED <<kind, main, pc, issued, todo, groupErr, objects>> /\ (ctxDone => ctxDone')
    BY <1>3 DEF Signals, ScheduleStart, CloseStart, Deadline, CancelClient, AutoTerm
  <2> QED BY <2>1 DEF PrepareInv, Known
<1>4. CASE DrainOps \/ SortSwaps \/ UNCHANGED vars
  BY <1>4 DEF DrainOps, SortSwaps, vars, benchVars, PrepareInv, Known
<1> QED BY <1>1, <1>2, <1>3, <1>4 DEF Next

(* A Prepare that succeeds and was not cancelled has objects to read, and  *)
(* only such a run is started.                                             *)
LEMMA StepReadyInv ==
    RunTypeOK /\ PhaseInv /\ SignalInv /\ PrefixInv /\ PrepareInv /\ ReadyInv /\ [Next]_vars
       => ReadyInv'
<1> SUFFICES ASSUME RunTypeOK, PhaseInv, SignalInv, PrefixInv, PrepareInv, ReadyInv,
                    [Next]_vars
             PROVE  ReadyInv'
  OBVIOUS
<1>1. CASE \E w \in Workers : Thread(w)
  <2>1. PICK w \in Workers : Thread(w)
    BY <1>1
  <2>2. UNCHANGED <<mode, signals, main>> /\ (kind = "delete" \/ Known \subseteq Known')
    BY <2>1, ThreadPhase, ThreadObjects
  <2> QED BY <2>2 DEF ReadyInv
<1>2. CASE Main
  <2>1. CASE PrepareBucket
    BY <2>1 DEF PrepareBucket, ReadyInv, Started
  <2>2. CASE PrepareVideo
    BY <2>2 DEF PrepareVideo, ReadyInv, Started
  <2>3. CASE PrepareExisting
    <3>1. ObjectPrefixes(<<Listed>>) # {}
      BY PrefixesOne
    <3>2. main' = "prepared" => Known' # {}
      BY <2>3, <3>1 DEF PrepareExisting, Known
    <3> QED BY <2>3, <3>2 DEF PrepareExisting, ReadyInv, Started
  <2>4. CASE PrepareReturns
    <3>1. CASE groupErr \/ kind = "delete" \/ (ctxDone /\ clientMode)
      <4>1. ~startReq
        BY <2>4 DEF PrepareReturns, SignalInv
      <4> QED BY <2>4, <3>1, <4>1 DEF PrepareReturns, ReadyInv, Started
    <3>2. CASE ~groupErr /\ kind # "delete" /\ ~(ctxDone /\ clientMode)
      <4>1. main = "prepareWg" /\ ~ctxDone /\ \A w \in Workers : pc[w] = "exited"
        BY <2>4, <3>2 DEF PrepareReturns, SignalInv
      <4>2. UNCHANGED <<kind, objects>>
        BY <2>4, <3>2 DEF PrepareReturns
      <4>3. kind = "list" => Workers \subseteq Known
        BY <3>2, <4>1 DEF PrepareInv
      <4>4. kind # "list" => Known # {}
        <5>1. PICK w \in Workers : pc[w] = "exited"
          BY <4>1, WorkersAssumption
        <5>2. kind # "list" => todo = 0
          BY <3>2, <4>1, <5>1 DEF PrepareInv
        <5>3. 0 < CreateObjects
          BY CreateObjectsAssumption
        <5> QED BY <3>2, <4>1, <5>2, <5>3 DEF PrepareInv
      <4> QED BY <2>4, <4>1, <4>2, <4>3, <4>4 DEF PrepareInv, ReadyInv, Known
    <3> QED BY <3>1, <3>2, Zenon
  <2>5. CASE StartCalled \/ StartCloses \/ StartReturns \/ Sorted \/ Cleanup \/ NoCleanup
    <3>1. UNCHANGED <<mode, signals, objects>> /\ main \in {"prepared", "startWg"} \cup Started
      BY <2>5 DEF StartCalled, StartCloses, StartReturns, Sorted, Cleanup, NoCleanup, Started
    <3> QED BY <3>1 DEF ReadyInv, Known
  <2> QED BY <1>2, <2>1, <2>2, <2>3, <2>4, <2>5 DEF Main
<1>3. CASE Signals
  <2>1. /\ UNCHANGED <<mode, main, objects>>
        /\ ctxDone => ctxDone'
        /\ ~startReq /\ startReq' => ~clientMode \/ ~ctxDone
    BY <1>3 DEF Signals, ScheduleStart, CloseStart, Deadline, CancelClient, AutoTerm
  <2>2. startReq' \in BOOLEAN /\ startReq \in BOOLEAN
    BY <1>3 DEF Signals, ScheduleStart, CloseStart, Deadline, CancelClient, AutoTerm, RunTypeOK
  <2> QED BY <2>1, <2>2 DEF ReadyInv, Known
<1>4. CASE DrainOps \/ SortSwaps \/ UNCHANGED vars
  BY <1>4 DEF DrainOps, SortSwaps, vars, benchVars, ReadyInv, Known
<1> QED BY <1>1, <1>2, <1>3, <1>4 DEF Next
-----------------------------------------------------------------------------
(* The bucket of a benchmark that only uploads in Start holds objects of   *)
(* all threads; what another one left there it also has in its slice.      *)
LEMMA ThreadBucket ==
    ASSUME RunTypeOK, PhaseInv, PrefixInv, PrepareInv, BucketInv,
           NEW w \in Workers, Thread(w)
    PROVE  BucketInv'
<1>1. UNCHANGED <<mode, main>> /\ main \in {"prepareWg", "startWg"}
  BY ThreadPhase
<1>2. main' # "done"
  BY <1>1
<1>3. kind = "delete" \/ Owned \subseteq Owned'
  BY <1>1, ThreadObjects DEF Owned
<1>4. OtherObject.prefix = OtherPrefix /\ OtherPrefix \notin Workers
  BY PrefixesAssumption DEF OtherObject
<1>5. CASE bucket' = bucket /\ (groupErr => groupErr')
  BY <1>1, <1>2, <1>3, <1>5 DEF BucketInv, OthersKept, CleanupLeavesNothing
<1>6. CASE PrepareUpload(w)
  <2>1. bucket' = bucket \cup {NewObject(w)} /\ NewObject(w).prefix = w /\ UNCHANGED groupErr
    BY <1>6 DEF PrepareUpload, NewObject
  <2>2. kind \notin {"put", "video", "snowball", "existing"}
    <3>1. main = "prepareWg"
      BY <1>6 DEF PrepareUpload, PhaseInv
    <3> QED BY <3>1 DEF PrepareInv
  <2>3. w \in Owned'
    <3>1. objects' = Append(objects, NewObject(w))
      BY <1>6 DEF PrepareUpload
    <3>2. objects \in Seq(Object) /\ NewObject(w) \in Object
      BY ObjectTypes, OpTypes DEF RunTypeOK
    <3>3. w \in Known'
      BY <2>1, <3>1, <3>2, PrefixesAppend DEF Known
    <3> QED BY <1>1, <2>2, <3>3 DEF Owned
  <2> QED BY <1>1, <1>2, <1>3, <2>1, <2>3 DEF BucketInv, OthersKept, CleanupLeavesNothing
<1>7. CASE PrepareUploadFails(w)
  <2>1. bucket \subseteq bucket' /\ groupErr'
    BY <1>7 DEF PrepareUploadFails
  <2> QED BY <1>1, <1>2, <2>1 DEF BucketInv, OthersKept, CleanupLeavesNothing
<1>8. CASE Request(w) /\ bucket' # bucket
  <2> DEFINE mine == ToSet(batch[w])
  <2>0. UNCHANGED groupErr
    BY <1>8 DEF Request
  <2>1. kind # "existing" => \A o \in mine : o.prefix \in Workers
    BY DEF PrefixInv, ObjectPrefixes, ToSet, RunTypeOK
  <2>2. CASE PutRequest(w) \/ SnowballRequest(w)
    <3>1. bucket' \subseteq bucket \cup mine /\ bucket \subseteq bucket'
      <4>1. CASE PutRequest(w)
        BY <4>1 DEF PutRequest
      <4>2. CASE SnowballRequest(w)
        <5>1. PICK n \in 0 .. Len(batch[w]) :
                 bucket' = bucket \cup ToSet(SubSeq(batch[w], 1, n))
          BY <4>2 DEF SnowballRequest
        <5>2. batch[w] \in Seq(Object)
          BY DEF RunTypeOK
        <5>3. ToSet(SubSeq(batch[w], 1, n)) \subseteq mine
          BY <5>2 DEF ToSet
        <5> QED BY <5>1, <5>3
      <4> QED BY <2>2, <4>1, <4>2
    <3>2. kind \in {"put", "video", "snowball"}
      BY <2>2 DEF PutRequest, SnowballRequest
    <3>3. Owned' = Workers /\ Owned = Workers
      BY <1>1, <3>2 DEF Owned
    <3>4. \A o \in bucket' : o \in bucket \/ o.prefix \in Owned'
      BY <2>1, <3>1, <3>2, <3>3
    <3> QED BY <1>1, <1>2, <2>0, <3>1, <3>3, <3>4 DEF BucketInv, OthersKept, CleanupLeavesNothing
  <2>3. CASE DeleteRequest(w)
    <3>1. kind = "delete" /\ bucket \ mine \subseteq bucket'
      BY <2>3 DEF DeleteRequest
    <3>2. OtherObject \notin mine
      BY <1>4, <2>1, <3>1
    <3> QED BY <1>1, <1>2, <3>1, <3>2 DEF BucketInv, OthersKept, CleanupLeavesNothing
  <2>4. CASE ReadRequest(w) \/ ListRequest(w)
    BY <1>8, <2>4 DEF ReadRequest, ListRequest
  <2> QED BY <1>8, <2>2, <2>3, <2>4 DEF Request
<1> QED BY <1>5, <1>6, <1>7, <1>8 DEF Thread, PrepareRange, PrepareShare, PrepareSend,
        SendOp, Report, WaitStart, CheckExit, CheckContinue, Request

(* Cleanup comes with prefixes, none of them somebody else's, and with     *)
(* those of all the objects the run left in the bucket.                    *)
LEMMA CleanupBucket ==
    ASSUME RunTypeOK, SignalInv, PrefixInv, PrepareInv, ReadyInv, BucketInv, Cleanup
    PROVE  BucketInv'
<1>1. /\ main = "cleanup" /\ UNCHANGED <<mode, groupErr, objects>>
      /\ bucket' = IF KeepsBucket THEN bucket ELSE DeleteAllInBucket(CleanupPrefixes)
  BY DEF Cleanup
<1>2. Owned' = Owned /\ ~groupErr
  BY <1>1 DEF Owned, Known, PrepareInv
<1>3. bucket' \subseteq bucket
  BY <1>1 DEF DeleteAllInBucket
<1>4. CASE KeepsBucket
  <2>1. kind = "existing" /\ ~groupErr => Uploaded = {}
    BY <1>4 DEF BucketInv, Owned, Uploaded
  <2> QED BY <1>1, <1>2, <1>4, <2>1
          DEF BucketInv, KeepsBucket, OthersKept, CleanupLeavesNothing, Uploaded
<1>5. CASE ~KeepsBucket
  <2>1. kind # "existing" /\ (kind = "delete" => objects # <<>>)
    BY <1>5 DEF KeepsBucket
  <2>2. CleanupPrefixes = Owned
    BY <2>1 DEF CleanupPrefixes, Owned, Known
  <2>3. Owned \subseteq Workers
    BY <2>1 DEF Owned, PrefixInv
  <2>4. OtherPrefix \notin Owned /\ NoPrefix \notin Owned
    BY <2>3, PrefixesAssumption
  <2>5. Owned # {}
    <3>1. start /\ startReq
      BY <1>1 DEF SignalInv, Started
    <3>2. /\ kind \in {"get", "retention"} => Known # {}
          /\ kind = "list" => Workers \subseteq Known
      BY <1>1, <3>1 DEF ReadyInv, Started
    <3>3. kind = "delete" => Known # {}
      BY <2>1, PrefixesEmpty DEF Known, RunTypeOK
    <3> QED BY <2>1, <3>2, <3>3, WorkersAssumption, KindsAssumption DEF Owned, RunTypeOK
  <2>6. bucket' = {o \in bucket : o.prefix \notin Owned}
    BY <1>1, <1>5, <2>2, <2>4, <2>5 DEF DeleteAllInBucket
  <2>7. OthersKept'
    BY <1>1, <2>4, <2>6 DEF BucketInv, OthersKept, OtherObject
  <2>8. kind # "delete" => Uploaded' = {}
    BY <1>2, <2>6 DEF BucketInv, Uploaded
  <2> QED BY <1>1, <1>2, <1>3, <2>7, <2>8 DEF BucketInv, CleanupLeavesNothing
<1> QED BY <1>4, <1>5

(* Every step keeps account of what is in the bucket.                      *)
LEMMA StepBucketInv ==
    RunTypeOK /\ PhaseInv /\ StoreInv /\ [Next]_vars => BucketInv'
<1> SUFFICES ASSUME RunTypeOK, PhaseInv, SignalInv, PrepareInv, ReadyInv, PrefixInv,
                    BucketInv, [Next]_vars
             PROVE  BucketInv'
  BY DEF StoreInv
<1>1. CASE \E w \in Workers : Thread(w)
  BY <1>1, ThreadBucket
<1>2. CASE Main
  <2>0. UNCHANGED mode /\ (kind # "existing" => Known' = Known)
    BY <1>2, OtherSteps
  <2>1. Owned' = Owned
    BY <2>0 DEF Owned
  <2>2. CASE Cleanup
    BY <2>2, CleanupBucket
  <2>3. CASE PrepareBucket
    <3>1. /\ main' # "done" /\ UNCHANGED groupErr
          /\ bucket' = IF clientMode THEN bucket ELSE {}
          /\ kind \notin {"video", "existing"}
      BY <2>3 DEF PrepareBucket, CreateEmptyBucket
    <3> QED BY <2>0, <2>1, <3>1 DEF BucketInv, OthersKept, CleanupLeavesNothing
  <2>4. CASE \/ PrepareVideo \/ PrepareExisting \/ PrepareReturns \/ StartCalled
             \/ StartCloses \/ StartReturns \/ Sorted \/ NoCleanup
    <3>1. UNCHANGED <<bucket, groupErr>> /\ main' # "done"
      BY <2>4 DEF PrepareVideo, PrepareExisting, PrepareReturns, StartCalled,
                  StartCloses, StartReturns, Sorted, NoCleanup
    <3> QED BY <2>0, <2>1, <3>1 DEF BucketInv, OthersKept, CleanupLeavesNothing
  <2> QED BY <1>2, <2>2, <2>3, <2>4 DEF Main
<1>3. CASE Signals \/ DrainOps \/ SortSwaps \/ UNCHANGED vars
  <2>1. UNCHANGED <<mode, main, bucket, groupErr, objects>>
    BY <1>3 DEF Signals, ScheduleStart, CloseStart, Deadline, CancelClient, AutoTerm,
                DrainOps, SortSwaps, vars, benchVars
  <2> QED BY <2>1 DEF BucketInv, Owned, Known, OthersKept, CleanupLeavesNothing, Uploaded
<1> QED BY <1>1, <1>2, <1>3 DEF Next

(* The five invariants hold together.                                      *)
LEMMA StepStoreInv ==
    RunTypeOK /\ PhaseInv /\ StoreInv /\ [Next]_vars => StoreInv'
BY StepSignalInv, StepPrepareInv, StepReadyInv, StepPrefixInv, StepBucketInv DEF StoreInv

(* What a run has uploaded, listed and left in the bucket is always        *)
(* accounted for by the slice of objects.                                  *)
THEOREM StoreAccounted == Spec => [](RunTypeOK /\ PhaseInv /\ StoreInv)
BY RunPhases, InitStoreInv, StepStoreInv, PTL DEF Spec
-----------------------------------------------------------------------------
(* A thread in the loop of Start belongs to a started run, and that has    *)
(* objects to read.                                                        *)
LEMMA StoreInvReads == RunTypeOK /\ PhaseInv /\ StoreInv => ReadsHaveObjects
<1> SUFFICES ASSUME RunTypeOK, PhaseInv, SignalInv, ReadyInv,
                    NEW w \in Workers, pc[w] = "check"
             PROVE  /\ kind \in {"get", "retention", "existing"} => objects # <<>>
                    /\ kind = "list" => ListOf(w) # {}
  BY DEF StoreInv, ReadsHaveObjects
<1>1. main = "startWg" /\ start /\ startReq
  BY DEF PhaseInv, SignalInv
<1>2. /\ kind \in {"get", "retention", "existing"} => Known # {}
      /\ kind = "list" => Workers \subseteq Known
  BY <1>1 DEF ReadyInv
<1>3. objects \in Seq(Object) /\ lists[w] \in Workers
  BY DEF RunTypeOK
<1>4. kind \in {"get", "retention", "existing"} => objects # <<>>
  BY <1>2, <1>3, PrefixesEmpty DEF Known
<1>5. ASSUME kind = "list" PROVE ListOf(w) # {}
  <2>1. PICK i \in 1 .. Len(objects) : objects[i].prefix = lists[w]
    BY <1>2, <1>3, <1>5 DEF Known, ObjectPrefixes
  <2>2. objects[i] \in ListOf(w)
    BY <1>3, <2>1 DEF ListOf, ToSet
  <2> QED BY <2>2
<1> QED BY <1>4, <1>5

(* No thread of a reading benchmark ever picks from an empty slice: a      *)
(* Prepare that failed or was cancelled before its first upload is never   *)
(* followed by a start.                                                    *)
THEOREM ReadersHaveObjects == Spec => []ReadsHaveObjects
BY StoreAccounted, StoreInvReads, PTL

(* Both statements are parts of the invariant.                             *)
LEMMA StoreInvBucket == StoreInv => OthersKept /\ CleanupLeavesNothing
BY DEF StoreInv, BucketInv

(* Cleanup never touches what others put into the bucket.                  *)
THEOREM OnlyOwnDeleted == Spec => []OthersKept
BY StoreAccounted, StoreInvBucket, PTL

(* Cleanup leaves nothing of what the run uploaded, delete aside.          *)
THEOREM NothingLeft == Spec => []CleanupLeavesNothing
BY StoreAccounted, StoreInvBucket, PTL
-----------------------------------------------------------------------------
(* The delete benchmark: the objects a thread holds between the slice and  *)
(* its report, and the uploads that wait for theirs.                       *)
Pairs(S, n) == UNION {{i} \X (1 .. n[i]) : i \in S}

Holding == {w \in Workers : pc[w] \in {"request", "send"}}
Held == Pairs(Holding, [w \in Workers |-> Len(batch[w])])
Uploading == {w \in Workers : pc[w] = "prepareSend"}

(* Every object that was uploaded is in the slice, in the hands of one     *)
(* thread, or in one report.                                               *)
DeleteInv ==
    kind = "delete" =>
        Cardinality(UploadsIn(sent)) + Cardinality(Uploading)
          = Len(objects) + Cardinality(Held) + Cardinality(AskedIn(sent))

(* Finitely many counts have finitely many pairs.                          *)
LEMMA PairsFinite ==
    ASSUME NEW S, IsFiniteSet(S), NEW n, \A i \in S : n[i] \in Nat
    PROVE  IsFiniteSet(Pairs(S, n))
<1> DEFINE f == [i \in S |-> {i} \X (1 .. n[i])]
           T == {{i} \X (1 .. n[i]) : i \in S}
<1>1. f \in Surjection(S, T)
  BY DEF Surjection
<1>2. IsFiniteSet(T)
  <2> HIDE DEF f, T
  <2> QED BY <1>1, FS_Surjection
<1>3. \A i \in S : IsFiniteSet({i} \X (1 .. n[i]))
  <2> SUFFICES ASSUME NEW i \in S PROVE IsFiniteSet({i} \X (1 .. n[i]))
    OBVIOUS
  <2>1. 1 \in Int /\ n[i] \in Int
    OBVIOUS
  <2>2. IsFiniteSet({i}) /\ IsFiniteSet(1 .. n[i])
    BY <2>1, FS_Singleton, FS_Interval
  <2> QED BY <2>2, FS_Product, Zenon
<1>4. \A U \in T : IsFiniteSet(U)
  BY <1>3
<1>5. IsFiniteSet(UNION T)
  <2> HIDE DEF T
  <2> QED BY <1>2, <1>4, FS_UNION
<1> QED BY <1>5 DEF Pairs

(* A further count adds as many pairs.                                     *)
LEMMA PairsAdd ==
    ASSUME NEW S, IsFiniteSet(S), NEW x, x \notin S,
           NEW n, \A i \in S \cup {x} : n[i] \in Nat
    PROVE  /\ Cardinality(Pairs(S, n)) \in Nat
           /\ Cardinality(Pairs(S \cup {x}, n)) = Cardinality(Pairs(S, n)) + n[x]
<1> DEFINE P == Pairs(S, n)
           Q == {x} \X (1 .. n[x])
<1>1. Pairs(S \cup {x}, n) = P \cup Q
  BY DEF Pairs
<1>2. P \cap Q = {}
  BY DEF Pairs
<1>3. IsFiniteSet(P)
  BY PairsFinite
<1>4. IsFiniteSet(Q) /\ Cardinality(Q) = n[x]
  <2>1. n[x] \in Nat
    OBVIOUS
  <2>2. IsFiniteSet(1 .. n[x]) /\ Cardinality(1 .. n[x]) = n[x]
    <3>1. 1 \in Int /\ n[x] \in Int /\ n[x] - 1 + 1 = n[x] /\ (1 > n[x] => n[x] = 0)
      BY <2>1
    <3> QED BY <3>1, FS_Interval
  <2>3. IsFiniteSet({x}) /\ Cardinality({x}) = 1
    BY FS_Singleton
  <2>4. IsFiniteSet(Q) /\ Cardinality(Q) = Cardinality({x}) * Cardinality(1 .. n[x])
    BY <2>2, <2>3, FS_Product, Zenon
  <2>5. 1 * n[x] = n[x]
    BY <2>1
  <2> HIDE DEF Q
  <2> QED BY <2>2, <2>3, <2>4, <2>5, Zenon
<1> HIDE DEF P, Q
<1>5. Cardinality(P) \in Nat
  BY <1>3, FS_CardinalityType
<1>6. Cardinality(P \cup Q) = Cardinality(P) + Cardinality(Q) - Cardinality(P \cap Q)
  BY <1>3, <1>4, FS_Union
<1>7. Cardinality(P \cap Q) = 0
  BY <1>2, FS_EmptySet
<1>8. n[x] \in Nat
  OBVIOUS
<1>9. Cardinality(P \cup Q) = Cardinality(P) + n[x]
  BY <1>4, <1>5, <1>6, <1>7, <1>8
<1> QED BY <1>1, <1>5, <1>9 DEF P

(* The pairs depend on the counts of their own set only.                   *)
LEMMA PairsSame ==
    ASSUME NEW S, NEW n, NEW m, \A i \in S : n[i] = m[i]
    PROVE  Pairs(S, n) = Pairs(S, m)
BY DEF Pairs

(* The sets that are counted are finite.                                   *)
LEMMA CountsAreNumbers ==
    ASSUME RunTypeOK, NEW s \in Seq(Operation)
    PROVE  /\ Cardinality(UploadsIn(s)) \in Nat /\ IsFiniteSet(UploadsIn(s))
           /\ Cardinality(AskedIn(s)) \in Nat
           /\ Cardinality(Uploading) \in Nat /\ IsFiniteSet(Uploading)
           /\ Cardinality(Held) \in Nat
           /\ IsFiniteSet(DeletesIn(s)) /\ IsFiniteSet(Holding)
<1>1. IsFiniteSet(1 .. Len(s))
  <2>1. 1 \in Int /\ Len(s) \in Int
    OBVIOUS
  <2> QED BY <2>1, FS_Interval
<1>2. UploadsIn(s) \in SUBSET (1 .. Len(s)) /\ DeletesIn(s) \in SUBSET (1 .. Len(s))
  BY DEF UploadsIn, DeletesIn
<1>3. Uploading \in SUBSET Workers /\ Holding \in SUBSET Workers
  BY DEF Uploading, Holding
<1>4. /\ IsFiniteSet(UploadsIn(s)) /\ IsFiniteSet(DeletesIn(s))
      /\ IsFiniteSet(Uploading) /\ IsFiniteSet(Holding)
  BY <1>1, <1>2, <1>3, FS_Subset, WorkersAssumption
<1>5. IsFiniteSet(AskedIn(s))
  <2> DEFINE n == [i \in DeletesIn(s) |-> s[i].objPerOp]
  <2>1. \A i \in DeletesIn(s) : n[i] \in Nat
    <3> SUFFICES ASSUME NEW i \in DeletesIn(s) PROVE s[i].objPerOp \in Nat
      OBVIOUS
    <3>1. s[i] \in Operation
      BY DEF DeletesIn
    <3> QED BY <3>1 DEF Operation
  <2>2. AskedIn(s) = Pairs(DeletesIn(s), n)
    BY DEF AskedIn, Pairs
  <2> HIDE DEF n
  <2> QED BY <1>4, <2>1, <2>2, PairsFinite
<1>6. IsFiniteSet(Held)
  <2> DEFINE n == [w \in Workers |-> Len(batch[w])]
  <2>1. \A w \in Holding : n[w] \in Nat
    <3> SUFFICES ASSUME NEW w \in Holding PROVE n[w] \in Nat
      OBVIOUS
    <3>1. w \in Workers /\ batch[w] \in Seq(Object)
      BY <1>3 DEF RunTypeOK
    <3> QED BY <3>1
  <2> HIDE DEF n
  <2> QED BY <1>4, <2>1, PairsFinite DEF Held, n
<1> QED BY <1>4, <1>5, <1>6, FS_CardinalityType

(* What a report adds to the uploads and to the objects asked for.         *)
LEMMA CountsAppend ==
    ASSUME NEW s \in Seq(Operation), NEW op \in Operation, RunTypeOK
    PROVE  /\ op.type = "put" =>
                /\ Cardinality(UploadsIn(Append(s, op))) = Cardinality(UploadsIn(s)) + 1
                /\ AskedIn(Append(s, op)) = AskedIn(s)
           /\ op.type = "delete" =>
                /\ UploadsIn(Append(s, op)) = UploadsIn(s)
                /\ Cardinality(AskedIn(Append(s, op))) = Cardinality(AskedIn(s)) + op.objPerOp
<1> DEFINE r == Append(s, op)
           m == Len(s) + 1
<1>1. /\ Len(s) \in Nat /\ m \in Nat /\ Len(r) = m
      /\ r[m] = op
      /\ \A i \in 1 .. Len(s) : r[i] = s[i]
      /\ 1 .. m = (1 .. Len(s)) \cup {m}
      /\ m \notin 1 .. Len(s)
  OBVIOUS
<1>2. r \in Seq(Operation)
  OBVIOUS
<1> HIDE DEF r, m
<1>3. m \notin UploadsIn(s) /\ m \notin DeletesIn(s)
  BY <1>1 DEF UploadsIn, DeletesIn
<1>4. ASSUME op.type = "put"
      PROVE  /\ Cardinality(UploadsIn(r)) = Cardinality(UploadsIn(s)) + 1
             /\ AskedIn(r) = AskedIn(s)
  <2>1. UploadsIn(r) = UploadsIn(s) \cup {m}
    BY <1>1, <1>4 DEF UploadsIn
  <2>2. DeletesIn(r) = DeletesIn(s)
    BY <1>1, <1>4 DEF DeletesIn
  <2>3. Cardinality(UploadsIn(s) \cup {m}) = Cardinality(UploadsIn(s)) + 1
    BY <1>3, CountsAreNumbers, FS_AddElement
  <2>4. \A i \in DeletesIn(s) : r[i] = s[i]
    BY <1>1 DEF DeletesIn
  <2> QED BY <2>1, <2>2, <2>3, <2>4 DEF AskedIn
<1>5. ASSUME op.type = "delete"
      PROVE  /\ UploadsIn(r) = UploadsIn(s)
             /\ Cardinality(AskedIn(r)) = Cardinality(AskedIn(s)) + op.objPerOp
  <2> DEFINE n == [i \in DeletesIn(s) \cup {m} |-> r[i].objPerOp]
  <2>1. UploadsIn(r) = UploadsIn(s)
    BY <1>1, <1>5 DEF UploadsIn
  <2>2. DeletesIn(r) = DeletesIn(s) \cup {m}
    BY <1>1, <1>5 DEF DeletesIn
  <2>3. \A i \in DeletesIn(s) \cup {m} : n[i] \in Nat
    <3> SUFFICES ASSUME NEW i \in DeletesIn(s) \cup {m} PROVE r[i].objPerOp \in Nat
      OBVIOUS
    <3>1. r[i] \in Operation
      BY <1>1, <1>2 DEF DeletesIn
    <3> QED BY <3>1 DEF Operation
  <2>4. AskedIn(r) = Pairs(DeletesIn(s) \cup {m}, n)
    BY <2>2 DEF AskedIn, Pairs
  <2>5. AskedIn(s) = Pairs(DeletesIn(s), n)
    <3>1. \A i \in DeletesIn(s) : n[i] = s[i].objPerOp
      BY <1>1 DEF DeletesIn
    <3> HIDE DEF n
    <3> QED BY <3>1 DEF AskedIn, Pairs
  <2>6. n[m] = op.objPerOp
    BY <1>1
  <2> HIDE DEF n
  <2>7. IsFiniteSet(DeletesIn(s))
    BY CountsAreNumbers
  <2>8. Cardinality(Pairs(DeletesIn(s) \cup {m}, n)) = Cardinality(Pairs(DeletesIn(s), n)) + n[m]
    BY <1>3, <2>3, <2>7, PairsAdd
  <2> QED BY <2>1, <2>4, <2>5, <2>6, <2>8
<1> QED BY <1>4, <1>5 DEF r

(* A thread that takes a batch holds its objects.                          *)
LEMMA HeldAdd ==
    ASSUME RunTypeOK, RunTypeOK', NEW w \in Workers, w \notin Holding,
           Holding' = Holding \cup {w},
           \A v \in Holding : batch'[v] = batch[v]
    PROVE  Cardinality(Held') = Cardinality(Held) + Len(batch'[w])
<1> DEFINE n == [v \in Workers |-> Len(batch'[v])]
<1>1. IsFiniteSet(Holding) /\ Holding \subseteq Workers
  <2>1. <<>> \in Seq(Operation)
    OBVIOUS
  <2> QED BY <2>1, CountsAreNumbers DEF Holding
<1>2. \A v \in Workers : batch'[v] \in Seq(Object)
  BY DEF RunTypeOK
<1>3. \A v \in Holding \cup {w} : n[v] \in Nat
  BY <1>1, <1>2
<1>4. Held = Pairs(Holding, n)
  <2>1. \A v \in Holding : n[v] = [u \in Workers |-> Len(batch[u])][v]
    BY <1>1
  <2> HIDE DEF n
  <2> QED BY <2>1, PairsSame DEF Held
<1>5. Held' = Pairs(Holding \cup {w}, n)
  BY DEF Held
<1>6. n[w] = Len(batch'[w])
  OBVIOUS
<1> HIDE DEF n
<1> QED BY <1>1, <1>3, <1>4, <1>5, <1>6, PairsAdd

(* A thread that reports its batch holds nothing any more.                 *)
LEMMA HeldRemove ==
    ASSUME RunTypeOK, RunTypeOK', NEW w \in Holding,
           Holding' = Holding \ {w},
           \A v \in Holding \ {w} : batch'[v] = batch[v]
    PROVE  /\ Cardinality(Held)' \in Nat
           /\ Cardinality(Held) = Cardinality(Held)' + Len(batch[w])
<1> DEFINE n == [v \in Workers |-> Len(batch[v])]
           S == Holding \ {w}
<1>1. IsFiniteSet(Holding) /\ Holding \subseteq Workers /\ w \in Workers
  <2>1. <<>> \in Seq(Operation)
    OBVIOUS
  <2> QED BY <2>1, CountsAreNumbers DEF Holding
<1>2. IsFiniteSet(S) /\ w \notin S /\ Holding = S \cup {w}
  BY <1>1, FS_RemoveElement
<1>3. \A v \in S \cup {w} : n[v] \in Nat
  <2>1. \A v \in Workers : batch[v] \in Seq(Object)
    BY DEF RunTypeOK
  <2> QED BY <1>1, <2>1
<1>4. Held' = Pairs(S, n)
  <2>1. \A v \in S : n[v] = [u \in Workers |-> Len(batch'[u])][v]
    BY <1>1
  <2> HIDE DEF n
  <2> QED BY <2>1, PairsSame DEF Held
<1>5. Held = Pairs(S \cup {w}, n)
  BY <1>2 DEF Held
<1>6. n[w] = Len(batch[w])
  BY <1>1
<1> HIDE DEF n, S
<1>7. /\ Cardinality(Pairs(S, n)) \in Nat
      /\ Cardinality(Pairs(S \cup {w}, n)) = Cardinality(Pairs(S, n)) + n[w]
  BY <1>2, <1>3, PairsAdd
<1>8. Cardinality(Held)' = Cardinality(Pairs(S, n))
  BY <1>4
<1> QED BY <1>5, <1>6, <1>7, <1>8

(* Nothing is uploaded, held or reported at first.                         *)
LEMMA InitDeleteInv == Init => DeleteInv
<1> SUFFICES ASSUME Init PROVE DeleteInv
  OBVIOUS
<1>1. Len(sent) = 0 /\ Len(objects) = 0
  BY DEF Init, NewCollector
<1>2. UploadsIn(sent) = {} /\ AskedIn(sent) = {}
  BY <1>1 DEF UploadsIn, AskedIn, DeletesIn
<1>3. Uploading = {} /\ Held = {}
  BY DEF Init, Uploading, Held, Holding, Pairs
<1> QED BY <1>1, <1>2, <1>3, FS_EmptySet DEF DeleteInv

(* A step that moves no object.                                            *)
LEMMA NothingMoves ==
    ASSUME DeleteInv, UNCHANGED <<kind, sent>>,
           kind = "delete" =>
              /\ Len(objects') = Len(objects)
              /\ Uploading' = Uploading /\ Held' = Held
    PROVE  DeleteInv'
BY DEF DeleteInv, UploadsIn, AskedIn, DeletesIn

(* A thread takes an object from its generator to the slice and reports    *)
(* it, or takes a batch from the slice and reports that.                   *)
LEMMA ThreadDeletes ==
    ASSUME RunTypeOK, RunTypeOK', CollectorInv, PhaseInv, DeleteInv,
           NEW w \in Workers, Thread(w)
    PROVE  DeleteInv'
<1>1. CASE kind # "delete"
  <2>1. kind' = kind
    BY DEF Thread, PrepareRange, PrepareShare, PrepareUpload, PrepareUploadFails,
           PrepareSend, WaitStart, CheckExit, CheckContinue, Request, SendOp, Report
  <2> QED BY <1>1, <2>1 DEF DeleteInv
<1>2. CASE kind = "delete"
  <2> USE <1>2
  <2>0. /\ sent \in Seq(Operation) /\ pc \in [Workers -> Pcs]
        /\ batch \in [Workers -> Seq(Object)] /\ objects \in Seq(Object)
    BY DEF CollectorInv, CollectorTypeOK, RunTypeOK
  <2>1. CASE \/ PrepareRange(w) \/ PrepareUploadFails(w)
             \/ WaitStart(w) \/ CheckExit(w) \/ Request(w)
    <3>1. /\ UNCHANGED <<kind, sent, objects, batch>>
          /\ \E from, to \in Pcs :
                /\ pc[w] = from
                /\ pc' = [pc EXCEPT ![w] = to]
                /\ (from = "request" /\ to = "send")
                     \/ ({from, to} \cap {"prepareSend", "request", "send"} = {})
      <4>1. CASE \/ PrepareRange(w) \/ PrepareUploadFails(w) \/ WaitStart(w) \/ CheckExit(w)
        BY <4>1 DEF PrepareRange, PrepareUploadFails, WaitStart, CheckExit, collectorVars, Pcs
      <4>2. CASE Request(w)
        BY <4>2 DEF Request, ReadRequest, PutRequest, SnowballRequest, ListRequest,
                    DeleteRequest, collectorVars, Pcs
      <4> QED BY <2>1, <4>1, <4>2
    <3>2. Uploading' = Uploading /\ Holding' = Holding
      BY <2>0, <3>1 DEF Uploading, Holding
    <3> QED BY <3>1, <3>2, NothingMoves DEF Held
  <2>2. CASE PrepareShare(w)
    BY <2>2 DEF PrepareShare
  <2>3. CASE PrepareUpload(w)
    <3>1. /\ Len(objects') = Len(objects) + 1
          /\ UNCHANGED <<kind, sent>>
      BY <2>0, <2>3 DEF PrepareUpload, collectorVars
    <3>2. w \notin Uploading /\ Uploading' = Uploading \cup {w}
      BY <2>0, <2>3 DEF PrepareUpload, Uploading
    <3>3. Holding' = Holding /\ w \notin Holding
      BY <2>0, <2>3 DEF PrepareUpload, Holding
    <3>4. \A v \in Holding : batch'[v] = batch[v]
      BY <2>0, <2>3, <3>3 DEF PrepareUpload, Holding
    <3>5. Held' = Held
      <4> DEFINE n == [u \in Workers |-> Len(batch[u])]
                 m == [u \in Workers |-> Len(batch'[u])]
      <4>1. \A v \in Holding : n[v] = m[v]
        BY <3>4 DEF Holding
      <4> HIDE DEF n, m
      <4>2. Pairs(Holding, n) = Pairs(Holding, m)
        BY <4>1, PairsSame
      <4> QED BY <3>3, <4>2 DEF Held, n, m
    <3>6. Cardinality(Uploading') = Cardinality(Uploading) + 1
      BY <2>0, <3>2, CountsAreNumbers, FS_AddElement
    <3>7. UploadsIn(sent)' = UploadsIn(sent) /\ AskedIn(sent)' = AskedIn(sent)
      BY <3>1 DEF UploadsIn, AskedIn, DeletesIn
    <3>8. /\ Cardinality(UploadsIn(sent)) \in Nat /\ Cardinality(Uploading) \in Nat
          /\ Cardinality(Held) \in Nat /\ Cardinality(AskedIn(sent)) \in Nat
          /\ Len(objects) \in Nat
      BY <2>0, CountsAreNumbers
    <3>9. /\ Cardinality(Held)' = Cardinality(Held)
          /\ Cardinality(Uploading)' = Cardinality(Uploading) + 1
      BY <3>5, <3>6
    <3>10. Cardinality(UploadsIn(sent)) + Cardinality(Uploading)
             = Len(objects) + Cardinality(Held) + Cardinality(AskedIn(sent))
      BY DEF DeleteInv
    <3>11. Cardinality(UploadsIn(sent)) + (Cardinality(Uploading) + 1)
             = (Len(objects) + 1) + Cardinality(Held) + Cardinality(AskedIn(sent))
      BY <3>8, <3>10
    <3> QED BY <3>1, <3>7, <3>9, <3>11 DEF DeleteInv
  <2>4. CASE PrepareSend(w)
    <3> DEFINE op == OpOf(w, "put")
    <3>1. op \in Operation /\ op.type = "put"
      BY ObjectTypes, OpTypes DEF OpOf
    <3>2. PICK to \in {"upload", "range"} : Report(w, "put", "prepareSend", to)
      BY <2>4 DEF PrepareSend
    <3>3. sent' = Append(sent, op) /\ UNCHANGED <<kind, objects>>
      BY <3>2 DEF Report, Send
    <3> HIDE DEF op
    <3>4. w \in Uploading /\ Uploading' = Uploading \ {w}
      BY <2>0, <3>2 DEF Report, Uploading
    <3>5. Holding' = Holding /\ w \notin Holding
      BY <2>0, <3>2 DEF Report, Holding
    <3>6. \A v \in Holding : batch'[v] = batch[v]
      BY <2>0, <3>2, <3>5 DEF Report, Holding
    <3>7. Held' = Held
      <4> DEFINE n == [u \in Workers |-> Len(batch[u])]
                 m == [u \in Workers |-> Len(batch'[u])]
      <4>1. \A v \in Holding : n[v] = m[v]
        BY <3>6 DEF Holding
      <4> HIDE DEF n, m
      <4>2. Pairs(Holding, n) = Pairs(Holding, m)
        BY <4>1, PairsSame
      <4> QED BY <3>5, <4>2 DEF Held, n, m
    <3>8. Cardinality(Uploading') = Cardinality(Uploading) - 1
      BY <2>0, <3>4, CountsAreNumbers, FS_RemoveElement
    <3>9. /\ Cardinality(UploadsIn(sent)') = Cardinality(UploadsIn(sent)) + 1
          /\ AskedIn(sent)' = AskedIn(sent)
      <4>1. /\ Cardinality(UploadsIn(Append(sent, op))) = Cardinality(UploadsIn(sent)) + 1
            /\ AskedIn(Append(sent, op)) = AskedIn(sent)
        BY <2>0, <3>1, CountsAppend
      <4>2. UploadsIn(sent)' = UploadsIn(sent') /\ AskedIn(sent)' = AskedIn(sent')
        BY DEF UploadsIn, AskedIn, DeletesIn
      <4> QED BY <3>3, <4>1, <4>2
    <3> QED BY <2>0, <3>3, <3>7, <3>8, <3>9, CountsAreNumbers DEF DeleteInv
  <2>5. CASE CheckContinue(w)
    <3>1. FetchBatch(w)
      BY <2>5 DEF CheckContinue, PickObject, GenerateObject, PackSnowball, PickAny, PickPrefix
    <3>2. w \notin Holding /\ Holding' = Holding \cup {w}
      BY <2>0, <2>5 DEF CheckContinue, Holding
    <3>3. Uploading' = Uploading
      BY <2>0, <2>5 DEF CheckContinue, Uploading
    <3>4. /\ BatchLen \in 0 .. Len(objects)
          /\ Len(objects) \in Nat
      BY <2>0, BatchSizeAssumption DEF BatchLen
    <3>5. \A v \in Holding : batch'[v] = batch[v]
      BY <2>0, <3>1, <3>2 DEF FetchBatch, Holding
    <3>6. Len(batch'[w]) = BatchLen /\ Len(objects') = Len(objects) - BatchLen
      <4> DEFINE k == BatchLen
      <4>1. batch'[w] = SubSeq(objects, 1, k) /\ objects' = SubSeq(objects, k + 1, Len(objects))
        BY <2>0, <3>1 DEF FetchBatch
      <4> HIDE DEF k
      <4> QED BY <2>0, <3>4, <4>1 DEF k
    <3>7. Cardinality(Held') = Cardinality(Held) + BatchLen
      BY <3>2, <3>5, <3>6, HeldAdd
    <3>8. UNCHANGED <<kind, sent>>
      BY <2>5 DEF CheckContinue, collectorVars
    <3>9. UploadsIn(sent)' = UploadsIn(sent) /\ AskedIn(sent)' = AskedIn(sent)
      BY <3>8 DEF UploadsIn, AskedIn, DeletesIn
    <3>10. Cardinality(Held)' = Cardinality(Held) + BatchLen
      BY <3>7
    <3> QED BY <2>0, <3>3, <3>4, <3>6, <3>8, <3>9, <3>10, CountsAreNumbers DEF DeleteInv
  <2>6. CASE SendOp(w)
    <3> DEFINE op == OpOf(w, "delete")
    <3>1. op \in Operation /\ op.type = "delete" /\ op.objPerOp = Len(batch[w])
      <4>1. "delete" \in OperationTypes
        BY DEF OperationTypes
      <4> QED BY <4>1, ObjectTypes DEF OpOf
    <3>2. Report(w, "delete", "send", "check")
      BY <2>6 DEF SendOp, OpType
    <3>3. sent' = Append(sent, op) /\ UNCHANGED <<kind, objects>>
      BY <3>2 DEF Report, Send
    <3> HIDE DEF op
    <3>4. Uploading' = Uploading
      BY <2>0, <3>2 DEF Report, Uploading
    <3>5. w \in Holding /\ Holding' = Holding \ {w}
      BY <2>0, <3>2 DEF Report, Holding
    <3>6. \A v \in Holding \ {w} : batch'[v] = batch[v]
      BY <2>0, <3>2 DEF Report, Holding
    <3>7. /\ Cardinality(Held)' \in Nat
          /\ Cardinality(Held) = Cardinality(Held)' + Len(batch[w])
      BY <3>5, <3>6, HeldRemove
    <3>8. /\ UploadsIn(sent)' = UploadsIn(sent)
          /\ Cardinality(AskedIn(sent)') = Cardinality(AskedIn(sent)) + Len(batch[w])
      <4>1. /\ UploadsIn(Append(sent, op)) = UploadsIn(sent)
            /\ Cardinality(AskedIn(Append(sent, op))) = Cardinality(AskedIn(sent)) + op.objPerOp
        BY <2>0, <3>1, CountsAppend
      <4>2. UploadsIn(sent)' = UploadsIn(sent') /\ AskedIn(sent)' = AskedIn(sent')
        BY DEF UploadsIn, AskedIn, DeletesIn
      <4> QED BY <3>1, <3>3, <4>1, <4>2
    <3>9. Len(batch[w]) \in Nat
      BY <2>0
    <3> QED BY <2>0, <3>3, <3>4, <3>7, <3>8, <3>9, CountsAreNumbers DEF DeleteInv
  <2> QED BY <2>1, <2>2, <2>3, <2>4, <2>5, <2>6 DEF Thread
<1> QED BY <1>1, <1>2

(* Between Prepare and Start no thread holds anything, and a shuffle keeps *)
(* every object.                                                           *)
LEMMA MainDeletes ==
    ASSUME RunTypeOK, CollectorInv, PhaseInv, DeleteInv, Main
    PROVE  DeleteInv'
<1>1. UNCHANGED <<kind, sent, batch>>
  BY DEF Main, PrepareBucket, PrepareVideo, PrepareExisting, PrepareReturns, StartCalled,
         StartCloses, StartReturns, Sorted, Cleanup, NoCleanup, CloseRcv, CloseReturn, collectorVars
<1>2. kind = "delete" => Len(objects') = Len(objects)
  <2> SUFFICES ASSUME kind = "delete" PROVE Len(objects') = Len(objects)
    OBVIOUS
  <2>1. CASE PrepareReturns
    <3>1. objects' \in Shuffles(objects)
      BY <2>1 DEF PrepareReturns
    <3>2. objects' \in [1 .. Len(objects) -> ToSet(objects)]
      BY <3>1 DEF Shuffles
    <3>3. Len(objects) \in Nat
      BY DEF RunTypeOK
    <3>4. objects' \in Seq(ToSet(objects)) /\ Len(objects') = Len(objects)
      BY <3>2, <3>3
    <3> QED BY <3>4
  <2>2. CASE ~PrepareReturns
    <3>1. UNCHANGED objects
      BY <2>2 DEF Main, PrepareBucket, PrepareVideo, PrepareExisting, StartCalled,
                  StartCloses, StartReturns, Sorted, Cleanup, NoCleanup
    <3> QED BY <3>1
  <2> QED BY <2>1, <2>2
<1>3. Uploading' = Uploading /\ Holding' = Holding
  <2>1. CASE PrepareBucket \/ StartCalled
    <3>1. main \notin {"prepareWg", "startWg"}
      BY <2>1 DEF PrepareBucket, StartCalled
    <3>2. Uploading = {} /\ Holding = {}
      BY <3>1 DEF PhaseInv, Uploading, Holding
    <3>3. \A w \in Workers : pc'[w] \in {"range", "wait", pc[w]}
      BY <2>1 DEF PrepareBucket, StartCalled, RunTypeOK
    <3>4. \A w \in Workers : pc'[w] \notin {"prepareSend", "request", "send"}
      BY <3>2, <3>3 DEF Uploading, Holding
    <3> QED BY <3>2, <3>4 DEF Uploading, Holding
  <2>2. CASE ~(PrepareBucket \/ StartCalled)
    <3>1. UNCHANGED pc
      BY <2>2 DEF Main, PrepareVideo, PrepareExisting, PrepareReturns,
                  StartCloses, StartReturns, Sorted, Cleanup, NoCleanup
    <3> QED BY <3>1 DEF Uploading, Holding
  <2> QED BY <2>1, <2>2
<1> QED BY <1>1, <1>2, <1>3, NothingMoves DEF Held

(* Every step keeps the account of the objects.                            *)
LEMMA StepDeleteInv ==
    RunTypeOK /\ CollectorInv /\ PhaseInv /\ DeleteInv /\ [Next]_vars => DeleteInv'
<1> SUFFICES ASSUME RunTypeOK, CollectorInv, PhaseInv, DeleteInv, [Next]_vars
             PROVE  DeleteInv'
  OBVIOUS
<1>1. CASE \E w \in Workers : Thread(w)
  BY <1>1, StepRunTypeOK, ThreadDeletes
<1>2. CASE Main
  BY <1>2, MainDeletes
<1>3. CASE Signals \/ DrainOps \/ SortSwaps \/ UNCHANGED vars
  <2>1. UNCHANGED <<kind, sent, objects, pc, batch>>
    BY <1>3 DEF Signals, ScheduleStart, CloseStart, Deadline, CancelClient, AutoTerm,
                DrainOps, SortSwaps, Drain, DrainReceive, DrainAppend, DrainExit,
                vars, benchVars, collectorVars
  <2>2. Uploading' = Uploading /\ Holding' = Holding
    BY <2>1 DEF Uploading, Holding
  <2> QED BY <2>1, <2>2, NothingMoves DEF Held
<1> QED BY <1>1, <1>2, <1>3 DEF Next

(* The sort moves reports, and their counts stay.                          *)
ReturnedCounts ==
    closePc = "returned" =>
        /\ Cardinality(UploadsIn(ops)) = Cardinality(UploadsIn(sent))
        /\ Cardinality(AskedIn(ops)) = Cardinality(AskedIn(sent))

(* Two reports of one type that change places.                             *)
LEMMA SwapCounts ==
    ASSUME RunTypeOK, NEW s \in Seq(Operation), NEW i \in 1 .. Len(s) - 1,
           s[i].type = s[i + 1].type
    PROVE  /\ UploadsIn(Swap(s, i)) = UploadsIn(s)
           /\ Cardinality(AskedIn(Swap(s, i))) = Cardinality(AskedIn(s))
<1> DEFINE t == Swap(s, i)
           D == DeletesIn(s)
           R == D \ {i, i + 1}
           n == [k \in D |-> s[k].objPerOp]
           m == [k \in D |-> t[k].objPerOp]
<1>1. /\ Len(s) \in Nat /\ i \in 1 .. Len(s) /\ i + 1 \in 1 .. Len(s) /\ i # i + 1
      /\ t \in Seq(Operation) /\ Len(t) = Len(s)
  BY SwapType
<1>2. /\ t[i] = s[i + 1] /\ t[i + 1] = s[i]
      /\ \A k \in 1 .. Len(s) : k # i /\ k # i + 1 => t[k] = s[k]
  BY <1>1 DEF Swap
<1> HIDE DEF t
<1>3. \A k \in 1 .. Len(s) : t[k].type = s[k].type
  BY <1>1, <1>2
<1>4. UploadsIn(t) = UploadsIn(s) /\ DeletesIn(t) = D
  BY <1>1, <1>3 DEF UploadsIn, DeletesIn
<1>5. \A k \in D : n[k] \in Nat /\ m[k] \in Nat
  <2> SUFFICES ASSUME NEW k \in D PROVE s[k].objPerOp \in Nat /\ t[k].objPerOp \in Nat
    OBVIOUS
  <2>1. k \in 1 .. Len(s)
    BY DEF DeletesIn
  <2>2. s[k] \in Operation /\ t[k] \in Operation
    BY <1>1, <2>1
  <2> QED BY <2>2 DEF Operation
<1>6. AskedIn(s) = Pairs(D, n) /\ AskedIn(t) = Pairs(D, m)
  BY <1>4 DEF AskedIn, Pairs
<1>7. CASE i \notin D
  <2>1. i + 1 \notin D
    BY <1>1, <1>7 DEF DeletesIn
  <2>2. \A k \in D : n[k] = m[k]
    BY <1>2, <1>7, <2>1 DEF DeletesIn
  <2> HIDE DEF D, n, m
  <2>3. Pairs(D, n) = Pairs(D, m)
    BY <2>2, PairsSame
  <2> QED BY <1>4, <1>6, <2>3 DEF t
<1>8. CASE i \in D
  <2>1. i + 1 \in D
    BY <1>1, <1>8 DEF DeletesIn
  <2>2. /\ D = (R \cup {i}) \cup {i + 1}
        /\ i \notin R /\ i + 1 \notin R \cup {i}
        /\ R \subseteq D /\ R \cup {i} \subseteq D
    BY <1>1, <1>8, <2>1
  <2>3. /\ \A k \in R : n[k] = m[k]
        /\ n[i] = m[i + 1] /\ n[i + 1] = m[i]
    BY <1>2, <1>8, <2>1 DEF DeletesIn
  <2>4. IsFiniteSet(D)
    BY CountsAreNumbers
  <2> HIDE DEF D, n, m, R
  <2>5. IsFiniteSet(R) /\ IsFiniteSet(R \cup {i})
    BY <2>2, <2>4, FS_Subset
  <2>6. /\ Cardinality(Pairs(R, n)) \in Nat
        /\ Cardinality(Pairs(R \cup {i}, n)) = Cardinality(Pairs(R, n)) + n[i]
    BY <1>5, <1>8, <2>2, <2>5, PairsAdd
  <2>7. Cardinality(Pairs(D, n)) = Cardinality(Pairs(R \cup {i}, n)) + n[i + 1]
    BY <1>5, <2>1, <2>2, <2>5, PairsAdd
  <2>8. Cardinality(Pairs(R \cup {i}, m)) = Cardinality(Pairs(R, m)) + m[i]
    BY <1>5, <1>8, <2>2, <2>5, PairsAdd
  <2>9. Cardinality(Pairs(D, m)) = Cardinality(Pairs(R \cup {i}, m)) + m[i + 1]
    BY <1>5, <2>1, <2>2, <2>5, PairsAdd
  <2>10. Pairs(R, n) = Pairs(R, m)
    BY <2>3, PairsSame
  <2>11. n[i] \in Nat /\ n[i + 1] \in Nat
    BY <1>5, <1>8, <2>1
  <2>12. Cardinality(Pairs(D, m)) = Cardinality(Pairs(D, n))
    BY <2>3, <2>6, <2>7, <2>8, <2>9, <2>10, <2>11
  <2> QED BY <1>4, <1>6, <2>12 DEF t
<1> QED BY <1>7, <1>8

(* Every step keeps the counts of what was returned.                       *)
LEMMA StepReturnedCounts ==
    ASSUME RunTypeOK, PhaseInv, CollectorInv, ReturnedCounts, [Next]_vars
    PROVE  ReturnedCounts'
<1> DEFINE Same(s, t) == /\ Cardinality(UploadsIn(s)) = Cardinality(UploadsIn(t))
                         /\ Cardinality(AskedIn(s)) = Cardinality(AskedIn(t))
<1> SUFFICES ASSUME closePc' = "returned" PROVE Same(ops', sent')
  BY DEF ReturnedCounts, UploadsIn, AskedIn, DeletesIn
<1>1. /\ sent' = sent
      /\ \/ closePc # "returned" /\ ops' = sent
         \/ closePc = "returned" /\ ops' = ops
         \/ closePc = "returned" /\ SortSwaps
  BY ReturnedStep
<1>2. CASE closePc # "returned"
  BY <1>1, <1>2
<1>3. CASE closePc = "returned" /\ ops' = ops
  BY <1>1, <1>3 DEF ReturnedCounts
<1>4. CASE closePc = "returned" /\ SortSwaps
  <2>1. PICK i \in 1 .. Len(ops) - 1 : ops[i].type = ops[i + 1].type /\ ops' = Swap(ops, i)
    BY <1>4 DEF SortSwaps
  <2>2. ops \in Seq(Operation)
    BY DEF CollectorInv, CollectorTypeOK
  <2>3. Same(ops', ops)
    BY <2>1, <2>2, SwapCounts
  <2> QED BY <1>1, <1>4, <2>3 DEF ReturnedCounts
<1> QED BY <1>1, <1>2, <1>3, <1>4

(* Nothing is returned at first.                                           *)
LEMMA InitReturnedCounts == Init => ReturnedCounts
BY DEF Init, NewCollector, ReturnedCounts

(* When Close has returned the threads are gone: nothing is in their hands.*)
LEMMA DeleteInvOnce ==
    RunTypeOK /\ CollectorInv /\ PhaseInv /\ DeleteInv /\ ReturnedCounts => DeletedOnce
<1> SUFFICES ASSUME RunTypeOK, CollectorInv, PhaseInv, DeleteInv, ReturnedCounts,
                    kind = "delete", closePc = "returned"
             PROVE  Cardinality(UploadsIn(ops)) = Len(objects) + Cardinality(AskedIn(ops))
  BY DEF DeletedOnce
<1>1. sent \in Seq(Operation)
  BY DEF CollectorInv, CollectorTypeOK
<1>2. Uploading = {} /\ Holding = {}
  BY DEF PhaseInv, Uploading, Holding
<1>3. Held = {}
  BY <1>2 DEF Held, Pairs
<1>4. Cardinality(Uploading) = 0 /\ Cardinality(Held) = 0
  BY <1>2, <1>3, FS_EmptySet
<1>5. Len(objects) \in Nat /\ Cardinality(UploadsIn(sent)) \in Nat
  BY <1>1, CountsAreNumbers DEF RunTypeOK
<1>6. Cardinality(UploadsIn(sent)) = Len(objects) + Cardinality(AskedIn(sent))
  BY <1>4, <1>5 DEF DeleteInv
<1> QED BY <1>6 DEF ReturnedCounts

(* A delete benchmark asks for every object it uploaded at most once, and  *)
(* loses none: what its reports count and what is left in the slice are    *)
(* together what Prepare reported.                                         *)
THEOREM EveryObjectOnce == Spec => []DeletedOnce
<1>1. RunTypeOK /\ PhaseInv /\ CollectorInv /\ DeleteInv /\ ReturnedCounts /\ [Next]_vars
        => (DeleteInv /\ ReturnedCounts)'
  BY StepDeleteInv, StepReturnedCounts
<1> QED BY <1>1, RunCollectorInv, InitDeleteInv, InitReturnedCounts, DeleteInvOnce,
           PTL DEF Spec
=============================================================================

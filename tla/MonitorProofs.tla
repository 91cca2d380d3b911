--------------------------- MODULE MonitorProofs ---------------------------
(***************************************************************************)
(* Proofs about the local runner and its monitoring API, for every set of  *)
(* uploaders, clients and durations and every number of uploads and        *)
(* requests: the variables keep their types, clients are served the        *)
(* measured data, the status and the progress never go back, and no value  *)
(* is sent on the closed progress channel.                                 *)
(***************************************************************************)
EXTENDS Monitor, TLAPS

USE DEF config, prepare, bars, signals, served, vars, InfoLn

(* What the type invariant leaves open: an answer for each client.         *)
ReplyShape == reply = [c \in Clients |-> reply[c]]

(* The progress channel belongs to Prepare: its threads are at work only   *)
(* while it is open (or there is none), what it holds was uploaded, and    *)
(* was uploaded after what the bar has received.                           *)
ProgressInv ==
    /\ main = "begin" => \A u \in Uploaders : uploader[u] = "idle"
    /\ \A u \in Uploaders : uploader[u] = "next" => main \in {"prepare", "failed"}
    /\ main = "prepare" => progressOpen = ~quiet
    /\ newVal <= uploaded
    /\ progress # <<>> => newVal <= progress[1] /\ progress[1] <= uploaded
    /\ main # "panic"

(* Where the runner is bounds the stage the status tells of, and which of  *)
(* the goroutines that set it too may still run.                           *)
StageInv ==
    /\ main = "begin" => StageOf(status) = 0
    /\ main \in {"prepare", "prepared"} => StageOf(status) <= 1
    /\ main \in {"armed", "bench", "measured"} => StageOf(status) <= 2
    /\ main \in {"save", "saved", "analyse", "analysed"} => StageOf(status) <= 3
    /\ main \in {"cleanup", "cleaned"} => StageOf(status) <= 4
    /\ bar = "prepare" => main \in {"prepare", "prepared", "failed"}
    /\ bar = "bench" => main \in {"bench", "measured"}
    /\ timer = "armed" => main \in {"armed", "bench", "failed"}
    /\ main \in {"begin", "prepare", "prepared"} => timer = "off"
    /\ main = "measured" => timer = "fired"

(* The server has the operations only when they are sorted in place: no    *)
(* request nor analysis moves them any more, and the results made of them  *)
(* stay right.                                                             *)
DataInv ==
    /\ main \in {"begin", "prepare", "prepared", "armed", "bench", "measured", "save", "saved"}
           => ~ops
    /\ main = "measured" => data # "none"
    /\ main \in {"save", "saved"} \/ ops => data \in {"empty", "sorted"}
    /\ told => ops
    /\ aggr # NoAggr => ops /\ aggr.of = data
    /\ \A c \in Clients : handler[c] # "idle" => ops /\ handler[c] = data
    /\ \A c \in Clients : reply[c].kind \in {"aggregated", "operations"} => ops

IInv == ProgressInv /\ StageInv /\ DataInv /\ RepliesAreRight

(* The inductive invariant.                                                *)
MonitorInv == MonitorTypeOK /\ ReplyShape /\ IInv

(* The types, by the part of the system that changes them.                 *)
Mains == {"begin", "prepare", "prepared", "armed", "bench", "measured", "save", "saved",
          "analyse", "analysed", "cleanup", "cleaned", "wait", "returned", "failed", "panic"}
RunnerTypes ==
    /\ command \in {"benchmark", "workflow"} /\ quiet \in BOOLEAN
    /\ server \in {"off", "opening", "open", "closed", "returned"}
    /\ main \in Mains
    /\ timer \in {"off", "armed", "fired"} /\ ctx2Done \in BOOLEAN
    /\ status \in Texts
Pending == {<<>>} \cup {<<n>> : n \in 1 .. Uploads}
ProgressTypes ==
    /\ uploader \in [Uploaders -> {"idle", "next", "left", "failed"}]
    /\ uploaded \in 0 .. Uploads
    /\ progress \in Pending
    /\ progressOpen \in BOOLEAN
    /\ bar \in {"off", "prepare", "bench"}
    /\ newVal \in -1 .. Uploads
ServedTypes ==
    /\ data \in {"none", "empty", "unsorted", "sorted"} /\ ops \in BOOLEAN
    /\ aggr = NoAggr \/ aggr.dur \in Durations
    /\ asked \in 0 .. MaxRequests
    /\ handler \in [Clients -> {"idle", "empty", "unsorted", "sorted"}]
    /\ told \in BOOLEAN

LEMMA TypesInParts == MonitorTypeOK <=> RunnerTypes /\ ProgressTypes /\ ServedTypes
  BY DEF MonitorTypeOK, RunnerTypes, ProgressTypes, ServedTypes, Mains, Pending

LEMMA TypesInPartsNext == MonitorTypeOK' <=> (RunnerTypes /\ ProgressTypes /\ ServedTypes)'
  BY DEF MonitorTypeOK, RunnerTypes, ProgressTypes, ServedTypes, Mains, Pending

(* The stages of the texts.                                                *)
LEMMA StageValues ==
    /\ StageOf("") = 0
    /\ StageOf("preparing") = 1 /\ StageOf("preparation") = 1
    /\ StageOf("starting in") = 2 /\ StageOf("starting") = 2 /\ StageOf("running") = 2
    /\ StageOf("saving") = 3 /\ StageOf("written") = 3
    /\ StageOf("cleanup") = 4
    /\ StageOf("done") = 5
  BY DEF StageOf

LEMMA StageRange == ASSUME NEW text \in Texts PROVE StageOf(text) \in 0 .. 5
<1>1. StageOf(text) \in {0, 1, 2, 3, 4, 5}
  BY StageValues, Zenon DEF Texts
<1> QED
  BY <1>1

(* What the server has is sorted, so sorting it again changes nothing, and *)
(* a result is of the duration asked for and of that data.                 *)
LEMMA SortedWhenServed == ASSUME DataInv, ops PROVE Sorted(data) = data
  BY DEF DataInv, Sorted

LEMMA AggregatedRight ==
    ASSUME DataInv, ops, NEW dur
    PROVE  /\ Aggregated(dur).dur = dur
           /\ Aggregated(dur).of = data
           /\ Aggregated(dur) # NoAggr
<1>1. Sorted(data) = data /\ data # "none"
  BY SortedWhenServed DEF DataInv
<1> QED
  BY <1>1 DEF Aggregated, DataInv, NoAggr

(* An answer to one client leaves the answers to the others.               *)
LEMMA AnswerOne ==
    ASSUME ReplyShape, NEW c \in Clients, NEW r, Answer(c, r)
    PROVE  /\ ReplyShape'
           /\ reply'[c] = r
           /\ \A d \in Clients : d # c => reply'[d] = reply[d]
  BY DEF ReplyShape, Answer
-----------------------------------------------------------------------------
(* Every step keeps the types of the runner's variables.                   *)
LEMMA RunnerTypesKept ==
    ASSUME RunnerTypes, Next
    PROVE  RunnerTypes'
<1> USE DEF RunnerTypes
<1>1. CASE RunBegins
  BY <1>1 DEF RunBegins, Mains, Texts
<1>2. CASE PrepareReturns
  BY <1>2 DEF PrepareReturns, Mains
<1>3. CASE TimerArmed
  BY <1>3 DEF TimerArmed, Mains
<1>4. CASE BenchStarts
  BY <1>4 DEF BenchStarts, Mains, Texts
<1>5. CASE StartReturns
  BY <1>5 DEF StartReturns, Mains
<1>6. CASE SaveBegins
  BY <1>6 DEF SaveBegins, Mains, Texts
<1>7. CASE SaveEnds
  BY <1>7 DEF SaveEnds, Mains, Texts
<1>8. CASE OperationsReady
  BY <1>8 DEF OperationsReady, Mains
<1>9. CASE PrintAnalysis
  BY <1>9 DEF PrintAnalysis, Mains
<1>10. CASE CleanupBegins
  BY <1>10 DEF CleanupBegins, Mains, Texts
<1>11. CASE CleanupEnds
  BY <1>11 DEF CleanupEnds, Mains
<1>12. CASE RunEnds
  BY <1>12 DEF RunEnds, Mains, Texts
<1>13. CASE Done
  BY <1>13 DEF Done, Mains
<1>14. CASE ListenAndServe
  BY <1>14 DEF ListenAndServe
<1>15. CASE Running /\ BarTicks
  BY <1>15 DEF BarTicks, Running, Texts
<1>16. CASE Running /\ BarReceives
  BY <1>16 DEF BarReceives, Running
<1>17. CASE Running /\ BenchBarTicks
  BY <1>17 DEF BenchBarTicks, Running, Texts
<1>18. CASE Running /\ BenchBarEnds
  BY <1>18 DEF BenchBarEnds, Running
<1>19. CASE Running /\ TimerFires
  BY <1>19 DEF TimerFires, Running, Texts
<1>20. CASE Running /\ Deadline
  BY <1>20 DEF Deadline, Running
<1>21. ASSUME NEW u \in Uploaders, Running, Upload(u) PROVE RunnerTypes'
  BY <1>21 DEF Upload, Running, prepareProgress, Mains
<1>22. ASSUME NEW c \in Clients, handleStatus(c) PROVE RunnerTypes'
  BY <1>22 DEF handleStatus, Request, Running, Answer
<1>23. ASSUME NEW c \in Clients, handleAggregated(c) PROVE RunnerTypes'
  BY <1>23 DEF handleAggregated, Request, Running, Answer
<1>24. ASSUME NEW c \in Clients, handleDownloadZst(c) PROVE RunnerTypes'
  BY <1>24 DEF handleDownloadZst, Request, Running, Answer
<1>25. ASSUME NEW c \in Clients, handleDownloadJSON(c) PROVE RunnerTypes'
  BY <1>25 DEF handleDownloadJSON, Request, Running, Answer
<1>26. ASSUME NEW c \in Clients, handleStop(c) PROVE RunnerTypes'
  BY <1>26 DEF handleStop, Request, Running, Answer
<1>27. ASSUME NEW c \in Clients, Written(c) PROVE RunnerTypes'
  BY <1>27 DEF Written, Request, Running, Answer
<1> QED
  BY <1>1, <1>2, <1>3, <1>4, <1>5, <1>6, <1>7, <1>8, <1>9, <1>10, <1>11, <1>12, <1>13, <1>14, <1>15, <1>16, <1>17, <1>18, <1>19, <1>20, <1>21, <1>22, <1>23, <1>24, <1>25, <1>26, <1>27 DEF Next, Runner, Bar, Serve

(* Every step keeps the types of the progress.                             *)
LEMMA ProgressTypesKept ==
    ASSUME ProgressTypes, Next
    PROVE  ProgressTypes'
<1> USE DEF ProgressTypes
<1>1. CASE RunBegins
  BY <1>1 DEF RunBegins
<1>2. CASE PrepareReturns
  BY <1>2 DEF PrepareReturns
<1>3. CASE TimerArmed
  BY <1>3 DEF TimerArmed
<1>4. CASE BenchStarts
  BY <1>4 DEF BenchStarts
<1>5. CASE StartReturns
  BY <1>5 DEF StartReturns
<1>6. CASE SaveBegins
  BY <1>6 DEF SaveBegins
<1>7. CASE SaveEnds
  BY <1>7 DEF SaveEnds
<1>8. CASE OperationsReady
  BY <1>8 DEF OperationsReady
<1>9. CASE PrintAnalysis
  BY <1>9 DEF PrintAnalysis
<1>10. CASE CleanupBegins
  BY <1>10 DEF CleanupBegins
<1>11. CASE CleanupEnds
  BY <1>11 DEF CleanupEnds
<1>12. CASE RunEnds
  BY <1>12 DEF RunEnds
<1>13. CASE Done
  BY <1>13 DEF Done
<1>14. CASE ListenAndServe
  BY <1>14 DEF ListenAndServe
<1>15. CASE Running /\ BarTicks
  BY <1>15 DEF BarTicks, Running
<1>16. CASE Running /\ BarReceives
  <2>1. CASE progress # <<>> /\ newVal' = Head(progress) /\ progress' = Tail(progress)
    <3>1. PICK n \in 1 .. Uploads : progress = <<n>>
      BY <2>1 DEF Pending
    <3>2. newVal' = n /\ progress' = <<>>
      BY <2>1, <3>1
    <3>. QED
      BY <1>16, <3>2, UploadsAssumption DEF BarReceives, Pending
  <2>2. CASE UNCHANGED <<newVal, progress>> /\ bar' = "off"
    BY <1>16, <2>2 DEF BarReceives
  <2> QED
    BY <1>16, <2>1, <2>2 DEF BarReceives
<1>17. CASE Running /\ BenchBarTicks
  BY <1>17 DEF BenchBarTicks, Running
<1>18. CASE Running /\ BenchBarEnds
  BY <1>18 DEF BenchBarEnds, Running
<1>19. CASE Running /\ TimerFires
  BY <1>19 DEF TimerFires, Running
<1>20. CASE Running /\ Deadline
  BY <1>20 DEF Deadline, Running
<1>21. ASSUME NEW u \in Uploaders, Running, Upload(u) PROVE ProgressTypes'
  <2>1. CASE uploaded < Uploads /\ uploaded' = uploaded + 1 /\ prepareProgress(uploaded + 1)
    <3>1. uploaded + 1 \in 1 .. Uploads /\ uploaded' \in 0 .. Uploads
      BY <2>1, UploadsAssumption
    <3>2. progress' \in Pending
      BY <2>1, <3>1 DEF prepareProgress, Pending
    <3> QED
      BY <1>21, <2>1, <3>1, <3>2 DEF Upload
  <2>2. CASE UNCHANGED <<uploaded, progress>>
    BY <1>21, <2>2 DEF Upload
  <2> QED
    BY <1>21, <2>1, <2>2 DEF Upload
<1>22. ASSUME NEW c \in Clients, handleStatus(c) PROVE ProgressTypes'
  BY <1>22 DEF handleStatus, Request, Running, Answer
<1>23. ASSUME NEW c \in Clients, handleAggregated(c) PROVE ProgressTypes'
  BY <1>23 DEF handleAggregated, Request, Running, Answer
<1>24. ASSUME NEW c \in Clients, handleDownloadZst(c) PROVE ProgressTypes'
  BY <1>24 DEF handleDownloadZst, Request, Running, Answer
<1>25. ASSUME NEW c \in Clients, handleDownloadJSON(c) PROVE ProgressTypes'
  BY <1>25 DEF handleDownloadJSON, Request, Running, Answer
<1>26. ASSUME NEW c \in Clients, handleStop(c) PROVE ProgressTypes'
  BY <1>26 DEF handleStop, Request, Running, Answer
<1>27. ASSUME NEW c \in Clients, Written(c) PROVE ProgressTypes'
  BY <1>27 DEF Written, Request, Running, Answer
<1> QED
  BY <1>1, <1>2, <1>3, <1>4, <1>5, <1>6, <1>7, <1>8, <1>9, <1>10, <1>11, <1>12, <1>13, <1>14, <1>15, <1>16, <1>17, <1>18, <1>19, <1>20, <1>21, <1>22, <1>23, <1>24, <1>25, <1>26, <1>27 DEF Next, Runner, Bar, Serve

(* Every step keeps the types of what is served.                           *)
LEMMA ServedTypesKept ==
    ASSUME ServedTypes, DataInv, Next
    PROVE  ServedTypes'
<1> USE DEF ServedTypes
<1>1. CASE RunBegins
  BY <1>1 DEF RunBegins
<1>2. CASE PrepareReturns
  BY <1>2 DEF PrepareReturns
<1>3. CASE TimerArmed
  BY <1>3 DEF TimerArmed
<1>4. CASE BenchStarts
  BY <1>4 DEF BenchStarts
<1>5. CASE StartReturns
  BY <1>5 DEF StartReturns
<1>6. CASE SaveBegins
  BY <1>6 DEF SaveBegins, Sorted
<1>7. CASE SaveEnds
  BY <1>7 DEF SaveEnds
<1>8. CASE OperationsReady
  BY <1>8 DEF OperationsReady
<1>9. CASE PrintAnalysis
  BY <1>9 DEF PrintAnalysis, Sorted
<1>10. CASE CleanupBegins
  BY <1>10 DEF CleanupBegins
<1>11. CASE CleanupEnds
  BY <1>11 DEF CleanupEnds
<1>12. CASE RunEnds
  BY <1>12 DEF RunEnds
<1>13. CASE Done
  BY <1>13 DEF Done
<1>14. CASE ListenAndServe
  BY <1>14 DEF ListenAndServe
<1>15. CASE Running /\ BarTicks
  BY <1>15 DEF BarTicks, Running
<1>16. CASE Running /\ BarReceives
  BY <1>16 DEF BarReceives, Running
<1>17. CASE Running /\ BenchBarTicks
  BY <1>17 DEF BenchBarTicks, Running
<1>18. CASE Running /\ BenchBarEnds
  BY <1>18 DEF BenchBarEnds, Running
<1>19. CASE Running /\ TimerFires
  BY <1>19 DEF TimerFires, Running
<1>20. CASE Running /\ Deadline
  BY <1>20 DEF Deadline, Running
<1>21. ASSUME NEW u \in Uploaders, Running, Upload(u) PROVE ServedTypes'
  BY <1>21 DEF Upload, Running, prepareProgress
<1>22. ASSUME NEW c \in Clients, handleStatus(c) PROVE ServedTypes'
  <2>1. asked' \in 0 .. MaxRequests
    BY <1>22, MaxRequestsAssumption DEF handleStatus, Request
  <2> QED
    BY <1>22, <2>1 DEF handleStatus, Request, Answer
<1>23. ASSUME NEW c \in Clients, handleAggregated(c) PROVE ServedTypes'
  <2>1. asked' \in 0 .. MaxRequests
    BY <1>23, MaxRequestsAssumption DEF handleAggregated, Request
  <2> QED
    BY <1>23, <2>1 DEF handleAggregated, Request, Answer, Aggregated, Sorted, DataInv
<1>24. ASSUME NEW c \in Clients, handleDownloadZst(c) PROVE ServedTypes'
  <2>1. asked' \in 0 .. MaxRequests
    BY <1>24, MaxRequestsAssumption DEF handleDownloadZst, Request
  <2> QED
    BY <1>24, <2>1 DEF handleDownloadZst, Request, Answer, DataInv
<1>25. ASSUME NEW c \in Clients, handleDownloadJSON(c) PROVE ServedTypes'
  <2>1. asked' \in 0 .. MaxRequests
    BY <1>25, MaxRequestsAssumption DEF handleDownloadJSON, Request
  <2> QED
    BY <1>25, <2>1 DEF handleDownloadJSON, Request, Answer, DataInv
<1>26. ASSUME NEW c \in Clients, handleStop(c) PROVE ServedTypes'
  <2>1. asked' \in 0 .. MaxRequests
    BY <1>26, MaxRequestsAssumption DEF handleStop, Request
  <2> QED
    BY <1>26, <2>1 DEF handleStop, Request, Answer
<1>27. ASSUME NEW c \in Clients, Written(c) PROVE ServedTypes'
  BY <1>27 DEF Written, Request, Running, Answer
<1> QED
  BY <1>1, <1>2, <1>3, <1>4, <1>5, <1>6, <1>7, <1>8, <1>9, <1>10, <1>11, <1>12, <1>13, <1>14, <1>15, <1>16, <1>17, <1>18, <1>19, <1>20, <1>21, <1>22, <1>23, <1>24, <1>25, <1>26, <1>27 DEF Next, Runner, Bar, Serve

(* Every step keeps the invariant of the progress channel: Prepare waits   *)
(* for all its threads before the channel is closed.                       *)
LEMMA ProgressInvKept ==
    ASSUME RunnerTypes, ProgressTypes, ProgressInv, Next
    PROVE  ProgressInv'
<1> USE DEF ProgressInv
<1>1. CASE RunBegins
  BY <1>1 DEF RunBegins, RunnerTypes
<1>2. CASE PrepareReturns
  BY <1>2 DEF PrepareReturns
<1>3. CASE TimerArmed
  BY <1>3 DEF TimerArmed
<1>4. CASE BenchStarts
  BY <1>4 DEF BenchStarts
<1>5. CASE StartReturns
  BY <1>5 DEF StartReturns
<1>6. CASE SaveBegins
  BY <1>6 DEF SaveBegins
<1>7. CASE SaveEnds
  BY <1>7 DEF SaveEnds
<1>8. CASE OperationsReady
  BY <1>8 DEF OperationsReady
<1>9. CASE PrintAnalysis
  BY <1>9 DEF PrintAnalysis
<1>10. CASE CleanupBegins
  BY <1>10 DEF CleanupBegins
<1>11. CASE CleanupEnds
  BY <1>11 DEF CleanupEnds
<1>12. CASE RunEnds
  BY <1>12 DEF RunEnds
<1>13. CASE Done
  BY <1>13 DEF Done
<1>14. CASE ListenAndServe
  BY <1>14 DEF ListenAndServe
<1>15. CASE Running /\ BarTicks
  BY <1>15 DEF BarTicks, Running
<1>16. CASE Running /\ BarReceives
  <2>1. CASE progress # <<>> /\ newVal' = Head(progress) /\ progress' = Tail(progress)
    <3>1. PICK n \in 1 .. Uploads : progress = <<n>>
      BY <2>1 DEF ProgressTypes, Pending
    <3>2. newVal' = n /\ progress' = <<>> /\ n <= uploaded
      BY <2>1, <3>1
    <3>. QED
      BY <1>16, <3>2 DEF BarReceives
  <2>2. CASE UNCHANGED <<newVal, progress>>
    BY <1>16, <2>2 DEF BarReceives
  <2> QED
    BY <1>16, <2>1, <2>2 DEF BarReceives
<1>17. CASE Running /\ BenchBarTicks
  BY <1>17 DEF BenchBarTicks, Running
<1>18. CASE Running /\ BenchBarEnds
  BY <1>18 DEF BenchBarEnds, Running
<1>19. CASE Running /\ TimerFires
  BY <1>19 DEF TimerFires, Running
<1>20. CASE Running /\ Deadline
  BY <1>20 DEF Deadline, Running
<1>21. ASSUME NEW u \in Uploaders, Running, Upload(u) PROVE ProgressInv'
  <2>0. main = "prepare" /\ progressOpen = ~quiet
    BY <1>21 DEF Upload, Running
  <2>1. CASE uploaded < Uploads /\ uploaded' = uploaded + 1 /\ prepareProgress(uploaded + 1)
             /\ main' = main /\ UNCHANGED uploader
    <3>1. newVal <= uploaded' /\ uploaded <= uploaded' /\ newVal' = newVal
      BY <1>21, <2>1, UploadsAssumption DEF ProgressTypes, Upload
    <3>2. progress' # <<>> => newVal' <= progress'[1] /\ progress'[1] <= uploaded'
      <4>1. CASE progressOpen /\ progress = <<>>
        BY <2>1, <3>1, <4>1, UploadsAssumption DEF prepareProgress, ProgressTypes
      <4>2. CASE ~(progressOpen /\ progress = <<>>)
        <5>1. progress' = progress
          BY <2>1, <4>2 DEF prepareProgress
        <5>2. CASE progress # <<>>
          <6>1. PICK n \in 1 .. Uploads : progress = <<n>>
            BY <5>2 DEF ProgressTypes, Pending
          <6> QED
            BY <2>1, <3>1, <5>1, <6>1, UploadsAssumption DEF ProgressTypes
        <5> QED
          BY <5>1, <5>2
      <4> QED
        BY <4>1, <4>2
    <3> QED
      BY <1>21, <2>0, <2>1, <3>1, <3>2 DEF Upload
  <2>2. CASE UNCHANGED <<main, uploaded, progress>>
    BY <1>21, <2>0, <2>2 DEF Upload, ProgressTypes
  <2> QED
    BY <1>21, <2>0, <2>1, <2>2 DEF Upload
<1>22. ASSUME NEW c \in Clients, handleStatus(c) PROVE ProgressInv'
  BY <1>22 DEF handleStatus, Request, Running, Answer
<1>23. ASSUME NEW c \in Clients, handleAggregated(c) PROVE ProgressInv'
  BY <1>23 DEF handleAggregated, Request, Running, Answer
<1>24. ASSUME NEW c \in Clients, handleDownloadZst(c) PROVE ProgressInv'
  BY <1>24 DEF handleDownloadZst, Request, Running, Answer
<1>25. ASSUME NEW c \in Clients, handleDownloadJSON(c) PROVE ProgressInv'
  BY <1>25 DEF handleDownloadJSON, Request, Running, Answer
<1>26. ASSUME NEW c \in Clients, handleStop(c) PROVE ProgressInv'
  BY <1>26 DEF handleStop, Request, Running, Answer
<1>27. ASSUME NEW c \in Clients, Written(c) PROVE ProgressInv'
  BY <1>27 DEF Written, Request, Running, Answer
<1> QED
  BY <1>1, <1>2, <1>3, <1>4, <1>5, <1>6, <1>7, <1>8, <1>9, <1>10, <1>11, <1>12, <1>13, <1>14, <1>15, <1>16, <1>17, <1>18, <1>19, <1>20, <1>21, <1>22, <1>23, <1>24, <1>25, <1>26, <1>27 DEF Next, Runner, Bar, Serve

(* Every step keeps the bound on the stage of the status: the runner waits *)
(* for the bars and for the timer before it goes on.                       *)
LEMMA StageInvKept ==
    ASSUME RunnerTypes, ProgressInv, StageInv, Next
    PROVE  StageInv'
<1>0. StageOf(status) \in 0 .. 5
  BY StageRange DEF RunnerTypes
<1> USE DEF StageInv
<1>1. CASE RunBegins
  <2>1. StageOf(status') = 1
    BY <1>1, StageValues DEF RunBegins
  <2> QED
    BY <1>0, <1>1, <2>1 DEF RunBegins
<1>2. CASE PrepareReturns
  BY <1>0, <1>2 DEF PrepareReturns
<1>3. CASE TimerArmed
  BY <1>0, <1>3 DEF TimerArmed
<1>4. CASE BenchStarts
  <2>1. CASE main' = "bench" /\ InfoLn("starting in") /\ bar' \in {"off", "bench"}
    <3>1. StageOf(status') = 2
      BY <2>1, StageValues
    <3>2. main' = "bench" /\ bar' # "prepare"
      BY <2>1
    <3> QED
      BY <3>1, <3>2
  <2>2. CASE main' = "failed" /\ UNCHANGED <<status, bar>>
    BY <1>0, <1>4, <2>2 DEF BenchStarts
  <2> QED
    BY <1>4, <2>1, <2>2 DEF BenchStarts
<1>5. CASE StartReturns
  BY <1>0, <1>5 DEF StartReturns
<1>6. CASE SaveBegins
  <2>1. StageOf(status') = 3
    BY <1>6, StageValues DEF SaveBegins
  <2> QED
    BY <1>0, <1>6, <2>1 DEF SaveBegins, AwaitBar
<1>7. CASE SaveEnds
  <2>1. StageOf(status') = 3 \/ UNCHANGED status
    BY <1>7, StageValues DEF SaveEnds
  <2> QED
    BY <1>0, <1>7, <2>1 DEF SaveEnds
<1>8. CASE OperationsReady
  BY <1>0, <1>8 DEF OperationsReady
<1>9. CASE PrintAnalysis
  BY <1>0, <1>9 DEF PrintAnalysis
<1>10. CASE CleanupBegins
  <2>1. StageOf(status') = 4 \/ UNCHANGED status
    BY <1>10, StageValues DEF CleanupBegins
  <2> QED
    BY <1>0, <1>10, <2>1 DEF CleanupBegins
<1>11. CASE CleanupEnds
  BY <1>0, <1>11 DEF CleanupEnds
<1>12. CASE RunEnds
  BY <1>0, <1>12 DEF RunEnds
<1>13. CASE Done
  BY <1>0, <1>13 DEF Done
<1>14. CASE ListenAndServe
  BY <1>0, <1>14 DEF ListenAndServe
<1>15. CASE Running /\ BarTicks
  <2>1. StageOf(status') = 1
    BY <1>15, StageValues DEF BarTicks
  <2> QED
    BY <1>0, <1>15, <2>1 DEF BarTicks, Running
<1>16. CASE Running /\ BarReceives
  BY <1>0, <1>16 DEF BarReceives, Running
<1>17. CASE Running /\ BenchBarTicks
  <2>1. StageOf(status') = 2
    BY <1>17, StageValues DEF BenchBarTicks
  <2> QED
    BY <1>0, <1>17, <2>1 DEF BenchBarTicks, Running
<1>18. CASE Running /\ BenchBarEnds
  BY <1>0, <1>18 DEF BenchBarEnds, Running
<1>19. CASE Running /\ TimerFires
  <2>1. StageOf(status') = 2
    BY <1>19, StageValues DEF TimerFires
  <2> QED
    BY <1>0, <1>19, <2>1 DEF TimerFires, Running
<1>20. CASE Running /\ Deadline
  BY <1>0, <1>20 DEF Deadline, Running
<1>21. ASSUME NEW u \in Uploaders, Running, Upload(u) PROVE StageInv'
  <2>1. main' = main
    BY <1>21 DEF Upload, ProgressInv, Running
  <2> QED
    BY <1>0, <1>21, <2>1 DEF Upload
<1>22. ASSUME NEW c \in Clients, handleStatus(c) PROVE StageInv'
  BY <1>0, <1>22 DEF handleStatus, Request, Running, Answer
<1>23. ASSUME NEW c \in Clients, handleAggregated(c) PROVE StageInv'
  BY <1>0, <1>23 DEF handleAggregated, Request, Running, Answer
<1>24. ASSUME NEW c \in Clients, handleDownloadZst(c) PROVE StageInv'
  BY <1>0, <1>24 DEF handleDownloadZst, Request, Running, Answer
<1>25. ASSUME NEW c \in Clients, handleDownloadJSON(c) PROVE StageInv'
  BY <1>0, <1>25 DEF handleDownloadJSON, Request, Running, Answer
<1>26. ASSUME NEW c \in Clients, handleStop(c) PROVE StageInv'
  BY <1>0, <1>26 DEF handleStop, Request, Running, Answer
<1>27. ASSUME NEW c \in Clients, Written(c) PROVE StageInv'
  BY <1>0, <1>27 DEF Written, Request, Running, Answer
<1> QED
  BY <1>1, <1>2, <1>3, <1>4, <1>5, <1>6, <1>7, <1>8, <1>9, <1>10, <1>11, <1>12, <1>13, <1>14, <1>15, <1>16, <1>17, <1>18, <1>19, <1>20, <1>21, <1>22, <1>23, <1>24, <1>25, <1>26, <1>27 DEF Next, Runner, Bar, Serve

(* Every step keeps the invariant of the data: it is sorted before it is   *)
(* handed to the server, and sorting it again changes nothing.             *)
LEMMA DataInvKept ==
    ASSUME RunnerTypes, ServedTypes, ReplyShape, DataInv, Next
    PROVE  DataInv'
<1> USE DEF DataInv
<1>1. CASE RunBegins
  BY <1>1 DEF RunBegins
<1>2. CASE PrepareReturns
  BY <1>2 DEF PrepareReturns
<1>3. CASE TimerArmed
  BY <1>3 DEF TimerArmed
<1>4. CASE BenchStarts
  BY <1>4 DEF BenchStarts
<1>5. CASE StartReturns
  BY <1>5 DEF StartReturns
<1>6. CASE SaveBegins
  <2>1. data' \in {"empty", "sorted"} /\ ~ops
    BY <1>6 DEF SaveBegins, Sorted, ServedTypes
  <2> QED
    BY <1>6, <2>1 DEF SaveBegins, ReplyShape
<1>7. CASE SaveEnds
  BY <1>7 DEF SaveEnds
<1>8. CASE OperationsReady
  BY <1>8 DEF OperationsReady
<1>9. CASE PrintAnalysis
  BY <1>9 DEF PrintAnalysis, Sorted
<1>10. CASE CleanupBegins
  BY <1>10 DEF CleanupBegins
<1>11. CASE CleanupEnds
  BY <1>11 DEF CleanupEnds
<1>12. CASE RunEnds
  BY <1>12 DEF RunEnds
<1>13. CASE Done
  BY <1>13 DEF Done
<1>14. CASE ListenAndServe
  BY <1>14 DEF ListenAndServe
<1>15. CASE Running /\ BarTicks
  BY <1>15 DEF BarTicks, Running
<1>16. CASE Running /\ BarReceives
  BY <1>16 DEF BarReceives, Running
<1>17. CASE Running /\ BenchBarTicks
  BY <1>17 DEF BenchBarTicks, Running
<1>18. CASE Running /\ BenchBarEnds
  BY <1>18 DEF BenchBarEnds, Running
<1>19. CASE Running /\ TimerFires
  BY <1>19 DEF TimerFires, Running
<1>20. CASE Running /\ Deadline
  BY <1>20 DEF Deadline, Running
<1>21. ASSUME NEW u \in Uploaders, Running, Upload(u) PROVE DataInv'
  BY <1>21 DEF Upload, Running, prepareProgress
<1>22. ASSUME NEW c \in Clients, handleStatus(c) PROVE DataInv'
  <2>1. /\ reply'[c].kind = "status"
        /\ \A d \in Clients : d # c => reply'[d] = reply[d]
    BY <1>22, AnswerOne DEF handleStatus
  <2> QED
    BY <1>22, <2>1 DEF handleStatus, Request
<1>23. ASSUME NEW c \in Clients, handleAggregated(c) PROVE DataInv'
  <2>1. CASE ops
    <3>1. PICK dur \in Durations :
              /\ aggr' = Aggregated(dur)
              /\ data' = IF aggr' = aggr THEN data ELSE Sorted(data)
      BY <1>23, <2>1 DEF handleAggregated
    <3>2. data' = data /\ aggr'.of = data
      BY <2>1, <3>1, SortedWhenServed, AggregatedRight
    <3> QED
      BY <1>23, <2>1, <3>2 DEF handleAggregated, Request
  <2>2. CASE ~ops
    <3>1. /\ reply'[c].kind = "404"
          /\ \A d \in Clients : d # c => reply'[d] = reply[d]
      BY <1>23, <2>2, AnswerOne DEF handleAggregated
    <3> QED
      BY <1>23, <2>2, <3>1 DEF handleAggregated, Request
  <2> QED
    BY <2>1, <2>2
<1>24. ASSUME NEW c \in Clients, handleDownloadZst(c) PROVE DataInv'
  <2>1. CASE ops /\ data # "empty"
    BY <1>24, <2>1 DEF handleDownloadZst, Request, ServedTypes
  <2>2. CASE ~(ops /\ data # "empty")
    <3>1. /\ reply'[c].kind = "204"
          /\ \A d \in Clients : d # c => reply'[d] = reply[d]
      BY <1>24, <2>2, AnswerOne DEF handleDownloadZst
    <3> QED
      BY <1>24, <2>2, <3>1 DEF handleDownloadZst, Request
  <2> QED
    BY <2>1, <2>2
<1>25. ASSUME NEW c \in Clients, handleDownloadJSON(c) PROVE DataInv'
  <2>1. CASE ops
    BY <1>25, <2>1 DEF handleDownloadJSON, Request, ServedTypes
  <2>2. CASE ~(ops)
    <3>1. /\ reply'[c].kind = "null"
          /\ \A d \in Clients : d # c => reply'[d] = reply[d]
      BY <1>25, <2>2, AnswerOne DEF handleDownloadJSON
    <3> QED
      BY <1>25, <2>2, <3>1 DEF handleDownloadJSON, Request
  <2> QED
    BY <2>1, <2>2
<1>26. ASSUME NEW c \in Clients, handleStop(c) PROVE DataInv'
  BY <1>26 DEF handleStop, Request, Running, Answer
<1>27. ASSUME NEW c \in Clients, Written(c) PROVE DataInv'
  BY <1>27 DEF Written, Request, Running, Answer
<1> QED
  BY <1>1, <1>2, <1>3, <1>4, <1>5, <1>6, <1>7, <1>8, <1>9, <1>10, <1>11, <1>12, <1>13, <1>14, <1>15, <1>16, <1>17, <1>18, <1>19, <1>20, <1>21, <1>22, <1>23, <1>24, <1>25, <1>26, <1>27 DEF Next, Runner, Bar, Serve

(* Every step keeps the answers right.                                     *)
LEMMA RepliesKept ==
    ASSUME ServedTypes, ReplyShape, DataInv, RepliesAreRight, Next
    PROVE  RepliesAreRight'
<1> USE DEF RepliesAreRight, DataInv
<1>1. CASE RunBegins
  BY <1>1 DEF RunBegins
<1>2. CASE PrepareReturns
  BY <1>2 DEF PrepareReturns
<1>3. CASE TimerArmed
  BY <1>3 DEF TimerArmed
<1>4. CASE BenchStarts
  BY <1>4 DEF BenchStarts
<1>5. CASE StartReturns
  BY <1>5 DEF StartReturns
<1>6. CASE SaveBegins
  BY <1>6 DEF SaveBegins, Sorted
<1>7. CASE SaveEnds
  BY <1>7 DEF SaveEnds
<1>8. CASE OperationsReady
  BY <1>8 DEF OperationsReady
<1>9. CASE PrintAnalysis
  BY <1>9 DEF PrintAnalysis, Sorted
<1>10. CASE CleanupBegins
  BY <1>10 DEF CleanupBegins
<1>11. CASE CleanupEnds
  BY <1>11 DEF CleanupEnds
<1>12. CASE RunEnds
  BY <1>12 DEF RunEnds
<1>13. CASE Done
  BY <1>13 DEF Done
<1>14. CASE ListenAndServe
  BY <1>14 DEF ListenAndServe
<1>15. CASE Running /\ BarTicks
  BY <1>15 DEF BarTicks, Running
<1>16. CASE Running /\ BarReceives
  BY <1>16 DEF BarReceives, Running
<1>17. CASE Running /\ BenchBarTicks
  BY <1>17 DEF BenchBarTicks, Running
<1>18. CASE Running /\ BenchBarEnds
  BY <1>18 DEF BenchBarEnds, Running
<1>19. CASE Running /\ TimerFires
  BY <1>19 DEF TimerFires, Running
<1>20. CASE Running /\ Deadline
  BY <1>20 DEF Deadline, Running
<1>21. ASSUME NEW u \in Uploaders, Running, Upload(u) PROVE RepliesAreRight'
  BY <1>21 DEF Upload, Running, prepareProgress
<1>22. ASSUME NEW c \in Clients, handleStatus(c) PROVE RepliesAreRight'
  BY <1>22 DEF handleStatus, Request, Running, Answer
<1>23. ASSUME NEW c \in Clients, handleAggregated(c) PROVE RepliesAreRight'
  <2>1. CASE ops
    <3>1. PICK dur \in Durations :
              /\ aggr' = Aggregated(dur)
              /\ data' = IF aggr' = aggr THEN data ELSE Sorted(data)
              /\ Answer(c, [kind |-> "aggregated", want |-> dur, got |-> aggr'])
      BY <1>23, <2>1 DEF handleAggregated
    <3>2. data' = data /\ aggr'.of = data /\ aggr'.dur = dur
      BY <2>1, <3>1, SortedWhenServed, AggregatedRight
    <3>3. /\ reply'[c] = [kind |-> "aggregated", want |-> dur, got |-> aggr']
          /\ \A d \in Clients : d # c => reply'[d] = reply[d]
      BY <3>1, AnswerOne
    <3> QED
      BY <3>2, <3>3
  <2>2. CASE ~ops
    <3>1. /\ reply'[c] = [kind |-> "404", told |-> told] /\ ~told
          /\ \A d \in Clients : d # c => reply'[d] = reply[d]
      BY <1>23, <2>2, AnswerOne DEF handleAggregated
    <3> QED
      BY <1>23, <2>2, <3>1 DEF handleAggregated, Request
  <2> QED
    BY <2>1, <2>2
<1>24. ASSUME NEW c \in Clients, handleDownloadZst(c) PROVE RepliesAreRight'
  <2>1. CASE ops /\ data # "empty"
    BY <1>24, <2>1 DEF handleDownloadZst, Request
  <2>2. CASE ~(ops /\ data # "empty")
    <3>1. /\ reply'[c] = [kind |-> "204", told |-> FALSE]
          /\ \A d \in Clients : d # c => reply'[d] = reply[d]
      BY <1>24, <2>2, AnswerOne DEF handleDownloadZst, ServedTypes
    <3> QED
      BY <1>24, <2>2, <3>1 DEF handleDownloadZst, Request
  <2> QED
    BY <2>1, <2>2
<1>25. ASSUME NEW c \in Clients, handleDownloadJSON(c) PROVE RepliesAreRight'
  <2>1. CASE ops
    BY <1>25, <2>1 DEF handleDownloadJSON, Request
  <2>2. CASE ~(ops)
    <3>1. /\ reply'[c] = [kind |-> "null", told |-> FALSE]
          /\ \A d \in Clients : d # c => reply'[d] = reply[d]
      BY <1>25, <2>2, AnswerOne DEF handleDownloadJSON, ServedTypes
    <3> QED
      BY <1>25, <2>2, <3>1 DEF handleDownloadJSON, Request
  <2> QED
    BY <2>1, <2>2
<1>26. ASSUME NEW c \in Clients, handleStop(c) PROVE RepliesAreRight'
  BY <1>26 DEF handleStop, Request, Running, Answer
<1>27. ASSUME NEW c \in Clients, Written(c) PROVE RepliesAreRight'
  <2>1. CASE Answer(c, [kind |-> "operations", first |-> handler[c], last |-> data])
    <3>1. /\ reply'[c] = [kind |-> "operations", first |-> data, last |-> data]
          /\ \A d \in Clients : d # c => reply'[d] = reply[d]
      BY <1>27, <2>1, AnswerOne DEF Written
    <3> QED
      BY <1>27, <3>1 DEF Written
  <2>2. CASE UNCHANGED reply
    BY <1>27, <2>2 DEF Written
  <2> QED
    BY <1>27, <2>1, <2>2 DEF Written
<1> QED
  BY <1>1, <1>2, <1>3, <1>4, <1>5, <1>6, <1>7, <1>8, <1>9, <1>10, <1>11, <1>12, <1>13, <1>14, <1>15, <1>16, <1>17, <1>18, <1>19, <1>20, <1>21, <1>22, <1>23, <1>24, <1>25, <1>26, <1>27 DEF Next, Runner, Bar, Serve

(* Every step keeps an answer for each client.                             *)
LEMMA ReplyShapeKept ==
    ASSUME ReplyShape, Next
    PROVE  ReplyShape'
<1> USE DEF ReplyShape
<1>1. CASE RunBegins
  BY <1>1 DEF RunBegins
<1>2. CASE PrepareReturns
  BY <1>2 DEF PrepareReturns
<1>3. CASE TimerArmed
  BY <1>3 DEF TimerArmed
<1>4. CASE BenchStarts
  BY <1>4 DEF BenchStarts
<1>5. CASE StartReturns
  BY <1>5 DEF StartReturns
<1>6. CASE SaveBegins
  BY <1>6 DEF SaveBegins
<1>7. CASE SaveEnds
  BY <1>7 DEF SaveEnds
<1>8. CASE OperationsReady
  BY <1>8 DEF OperationsReady
<1>9. CASE PrintAnalysis
  BY <1>9 DEF PrintAnalysis
<1>10. CASE CleanupBegins
  BY <1>10 DEF CleanupBegins
<1>11. CASE CleanupEnds
  BY <1>11 DEF CleanupEnds
<1>12. CASE RunEnds
  BY <1>12 DEF RunEnds
<1>13. CASE Done
  BY <1>13 DEF Done
<1>14. CASE ListenAndServe
  BY <1>14 DEF ListenAndServe
<1>15. CASE Running /\ BarTicks
  BY <1>15 DEF BarTicks, Running
<1>16. CASE Running /\ BarReceives
  BY <1>16 DEF BarReceives, Running
<1>17. CASE Running /\ BenchBarTicks
  BY <1>17 DEF BenchBarTicks, Running
<1>18. CASE Running /\ BenchBarEnds
  BY <1>18 DEF BenchBarEnds, Running
<1>19. CASE Running /\ TimerFires
  BY <1>19 DEF TimerFires, Running
<1>20. CASE Running /\ Deadline
  BY <1>20 DEF Deadline, Running
<1>21. ASSUME NEW u \in Uploaders, Running, Upload(u) PROVE ReplyShape'
  BY <1>21 DEF Upload, Running, prepareProgress
<1>22. ASSUME NEW c \in Clients, handleStatus(c) PROVE ReplyShape'
  BY <1>22 DEF handleStatus, Request, Running, Answer
<1>23. ASSUME NEW c \in Clients, handleAggregated(c) PROVE ReplyShape'
  BY <1>23 DEF handleAggregated, Request, Running, Answer
<1>24. ASSUME NEW c \in Clients, handleDownloadZst(c) PROVE ReplyShape'
  BY <1>24 DEF handleDownloadZst, Request, Running, Answer
<1>25. ASSUME NEW c \in Clients, handleDownloadJSON(c) PROVE ReplyShape'
  BY <1>25 DEF handleDownloadJSON, Request, Running, Answer
<1>26. ASSUME NEW c \in Clients, handleStop(c) PROVE ReplyShape'
  BY <1>26 DEF handleStop, Request, Running, Answer
<1>27. ASSUME NEW c \in Clients, Written(c) PROVE ReplyShape'
  BY <1>27 DEF Written, Request, Running, Answer
<1> QED
  BY <1>1, <1>2, <1>3, <1>4, <1>5, <1>6, <1>7, <1>8, <1>9, <1>10, <1>11, <1>12, <1>13, <1>14, <1>15, <1>16, <1>17, <1>18, <1>19, <1>20, <1>21, <1>22, <1>23, <1>24, <1>25, <1>26, <1>27 DEF Next, Runner, Bar, Serve

(* No step takes the status back, nor the progress.                        *)
LEMMA StageStep ==
    ASSUME RunnerTypes, ProgressTypes, ProgressInv, StageInv, Next
    PROVE  StageOf(status') >= StageOf(status) /\ newVal' >= newVal
<1>0. StageOf(status) \in 0 .. 5 /\ StageOf(status) <= 5 /\ newVal >= newVal /\ newVal \in Int
  BY StageRange, UploadsAssumption DEF RunnerTypes, ProgressTypes
<1>1. CASE RunBegins
  <2>1. StageOf(status') = 1 /\ newVal' = newVal
    BY <1>1, StageValues DEF RunBegins
  <2>2. StageOf(status) <= 1
    BY <1>0, <1>1 DEF RunBegins, StageInv
  <2> QED
    BY <1>0, <2>1, <2>2
<1>2. CASE PrepareReturns
  BY <1>0, <1>2 DEF PrepareReturns
<1>3. CASE TimerArmed
  BY <1>0, <1>3 DEF TimerArmed
<1>4. CASE BenchStarts
  <2>1. (StageOf(status') = 2 \/ UNCHANGED status) /\ newVal' = newVal
    BY <1>4, StageValues DEF BenchStarts
  <2>2. StageOf(status) <= 2
    BY <1>0, <1>4 DEF BenchStarts, StageInv
  <2> QED
    BY <1>0, <2>1, <2>2
<1>5. CASE StartReturns
  BY <1>0, <1>5 DEF StartReturns
<1>6. CASE SaveBegins
  <2>1. StageOf(status') = 3 /\ newVal' = newVal
    BY <1>6, StageValues DEF SaveBegins
  <2>2. StageOf(status) <= 3
    BY <1>0, <1>6 DEF SaveBegins, StageInv
  <2> QED
    BY <1>0, <2>1, <2>2
<1>7. CASE SaveEnds
  <2>1. (StageOf(status') = 3 \/ UNCHANGED status) /\ newVal' = newVal
    BY <1>7, StageValues DEF SaveEnds
  <2>2. StageOf(status) <= 3
    BY <1>0, <1>7 DEF SaveEnds, StageInv
  <2> QED
    BY <1>0, <2>1, <2>2
<1>8. CASE OperationsReady
  BY <1>0, <1>8 DEF OperationsReady
<1>9. CASE PrintAnalysis
  BY <1>0, <1>9 DEF PrintAnalysis
<1>10. CASE CleanupBegins
  <2>1. (StageOf(status') = 4 \/ UNCHANGED status) /\ newVal' = newVal
    BY <1>10, StageValues DEF CleanupBegins
  <2>2. StageOf(status) <= 4
    BY <1>0, <1>10 DEF CleanupBegins, StageInv
  <2> QED
    BY <1>0, <2>1, <2>2
<1>11. CASE CleanupEnds
  BY <1>0, <1>11 DEF CleanupEnds
<1>12. CASE RunEnds
  <2>1. StageOf(status') = 5 /\ newVal' = newVal
    BY <1>12, StageValues DEF RunEnds
  <2>2. StageOf(status) <= 5
    BY <1>0, <1>12 DEF RunEnds, StageInv
  <2> QED
    BY <1>0, <2>1, <2>2
<1>13. CASE Done
  BY <1>0, <1>13 DEF Done
<1>14. CASE ListenAndServe
  BY <1>0, <1>14 DEF ListenAndServe
<1>15. CASE Running /\ BarTicks
  <2>1. StageOf(status') = 1 /\ newVal' = newVal
    BY <1>15, StageValues DEF BarTicks
  <2>2. StageOf(status) <= 1
    BY <1>0, <1>15 DEF BarTicks, StageInv, Running
  <2> QED
    BY <1>0, <2>1, <2>2
<1>16. CASE Running /\ BarReceives
  <2>1. CASE progress # <<>> /\ newVal' = Head(progress)
    <3>1. PICK n \in 1 .. Uploads : progress = <<n>>
      BY <2>1 DEF ProgressTypes, Pending
    <3>2. newVal' = n /\ newVal <= n
      BY <2>1, <3>1 DEF ProgressInv
    <3>3. UNCHANGED status
      BY <1>16 DEF BarReceives
    <3> QED
      BY <1>0, <3>2, <3>3
  <2>2. CASE UNCHANGED newVal
    BY <1>0, <1>16, <2>2 DEF BarReceives
  <2> QED
    BY <1>16, <2>1, <2>2 DEF BarReceives
<1>17. CASE Running /\ BenchBarTicks
  <2>1. StageOf(status') = 2 /\ newVal' = newVal
    BY <1>17, StageValues DEF BenchBarTicks
  <2>2. StageOf(status) <= 2
    BY <1>0, <1>17 DEF BenchBarTicks, StageInv, Running
  <2> QED
    BY <1>0, <2>1, <2>2
<1>18. CASE Running /\ BenchBarEnds
  BY <1>0, <1>18 DEF BenchBarEnds, Running
<1>19. CASE Running /\ TimerFires
  <2>1. StageOf(status') = 2 /\ newVal' = newVal
    BY <1>19, StageValues DEF TimerFires
  <2>2. StageOf(status) <= 2
    BY <1>0, <1>19 DEF TimerFires, StageInv, Running
  <2> QED
    BY <1>0, <2>1, <2>2
<1>20. CASE Running /\ Deadline
  BY <1>0, <1>20 DEF Deadline, Running
<1>21. ASSUME NEW u \in Uploaders, Running, Upload(u) PROVE StageOf(status') >= StageOf(status) /\ newVal' >= newVal
  BY <1>0, <1>21 DEF Upload, Running, prepareProgress
<1>22. ASSUME NEW c \in Clients, handleStatus(c) PROVE StageOf(status') >= StageOf(status) /\ newVal' >= newVal
  BY <1>0, <1>22 DEF handleStatus, Request, Running, Answer
<1>23. ASSUME NEW c \in Clients, handleAggregated(c) PROVE StageOf(status') >= StageOf(status) /\ newVal' >= newVal
  BY <1>0, <1>23 DEF handleAggregated, Request, Running, Answer
<1>24. ASSUME NEW c \in Clients, handleDownloadZst(c) PROVE StageOf(status') >= StageOf(status) /\ newVal' >= newVal
  BY <1>0, <1>24 DEF handleDownloadZst, Request, Running, Answer
<1>25. ASSUME NEW c \in Clients, handleDownloadJSON(c) PROVE StageOf(status') >= StageOf(status) /\ newVal' >= newVal
  BY <1>0, <1>25 DEF handleDownloadJSON, Request, Running, Answer
<1>26. ASSUME NEW c \in Clients, handleStop(c) PROVE StageOf(status') >= StageOf(status) /\ newVal' >= newVal
  BY <1>0, <1>26 DEF handleStop, Request, Running, Answer
<1>27. ASSUME NEW c \in Clients, Written(c) PROVE StageOf(status') >= StageOf(status) /\ newVal' >= newVal
  BY <1>0, <1>27 DEF Written, Request, Running, Answer
<1> QED
  BY <1>1, <1>2, <1>3, <1>4, <1>5, <1>6, <1>7, <1>8, <1>9, <1>10, <1>11, <1>12, <1>13, <1>14, <1>15, <1>16, <1>17, <1>18, <1>19, <1>20, <1>21, <1>22, <1>23, <1>24, <1>25, <1>26, <1>27 DEF Next, Runner, Bar, Serve
-----------------------------------------------------------------------------
(* Every step keeps the inductive invariant.                               *)
LEMMA MonitorInvKept == MonitorInv /\ [Next]_vars => MonitorInv'
<1> SUFFICES ASSUME MonitorInv, [Next]_vars PROVE MonitorInv'
  OBVIOUS
<1>1. RunnerTypes /\ ProgressTypes /\ ServedTypes
  BY TypesInParts DEF MonitorInv
<1>2. CASE Next
  <2>1. MonitorTypeOK'
    BY <1>1, <1>2, RunnerTypesKept, ProgressTypesKept, ServedTypesKept, TypesInPartsNext
       DEF MonitorInv, IInv
  <2>2. ReplyShape' /\ ProgressInv' /\ StageInv'
    BY <1>1, <1>2, ReplyShapeKept, ProgressInvKept, StageInvKept DEF MonitorInv, IInv
  <2>3. DataInv' /\ RepliesAreRight'
    BY <1>1, <1>2, DataInvKept, RepliesKept DEF MonitorInv, IInv
  <2> QED
    BY <2>1, <2>2, <2>3 DEF MonitorInv, IInv
<1>3. CASE UNCHANGED vars
  <2>1. MonitorTypeOK'
    BY <1>1, <1>3, TypesInPartsNext DEF RunnerTypes, ProgressTypes, ServedTypes
  <2>2. ReplyShape' /\ ProgressInv' /\ StageInv'
    BY <1>3 DEF MonitorInv, IInv, ReplyShape, ProgressInv, StageInv
  <2>3. DataInv' /\ RepliesAreRight'
    BY <1>3 DEF MonitorInv, IInv, DataInv, RepliesAreRight
  <2> QED
    BY <2>1, <2>2, <2>3 DEF MonitorInv, IInv
<1> QED
  BY <1>2, <1>3

(* The runner starts in the inductive invariant.                           *)
LEMMA MonitorInvInit == Init => MonitorInv
<1> SUFFICES ASSUME Init PROVE MonitorInv
  OBVIOUS
<1>0. uploaded = 0 /\ newVal = -1 /\ asked = 0
  BY Zenon DEF Init
<1>1. RunnerTypes
  BY DEF Init, RunnerTypes, Mains, Texts
<1>2. ProgressTypes
  <2>1. uploaded \in 0 .. Uploads /\ newVal \in -1 .. Uploads
    BY <1>0, UploadsAssumption
  <2>2. uploader \in [Uploaders -> {"idle", "next", "left", "failed"}]
    BY DEF Init
  <2> QED
    BY <2>1, <2>2 DEF Init, ProgressTypes, Pending
<1>3. ServedTypes
  <2>1. asked \in 0 .. MaxRequests
    BY <1>0, MaxRequestsAssumption
  <2>2. handler \in [Clients -> {"idle", "empty", "unsorted", "sorted"}]
    BY DEF Init
  <2> QED
    BY <2>1, <2>2 DEF Init, ServedTypes
<1>4. ReplyShape /\ ProgressInv
  <2>1. ReplyShape
    BY DEF Init, ReplyShape
  <2>2. newVal <= uploaded
    BY <1>0
  <2> QED
    BY <2>1, <2>2 DEF Init, ProgressInv
<1>5. StageInv
  BY StageValues DEF Init, StageInv
<1>6. DataInv /\ RepliesAreRight
  BY DEF Init, DataInv, RepliesAreRight, NoReply
<1> QED
  BY <1>1, <1>2, <1>3, <1>4, <1>5, <1>6, TypesInParts DEF MonitorInv, IInv

(* The inductive invariant holds throughout: what the runner publishes     *)
(* goes with where it is.                                                  *)
THEOREM MonitorInvariant == Spec => []MonitorInv
  BY MonitorInvInit, MonitorInvKept, PTL DEF Spec

(* The variables of the runner and of its server keep their types.         *)
THEOREM MonitorTypeCorrect == Spec => []MonitorTypeOK
<1>1. MonitorInv => MonitorTypeOK
  BY DEF MonitorInv
<1> QED
  BY <1>1, MonitorInvariant, PTL

(* A client is served the measured data: the result of the duration it     *)
(* asked for, made of the operations the server has; operations that       *)
(* nobody sorts while they are written to it; and no "not found" once the  *)
(* status told it that the data is ready.                                  *)
THEOREM ServedRight == Spec => []RepliesAreRight
<1>1. MonitorInv => RepliesAreRight
  BY DEF MonitorInv, IInv
<1> QED
  BY <1>1, MonitorInvariant, PTL

(* The status never goes back to an earlier stage and the progress never   *)
(* shrinks, though the runner, two bars and the timer set them.            *)
THEOREM StatusNeverBack == Spec => StatusForward
<1>1. MonitorInv /\ [Next]_vars =>
          [StageOf(status') >= StageOf(status) /\ newVal' >= newVal]_vars
  BY TypesInParts, StageStep DEF MonitorInv, IInv
<1> QED
  BY <1>1, MonitorInvariant, PTL DEF Spec, StatusForward

(* No thread of Prepare sends on the progress channel that was closed      *)
(* after Prepare returned, and no send goes before what was uploaded.      *)
THEOREM NoSendOnClosed == Spec => [](main # "panic" /\ newVal <= uploaded)
<1>1. MonitorInv => main # "panic" /\ newVal <= uploaded
  BY DEF MonitorInv, IInv, ProgressInv
<1> QED
  BY <1>1, MonitorInvariant, PTL
=============================================================================

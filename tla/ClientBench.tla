---------------------------- MODULE ClientBench ----------------------------
(***************************************************************************)
(* A benchmark client (warp-client mode): the clientBenchmark that a       *)
(* coordinator has it run (cli/benchmark.go), and the goroutines that work *)
(* on it: one serveWs handler per connection (cli/benchclient.go), the     *)
(* goroutine that executes the benchmark's command, and the goroutines     *)
(* that close the start channel of a stage at its time.                    *)
(*                                                                         *)
(* The coordinators are the environment here.  Each one follows the order  *)
(* of requests of runServerBenchmark, and repeats a request on a new       *)
(* connection when the old one breaks (roundTrip, cli/benchserver.go).     *)
(* Steps are as atomic as the locks make them.  Handlers overlap: nothing  *)
(* keeps a coordinator from a new connection while the handler of the old  *)
(* one, or the goroutine a request launched, has not finished.             *)
(***************************************************************************)
EXTENDS Naturals, Sequences, FiniteSets

CONSTANTS
    Servers,    \* coordinators that may connect to this client
    MaxConns,   \* bound: connections opened in a behaviour
    MaxFaults   \* bound: connections lost, unreachable clients and
                \* coordinators that die

ASSUME MaxConnsAssumption == MaxConns \in Nat \ {0}
ASSUME MaxFaultsAssumption == MaxFaults \in Nat

Conns == 1 .. MaxConns
Benches == Conns    \* a benchmark is named after the connection that asked
                    \* for it: a connection carries at most one such request
Stages == {"prepare", "benchmark", "cleanup"}
NoServer == "no server"

(* The requests of a coordinator to one client, in order.                  *)
Req(op, stage) == [op |-> op, stage |-> stage]

Script == << Req("benchmark", "prepare"),
             Req("start_stage", "prepare"), Req("stage_status", "prepare"),
             Req("start_stage", "benchmark"), Req("stage_status", "benchmark"),
             Req("send_ops", "benchmark"),
             Req("start_stage", "cleanup"), Req("stage_status", "cleanup"),
             Req("disconnect", "cleanup") >>

Disconnect == Len(Script)
Ended == Len(Script) + 1
StatusOfBenchmark == 5

(* Replies: the fields of clientReply that the coordinator looks at, and   *)
(* the benchmark they are about, which the code does not send.             *)
ReplyOk(b) == [err |-> FALSE, finished |-> FALSE, ops |-> "nil", bench |-> b]
ReplyErr == [ReplyOk(0) EXCEPT !.err = TRUE]
NoReply == [ReplyOk(0) EXCEPT !.ops = "no reply"]

VARIABLES
    \* coordinators
    step,       \* the request of Script each coordinator is at
    sconn,      \* the connection it uses, 0 if none
    \* connections and their handlers
    owner,      \* the coordinator that opened a connection
    alive,      \* the connection works
    inbox,      \* index in Script of the request on its way, 0 if none
    reply,      \* the reply on its way, or being put together
    hpc,        \* where the handler is
    hbench,     \* handler's local ab
    connected,  \* the package variable connected
    \* benchmarks
    active,     \* activeBenchmark, 0 for nil
    ctxDone,    \* cb.ctx is cancelled
    cberr,      \* cb.err # nil
    requested,  \* startRequested of each stage in cb.info
    startCh,    \* how often the start channel of each stage was closed
    doneCh,     \* how often the done channel of each stage was closed
    timers,     \* goroutines that sleep until they close a start channel
    results,    \* cb.results: nil, full, or being sorted in place
    rpc,        \* where the goroutine launched with each benchmark is
    rbench,     \* the benchmark that goroutine found in activeBenchmark
    crashed,    \* cb.info was written while a handler read it
    faults,     \* number of faults so far
    \* history, read by properties only
    asked,      \* the last request each coordinator wrote
    told,       \* the benchmark that reported its benchmark stage finished
    overlapped  \* stages whose start two handlers were busy with at a time

servers == <<step, sconn>>
conns == <<owner, alive, inbox, reply, hpc, hbench>>
benches == <<ctxDone, cberr, requested, startCh, doneCh, timers, results>>
runners == <<rpc, rbench>>
history == <<asked, told, overlapped>>
vars == <<servers, conns, connected, active, benches, runners, crashed, faults, history>>

Init ==
    /\ step = [s \in Servers |-> 1]
    /\ sconn = [s \in Servers |-> 0]
    /\ owner = [h \in Conns |-> NoServer]
    /\ alive = [h \in Conns |-> FALSE]
    /\ inbox = [h \in Conns |-> 0]
    /\ reply = [h \in Conns |-> NoReply]
    /\ hpc = [h \in Conns |-> "unused"]
    /\ hbench = [h \in Conns |-> 0]
    /\ connected = [id |-> NoServer, on |-> FALSE]
    /\ active = 0
    /\ ctxDone = [b \in Benches |-> FALSE]
    /\ cberr = [b \in Benches |-> FALSE]
    /\ requested = [b \in Benches |-> [st \in Stages |-> FALSE]]
    /\ startCh = [b \in Benches |-> [st \in Stages |-> 0]]
    /\ doneCh = [b \in Benches |-> [st \in Stages |-> 0]]
    /\ timers = [b \in Benches |-> [st \in Stages |-> 0]]
    /\ results = [b \in Benches |-> "nil"]
    /\ rpc = [b \in Benches |-> "none"]
    /\ rbench = [b \in Benches |-> 0]
    /\ crashed = FALSE
    /\ faults = 0
    /\ asked = [s \in Servers |-> 0]
    /\ told = [s \in Servers |-> 0]
    /\ overlapped = {}
(* A panic (a channel closed twice) or a fatal error (a map written while  *)
(* it is read) ends the process.                                           *)
Panicked ==
    \/ crashed
    \/ \E b \in Benches, st \in Stages : startCh[b][st] > 1 \/ doneCh[b][st] > 1
-----------------------------------------------------------------------------
(* Coordinators.                                                           *)

Unused == {h \in Conns : hpc[h] = "unused"}

(* connect: dial, and send the server info.                                *)
Dial(s) ==
    /\ ~Panicked
    /\ step[s] < Ended
    /\ sconn[s] = 0
    /\ Unused # {}
    /\ LET h == CHOOSE c \in Unused : \A d \in Unused : c <= d
       IN  /\ sconn' = [sconn EXCEPT ![s] = h]
           /\ owner' = [owner EXCEPT ![h] = s]
           /\ alive' = [alive EXCEPT ![h] = TRUE]
           /\ hpc' = [hpc EXCEPT ![h] = "handshake"]
    /\ UNCHANGED <<step, inbox, reply, hbench, connected, active, benches, runners,
                   crashed, faults, history>>

(* connect failed for the fourth time, as the client is gone, by a fault,  *)
(* or at the bound: roundTrip returns the error, and the coordinator exits *)
(* or drops the client.                                                    *)
GiveUp(s) ==
    /\ step[s] < Ended
    /\ sconn[s] = 0
    /\ \/ (Panicked \/ Unused = {}) /\ UNCHANGED faults
       \/ faults < MaxFaults /\ faults' = faults + 1
    /\ step' = [step EXCEPT ![s] = Ended]
    /\ UNCHANGED <<sconn, conns, connected, active, benches, runners, crashed, history>>

(* The coordinator's process ends (an error of another client is fatal):   *)
(* no disconnect request is sent.                                          *)
ServerExits(s) ==
    /\ step[s] < Ended
    /\ sconn[s] # 0
    /\ step' = [step EXCEPT ![s] = Ended]
    /\ sconn' = [sconn EXCEPT ![s] = 0]
    /\ alive' = [alive EXCEPT ![sconn[s]] = FALSE]
    /\ faults < MaxFaults
    /\ faults' = faults + 1
    /\ UNCHANGED <<owner, inbox, reply, hpc, hbench, connected, active, benches, runners,
                   crashed, history>>

(* roundTrip writes the request; disconnect writes it, closes and leaves.  *)
WriteRequest(s) ==
    LET h == sconn[s] IN
    /\ ~Panicked
    /\ step[s] < Ended
    /\ h # 0
    /\ alive[h]
    /\ hpc[h] = "read"
    /\ inbox[h] = 0
    /\ reply[h] = NoReply
    /\ inbox' = [inbox EXCEPT ![h] = step[s]]
    /\ asked' = [asked EXCEPT ![s] = step[s]]
    /\ IF step[s] = Disconnect
         THEN /\ step' = [step EXCEPT ![s] = Ended]
              /\ sconn' = [sconn EXCEPT ![s] = 0]
         ELSE UNCHANGED <<step, sconn>>
    /\ UNCHANGED <<owner, alive, reply, hpc, hbench, connected, active, benches, runners,
                   crashed, faults, told, overlapped>>

(* WriteJSON or ReadJSON fails: roundTrip repeats the request on a new     *)
(* connection, without waiting; disconnect ignores the error.              *)
ConnectionError(s) ==
    /\ step[s] < Ended
    /\ sconn[s] # 0
    /\ Panicked \/ ~alive[sconn[s]]
    /\ sconn' = [sconn EXCEPT ![s] = 0]
    /\ step' = [step EXCEPT ![s] = IF @ = Disconnect THEN Ended ELSE @]
    /\ UNCHANGED <<conns, connected, active, benches, runners, crashed, faults, history>>

(* What the coordinator does next, given the reply.  An error ends it:     *)
(* fatal up to the prepare stage, later the client is dropped, without     *)
(* closing its connection if a stage start failed; only waitForStage says  *)
(* disconnect.                                                             *)
(* An error in the download is logged and the cleanup goes on.             *)
NextStep(s, r) ==
    CASE r.err /\ Script[step[s]].op = "stage_status" -> Disconnect
      [] r.err /\ Script[step[s]].op \in {"benchmark", "start_stage"} -> Ended
      [] ~r.err /\ Script[step[s]].op = "stage_status" /\ ~r.finished -> step[s]
      [] OTHER -> step[s] + 1

ReadReply(s) ==
    LET h  == sconn[s]
        r  == reply[h]
        st == Script[step[s]].stage
    IN
    /\ step[s] < Ended
    /\ h # 0
    /\ hpc[h] = "read"
    /\ r # NoReply
    /\ reply' = [reply EXCEPT ![h] = NoReply]
    /\ step' = [step EXCEPT ![s] = NextStep(s, r)]
    /\ sconn' = IF NextStep(s, r) = Ended THEN [sconn EXCEPT ![s] = 0] ELSE sconn
    /\ alive' = [alive EXCEPT ![h] = @ /\ ~(NextStep(s, r) = Ended /\ st = "prepare")]
    /\ told' = IF step[s] = StatusOfBenchmark /\ ~r.err /\ r.finished
                 THEN [told EXCEPT ![s] = r.bench] ELSE told
    /\ UNCHANGED <<owner, inbox, hpc, hbench, connected, active, benches, runners, crashed,
                   faults, asked, overlapped>>

(* The network loses a connection.                                         *)
Break(h) ==
    /\ ~Panicked
    /\ alive[h]
    /\ alive' = [alive EXCEPT ![h] = FALSE]
    /\ faults < MaxFaults
    /\ faults' = faults + 1
    /\ UNCHANGED <<servers, owner, inbox, reply, hpc, hbench, connected, active, benches,
                   runners, crashed, history>>
-----------------------------------------------------------------------------
(* serveWs.                                                                *)

(* First connection, or the server disconnected, or the same server again. *)
Accepts(s) == connected.id = NoServer \/ ~connected.on \/ connected.id = s

Handshake(h) ==
    /\ hpc[h] = "handshake"
    /\ IF Accepts(owner[h])
         THEN /\ connected' = IF connected.id = NoServer \/ ~connected.on
                                THEN [id |-> owner[h], on |-> TRUE] ELSE connected
              /\ hpc' = [hpc EXCEPT ![h] = "read"]
              /\ UNCHANGED alive
         ELSE /\ hpc' = [hpc EXCEPT ![h] = "closed"]
              /\ alive' = [alive EXCEPT ![h] = FALSE]
              /\ UNCHANGED connected
    /\ UNCHANGED <<servers, owner, inbox, reply, hbench, active, benches, runners, crashed,
                   faults, history>>

(* The handler returns: the deferred function resets connected.connected,  *)
(* whoever is connected by now.                                            *)
Return(h) ==
    /\ hpc' = [hpc EXCEPT ![h] = "closed"]
    /\ alive' = [alive EXCEPT ![h] = FALSE]
    /\ reply' = [reply EXCEPT ![h] = NoReply]
    /\ connected' = [connected EXCEPT !.on = FALSE]

ReadError(h) ==
    /\ hpc[h] \in {"handshake", "read"}
    /\ ~alive[h]
    /\ IF hpc[h] = "handshake"
         THEN /\ hpc' = [hpc EXCEPT ![h] = "closed"]
              /\ UNCHANGED <<alive, reply, connected>>
         ELSE Return(h)
    /\ inbox' = [inbox EXCEPT ![h] = 0]
    /\ UNCHANGED <<servers, owner, hbench, active, benches, runners, crashed, faults, history>>

(* ReadJSON delivers a request op.                                         *)
Executes(h, op) ==
    /\ hpc[h] = "read"
    /\ inbox[h] # 0
    /\ Script[inbox[h]].op = op

(* A later step of a request.                                              *)
Continues(h, place, op) ==
    /\ hpc[h] = place
    /\ Script[inbox[h]].op = op

(* WriteJSON: the handler returns when the connection is gone.             *)
Answer(h, r) ==
    /\ IF alive[h]
         THEN /\ reply' = [reply EXCEPT ![h] = r]
              /\ hpc' = [hpc EXCEPT ![h] = "read"]
              /\ UNCHANGED <<alive, connected>>
         ELSE Return(h)
    /\ inbox' = [inbox EXCEPT ![h] = 0]
    /\ hbench' = [hbench EXCEPT ![h] = 0]

(* Mutant of GoesOn: the handler keeps no benchmark.                       *)
GoesOnWithout(h, place, b) ==
    /\ hpc' = [hpc EXCEPT ![h] = place]
    /\ UNCHANGED <<alive, connected, reply, inbox, hbench>>

(* The handler goes on, at place, with benchmark b.                        *)
GoesOn(h, place, b) ==
    /\ hpc' = [hpc EXCEPT ![h] = place]
    /\ hbench' = [hbench EXCEPT ![h] = b]
    /\ UNCHANGED <<alive, connected, reply, inbox>>

CancelActive ==
    ctxDone' = [b \in Benches |-> ctxDone[b] \/ b = active]

ExecDisconnect(h) ==
    /\ Executes(h, "disconnect")
    /\ CancelActive
    /\ connected' = [id |-> NoServer, on |-> FALSE]
    /\ hpc' = [hpc EXCEPT ![h] = "closed"]
    /\ alive' = [alive EXCEPT ![h] = FALSE]
    /\ inbox' = [inbox EXCEPT ![h] = 0]
    /\ UNCHANGED <<servers, owner, reply, hbench, active, cberr, requested, startCh, doneCh,
                   timers, results, runners, crashed, faults, history>>

(* The running benchmark is cancelled ...                                  *)
ExecBenchmark(h) ==
    /\ Executes(h, "benchmark")
    /\ CancelActive
    /\ GoesOn(h, "finish", 0)
    /\ UNCHANGED <<servers, owner, active, cberr, requested, startCh, doneCh, timers, results,
                   runners, crashed, faults, history>>

(* ... and executeBenchmark makes a new one and launches its goroutine, or *)
(* fails on the command or its flags.                                      *)
FinishBenchmark(h) ==
    /\ Continues(h, "finish", "benchmark")
    /\ \/ /\ active' = h
          /\ rpc' = [rpc EXCEPT ![h] = "spawned"]
          /\ Answer(h, ReplyOk(h))
       \/ /\ Answer(h, ReplyErr)
          /\ UNCHANGED <<active, rpc>>
    /\ UNCHANGED <<servers, owner, benches, rbench, crashed, faults, history>>

(* start_stage, stage_status and send_ops find no benchmark, or go on with *)
(* the active one.                                                         *)
WithActive(h, place) ==
    \/ active = 0 /\ Answer(h, ReplyErr)
    \/ active # 0 /\ GoesOn(h, place, active)

(* start_stage: the reference to the map of infos is copied ...            *)
ExecStartStage(h) ==
    /\ Executes(h, "start_stage")
    /\ WithActive(h, "lookup")
    /\ UNCHANGED <<servers, owner, active, benches, runners, crashed, faults, history>>

(* Mutant of AlreadyRequested: a repeated request starts the stage again.  *)
NeverRequested(b, st) == FALSE

AlreadyRequested(b, st) == requested[b][st]

(* Handlers that will write the info of stage st of benchmark b.           *)
Starting(b, st) ==
    {h \in Conns : Continues(h, "finish", "start_stage") /\ hbench[h] = b
                     /\ Script[inbox[h]].stage = st}

(* ... the info of the stage is read from the map without the lock ...     *)
LookupStart(h) ==
    LET st == Script[inbox[h]].stage
        b  == hbench[h]
    IN
    /\ Continues(h, "lookup", "start_stage")
    /\ IF AlreadyRequested(b, st)
         THEN Answer(h, ReplyOk(b)) /\ UNCHANGED overlapped
         ELSE /\ GoesOn(h, "finish", b)
              /\ overlapped' = IF Starting(b, st) = {} THEN overlapped
                               ELSE overlapped \cup {<<b, st>>}
    /\ UNCHANGED <<servers, owner, active, benches, runners, crashed, faults, asked, told>>

(* ... and written back, with startRequested set; a goroutine will close   *)
(* the start channel at the requested time.                                *)
FinishStartStage(h) ==
    LET st == Script[inbox[h]].stage
        b  == hbench[h]
    IN
    /\ Continues(h, "finish", "start_stage")
    /\ requested' = [requested EXCEPT ![b][st] = TRUE]
    /\ timers' = [timers EXCEPT ![b][st] = @ + 1]
    /\ Answer(h, ReplyOk(b))
    /\ UNCHANGED <<servers, owner, active, ctxDone, cberr, startCh, doneCh, results, runners,
                   crashed, faults, history>>

(* stage_status: the error and the reference are copied ...                *)
ExecStageStatus(h) ==
    /\ Executes(h, "stage_status")
    /\ IF active # 0 /\ cberr[active]
         THEN Answer(h, ReplyErr)
         ELSE WithActive(h, "lookup")
    /\ UNCHANGED <<servers, owner, active, benches, runners, crashed, faults, history>>

(* ... the info is read without the lock, and its channels are looked at.  *)
FinishStageStatus(h) ==
    LET b == hbench[h] IN
    /\ Continues(h, "lookup", "stage_status")
    /\ Answer(h, [ReplyOk(b) EXCEPT !.finished = doneCh[b][Script[inbox[h]].stage] > 0])
    /\ UNCHANGED <<servers, owner, active, benches, runners, crashed, faults, history>>

(* send_ops: under the lock only the slice cb.results is taken ...         *)
ExecSendOps(h) ==
    /\ Executes(h, "send_ops")
    /\ WithActive(h, "finish")
    /\ UNCHANGED <<servers, owner, active, benches, runners, crashed, faults, history>>

(* ... and its elements are encoded as they are when the reply is written. *)
(* A slice that was nil stays nil.                                         *)
FinishSendOps(h) ==
    LET b == hbench[h] IN
    /\ Continues(h, "finish", "send_ops")
    /\ Answer(h, [ReplyOk(b) EXCEPT !.ops = results[b]])
    /\ UNCHANGED <<servers, owner, active, benches, runners, crashed, faults, history>>

Handler(h) ==
    /\ ~Panicked
    /\ \/ Handshake(h) \/ ReadError(h)
       \/ ExecDisconnect(h) \/ ExecBenchmark(h) \/ FinishBenchmark(h)
       \/ ExecStartStage(h) \/ LookupStart(h) \/ FinishStartStage(h)
       \/ ExecStageStatus(h) \/ FinishStageStatus(h)
       \/ ExecSendOps(h) \/ FinishSendOps(h)
-----------------------------------------------------------------------------
(* The goroutine launched with benchmark b, and the stage timers.          *)

(* close(info.start) after the sleep.                                      *)
TimerFires(b, st) ==
    /\ ~Panicked
    /\ timers[b][st] > 0
    /\ timers' = [timers EXCEPT ![b][st] = @ - 1]
    /\ startCh' = [startCh EXCEPT ![b][st] = @ + 1]
    /\ UNCHANGED <<servers, conns, connected, active, ctxDone, cberr, requested, doneCh,
                   results, runners, crashed, faults, history>>

RunnerAt(b, from, to) ==
    /\ rpc[b] = from
    /\ rpc' = [rpc EXCEPT ![b] = to]

(* The command reaches runBench, which looks up activeBenchmark.           *)
Attach(b) ==
    /\ RunnerAt(b, "spawned", "waitPrepare")
    /\ rbench' = [rbench EXCEPT ![b] = active]
    /\ UNCHANGED <<servers, conns, connected, active, benches, crashed, faults, history>>

(* Mutant of StageStarts: every stage waits for the start of the first.    *)
StageStartsFirst(b, st, from, to) ==
    /\ RunnerAt(b, from, to)
    /\ startCh[rbench[b]]["prepare"] > 0
    /\ UNCHANGED <<servers, conns, connected, active, benches, rbench, crashed, faults,
                   history>>

(* waitForStage: the stage starts ...                                      *)
StageStarts(b, st, from, to) ==
    /\ RunnerAt(b, from, to)
    /\ startCh[rbench[b]][st] > 0
    /\ UNCHANGED <<servers, conns, connected, active, benches, rbench, crashed, faults,
                   history>>

(* Mutant of StageAborted: only the start channel is waited for.           *)
StageAbortedNever(b, from) == FALSE

(* ... or cb.ctx is cancelled, and the goroutine ends with that error.     *)
StageAborted(b, from) ==
    /\ RunnerAt(b, from, "finished")
    /\ ctxDone[rbench[b]]
    /\ cberr' = [cberr EXCEPT ![b] = TRUE]
    /\ UNCHANGED <<servers, conns, connected, active, ctxDone, requested, startCh, doneCh,
                   timers, results, rbench, crashed, faults, history>>

(* Mutant of StageDone: the error of the stage is not kept.                *)
StageDoneForgets(b, st, err) ==
    LET c == rbench[b] IN
    /\ cberr' = cberr
    /\ doneCh' = [doneCh EXCEPT ![c][st] = @ + 1]

(* stageDone: under the lock the first error is kept, done is closed and   *)
(* the info written back (its custom data, which no command sets, is left  *)
(* out).  An error also ends the goroutine, which stores it in the         *)
(* benchmark it was launched with.                                         *)
StageDone(b, st, err) ==
    LET c == rbench[b] IN
    /\ cberr' = [x \in Benches |-> cberr[x] \/ (err /\ x \in {b, c})]
    /\ doneCh' = [doneCh EXCEPT ![c][st] = @ + 1]

(* Prepare succeeds, or fails: then the goroutine ends.                    *)
Prepared(b) ==
    /\ \/ RunnerAt(b, "prepare", "waitStart") /\ StageDone(b, "prepare", FALSE)
       \/ RunnerAt(b, "prepare", "finished") /\ StageDone(b, "prepare", TRUE)
    /\ UNCHANGED <<servers, conns, connected, active, ctxDone, requested, startCh, timers,
                   results, rbench, crashed, faults, history>>

(* Mutant of Measured: the stage is reported before its results are there. *)
MeasuredDoneFirst(b) ==
    /\ RunnerAt(b, "running", "report")
    /\ StageDone(b, "benchmark", FALSE)
    /\ UNCHANGED <<servers, conns, connected, active, ctxDone, requested, startCh, timers,
                   results, rbench, crashed, faults, history>>

(* Start returned (after the duration, or because ctx is cancelled).       *)
Measured(b) ==
    /\ RunnerAt(b, "running", "report")
    /\ results' = [results EXCEPT ![rbench[b]] = "full"]
    /\ UNCHANGED <<servers, conns, connected, active, ctxDone, cberr, requested, startCh,
                   doneCh, timers, rbench, crashed, faults, history>>

ReportMeasured(b) ==
    /\ RunnerAt(b, "report", "sort")
    /\ StageDone(b, "benchmark", FALSE)
    /\ UNCHANGED <<servers, conns, connected, active, ctxDone, requested, startCh, timers,
                   results, rbench, crashed, faults, history>>

(* SetClientID and SortByStartTime work in place on the slice that         *)
(* cb.results already holds.                                               *)
SortBegins(b) ==
    /\ RunnerAt(b, "sort", "sorting")
    /\ results' = [results EXCEPT ![rbench[b]] = "torn"]
    /\ UNCHANGED <<servers, conns, connected, active, ctxDone, cberr, requested, startCh,
                   doneCh, timers, rbench, crashed, faults, history>>

SortEnds(b) ==
    /\ RunnerAt(b, "sorting", "waitCleanup")
    /\ results' = [results EXCEPT ![rbench[b]] = "full"]
    /\ UNCHANGED <<servers, conns, connected, active, ctxDone, cberr, requested, startCh,
                   doneCh, timers, rbench, crashed, faults, history>>

(* Cleanup ran; stageDone, and the goroutine ends without an error.        *)
CleanedUp(b) ==
    /\ RunnerAt(b, "cleanup", "finished")
    /\ StageDone(b, "cleanup", FALSE)
    /\ UNCHANGED <<servers, conns, connected, active, ctxDone, requested, startCh, timers,
                   results, rbench, crashed, faults, history>>

(* The threads of Start wait for the start channel only, not for ctx.      *)
Runner(b) ==
    /\ ~Panicked
    /\ \/ Attach(b)
       \/ StageStarts(b, "prepare", "waitPrepare", "prepare")
       \/ StageAborted(b, "waitPrepare")
       \/ Prepared(b)
       \/ StageStarts(b, "benchmark", "waitStart", "running")
       \/ Measured(b) \/ ReportMeasured(b) \/ SortBegins(b) \/ SortEnds(b)
       \/ StageStarts(b, "cleanup", "waitCleanup", "cleanup")
       \/ StageAborted(b, "waitCleanup")
       \/ CleanedUp(b)

(* The map cb.info is written under the lock, but the handlers that copied *)
(* the reference to it read it after they have left the lock.  A write of  *)
(* a start_stage or a stageDone that meets such a read may be fatal.       *)
Writing(b) ==
    \/ \E h \in Conns : Continues(h, "finish", "start_stage") /\ hbench[h] = b
    \/ \E x \in Benches : rpc[x] \in {"prepare", "report", "cleanup"} /\ rbench[x] = b

InfoRace(h) ==
    /\ ~Panicked
    /\ hpc[h] = "lookup"
    /\ Writing(hbench[h])
    /\ crashed' = TRUE
    /\ UNCHANGED <<servers, conns, connected, active, benches, runners, faults, history>>

Server(s) ==
    Dial(s) \/ GiveUp(s) \/ WriteRequest(s) \/ ConnectionError(s) \/ ReadReply(s)

Next ==
    \/ \E s \in Servers : Server(s) \/ ServerExits(s)
    \/ \E h \in Conns : Handler(h) \/ Break(h) \/ InfoRace(h)
    \/ \E b \in Benches : Runner(b)
    \/ \E b \in Benches, st \in Stages : TimerFires(b, st)

(* Coordinators, handlers, timers and the goroutines of benchmarks run;    *)
(* neither a lost connection nor the end of a coordinator is owed.         *)
Fairness ==
    /\ \A s \in Servers : WF_vars(Server(s))
    /\ \A h \in Conns : WF_vars(Handler(h))
    /\ \A b \in Benches : WF_vars(Runner(b))
    /\ WF_vars(\E b \in Benches, st \in Stages : TimerFires(b, st))

Spec == Init /\ [][Next]_vars /\ Fairness
-----------------------------------------------------------------------------
(* Every variable has its type, and a handler that looks into a benchmark  *)
(* has one.                                                                *)
ClientTypeOK ==
    /\ step \in [Servers -> 1 .. Ended]
    /\ sconn \in [Servers -> 0 .. MaxConns]
    /\ owner \in [Conns -> Servers \cup {NoServer}]
    /\ alive \in [Conns -> BOOLEAN]
    /\ inbox \in [Conns -> 0 .. Len(Script)]
    /\ reply \in [Conns -> [err : BOOLEAN, finished : BOOLEAN, bench : 0 .. MaxConns,
                            ops : {"nil", "full", "torn", "no reply"}]]
    /\ hpc \in [Conns -> {"unused", "handshake", "read", "lookup", "finish", "closed"}]
    /\ hbench \in [Conns -> 0 .. MaxConns]
    /\ \A h \in Conns : hpc[h] = "lookup" => hbench[h] # 0
    /\ connected \in [id : Servers \cup {NoServer}, on : BOOLEAN]
    /\ active \in 0 .. MaxConns
    /\ ctxDone \in [Benches -> BOOLEAN] /\ cberr \in [Benches -> BOOLEAN]
    /\ requested \in [Benches -> [Stages -> BOOLEAN]]
    /\ startCh \in [Benches -> [Stages -> Nat]]
    /\ doneCh \in [Benches -> [Stages -> Nat]]
    /\ timers \in [Benches -> [Stages -> Nat]]
    /\ results \in [Benches -> {"nil", "full", "torn"}]
    /\ rpc \in [Benches -> {"none", "spawned", "waitPrepare", "prepare", "waitStart",
                            "running", "report", "sort", "sorting", "waitCleanup",
                            "cleanup", "finished"}]
    /\ rbench \in [Benches -> 0 .. MaxConns]
    /\ crashed \in BOOLEAN /\ faults \in Nat
    /\ asked \in [Servers -> 0 .. Len(Script)] /\ told \in [Servers -> 0 .. MaxConns]
    /\ overlapped \in SUBSET (Benches \X Stages)

(* Repeated requests are harmless one after another: a start channel is    *)
(* closed twice only if two handlers overlapped between the look at        *)
(* startRequested and its update, and a done channel only if the goroutine *)
(* of another benchmark found this one in activeBenchmark.                 *)
DoubleCloseNeedsOverlap ==
    \A b \in Benches, st \in Stages :
        /\ startCh[b][st] > 1 => <<b, st>> \in overlapped
        /\ doneCh[b][st] > 1 => \E x \in Benches \ {b} : rbench[x] = b

(* The reply that coordinator s is about to read, for a request op.        *)
Replied(s, op) ==
    /\ step[s] < Ended /\ sconn[s] # 0
    /\ Script[step[s]].op = op
    /\ hpc[sconn[s]] = "read"
    /\ reply[sconn[s]] # NoReply /\ ~reply[sconn[s]].err

(* A coordinator that was told the benchmark finished does not download    *)
(* the nothing that was there before it had finished, unless a late        *)
(* benchmark request has put another benchmark in place in between.        *)
OpsDownloaded ==
    \A s \in Servers :
        Replied(s, "send_ops") /\ reply[sconn[s]].bench = told[s]
            => reply[sconn[s]].ops # "nil"

(* "Once ops have been added, they should no longer be modified."          *)
(* (pkg/bench/ops.go:56): what a coordinator downloads is the slice as it  *)
(* was collected, not one that runClientBenchmark is sorting in place.     *)
OpsDownloadedIntact ==
    \A s \in Servers : Replied(s, "send_ops") => reply[sconn[s]].ops # "torn"

(* Whichever benchmarks the repeated requests made, and whichever of them  *)
(* a goroutine works on, it is in a stage only when a coordinator had got  *)
(* as far as to ask for the start of that stage.                           *)
AskedFor(i) == \E s \in Servers : asked[s] >= i

NotAhead ==
    \A b \in Benches :
        /\ rpc[b] = "prepare" => AskedFor(2)
        /\ rpc[b] = "running" => AskedFor(4)
        /\ rpc[b] = "cleanup" => AskedFor(7)

(* The connections on which the client serves coordinator s.               *)
Serving(s) == {h \in Conns : /\ owner[h] = s /\ alive[h]
                             /\ hpc[h] \in {"read", "lookup", "finish"}}

(* "another server already connected" (cli/benchclient.go:147): while one  *)
(* coordinator is served no other one is let in.                           *)
OneServerAtATime ==
    \A s, t \in Servers : s # t => Serving(s) = {} \/ Serving(t) = {}

(* The benchmark that is asked for the status of a stage is one that was   *)
(* never asked to start this or an earlier stage: a late benchmark request *)
(* replaced the one that was.                                              *)
Stranded(s) ==
    /\ step[s] < Ended /\ Script[step[s]].op = "stage_status"
    /\ active # 0
    /\ \E i \in 1 .. step[s] :
           Script[i].op = "start_stage" /\ ~requested[active][Script[i].stage]

(* Every coordinator comes to an end, whatever fails, unless it is         *)
(* stranded.                                                               *)
ServersEnd == \A s \in Servers : <>(step[s] = Ended) \/ <>[]Stranded(s)

(* A cancelled benchmark ends, unless its threads already wait for a start *)
(* that nobody requested: then its goroutines stay for ever.               *)
CancelledEnds ==
    \A b \in Benches :
        (rbench[b] = b /\ ctxDone[b]) ~>
            \/ Panicked \/ rpc[b] = "finished"
            \/ rpc[b] = "waitStart" /\ ~requested[b]["benchmark"]
=============================================================================

---------------------------- MODULE Coordinator ----------------------------
(***************************************************************************)
(* The coordinator of a distributed benchmark: runServerBenchmark and the  *)
(* connections it keeps to its clients (cli/benchserver.go).  The main     *)
(* goroutine connects to the clients one after the other, then takes them  *)
(* through the stages prepare, benchmark and cleanup: startStageAll and    *)
(* waitForStage run one goroutine per connected client and join them; the  *)
(* operations are downloaded between the last two stages.                  *)
(*                                                                         *)
(* A client is abstracted to what module ClientBench models in detail: how *)
(* far its benchmark got, the stage starts it was asked for, whether it    *)
(* failed and whether it was cancelled.                                    *)
(***************************************************************************)
EXTENDS Naturals, FiniteSets

CONSTANTS
    N,          \* number of clients (hosts of the warp-client flag)
    MaxFaults   \* bound: lost connections, hosts that stay unreachable and
                \* clients that are restarted, in a behaviour

ASSUME NAssumption == N \in Nat \ {0}
ASSUME MaxFaultsAssumption == MaxFaults \in Nat

Clients == 1 .. N

Prepare == 1
Benchmark == 2
Cleanup == 3

(* Progress of a client's benchmark: stage k runs at 2k - 1 and is done at *)
(* 2k; between the stages it waits for the next start.                     *)
Running(k) == 2 * k - 1
Done(k) == 2 * k

VARIABLES
    \* coordinator
    pc,         \* what the main goroutine does
    stage,      \* the stage it is in
    go,         \* roundTrip of each client: none, ask, sent, done
    ws,         \* c.ws[i]: nil, up, or down and not noticed yet
    reply,      \* the reply of the client on its way
    downloaded, \* clients whose operations downloadOps collected
    \* clients
    has,        \* the client has an active benchmark
    at,         \* its progress
    asked,      \* the last stage it was asked to start
    failed,     \* its err is set
    cancelled,  \* its context is cancelled
    lost,       \* the coordinator lost it without a disconnect request
    faults      \* faults so far

coord == <<pc, stage, downloaded>>
link == <<go, ws, reply>>
client == <<has, at, asked, failed, cancelled>>
vars == <<coord, link, client, lost, faults>>

Phases == {"connect", "start", "wait", "download"}
Ends == {"returned", "exited", "panicked"}
Replies == {"none", "ok", "err", "finished", "ops"}

Init ==
    /\ pc = "connect"
    /\ stage = 0
    /\ go = [i \in Clients |-> IF i = 1 THEN "ask" ELSE "none"]
    /\ ws = [i \in Clients |-> "nil"]
    /\ reply = [i \in Clients |-> "none"]
    /\ downloaded = {}
    /\ has = [i \in Clients |-> FALSE]
    /\ at = [i \in Clients |-> 0]
    /\ asked = [i \in Clients |-> 0]
    /\ failed = [i \in Clients |-> FALSE]
    /\ cancelled = [i \in Clients |-> FALSE]
    /\ lost = [i \in Clients |-> FALSE]
    /\ faults = 0

Fault ==
    /\ faults < MaxFaults
    /\ faults' = faults + 1
-----------------------------------------------------------------------------
(* Clients.                                                                *)

(* The client's benchmark has not failed.                                  *)
Working(i) == has[i] /\ ~failed[i]

(* waitForStage (client side): the stage starts once it was asked for.     *)
ClientStarts(i, k) ==
    /\ Working(i)
    /\ at[i] = Done(k - 1)
    /\ asked[i] >= k
    /\ at' = [at EXCEPT ![i] = Running(k)]
    /\ UNCHANGED <<coord, link, has, asked, failed, cancelled, lost, faults>>

(* A stage ends; only Prepare can fail.                                    *)
ClientFinishes(i, k) ==
    /\ Working(i)
    /\ at[i] = Running(k)
    /\ at' = [at EXCEPT ![i] = Done(k)]
    /\ \/ UNCHANGED failed
       \/ k = Prepare /\ failed' = [failed EXCEPT ![i] = TRUE]
    /\ UNCHANGED <<coord, link, has, asked, cancelled, lost, faults>>

(* The client's process is restarted: its benchmark is gone.               *)
ClientRestarts(i) ==
    /\ has[i]
    /\ Fault
    /\ has' = [has EXCEPT ![i] = FALSE]
    /\ ws' = [ws EXCEPT ![i] = IF @ = "up" THEN "down" ELSE @]
    /\ reply' = [reply EXCEPT ![i] = "none"]
    /\ UNCHANGED <<coord, go, at, asked, failed, cancelled, lost>>

(* Cancelling a benchmark stops none of these steps: a client that is      *)
(* cancelled is through, has failed, or is prepared, and then its threads  *)
(* wait for the start channel only.                                        *)
Client(i) ==
    \E k \in Prepare .. Cleanup : ClientStarts(i, k) \/ ClientFinishes(i, k)

Reply(i, r) == reply' = [reply EXCEPT ![i] = r]

(* What the client does with a request: a benchmark request replaces its   *)
(* benchmark, or is refused ...                                            *)
ExecuteBenchmark(i) ==
    /\ pc = "connect"
    /\ \/ /\ has' = [has EXCEPT ![i] = TRUE]
          /\ at' = [at EXCEPT ![i] = 0]
          /\ failed' = [failed EXCEPT ![i] = FALSE]
          /\ Reply(i, "ok")
          /\ UNCHANGED <<asked, cancelled>>
       \/ Reply(i, "err") /\ UNCHANGED client

(* ... a stage start is noted ...                                          *)
ExecuteStartStage(i) ==
    /\ pc = "start"
    /\ \/ has[i] /\ asked' = [asked EXCEPT ![i] = stage] /\ Reply(i, "ok")
       \/ ~has[i] /\ Reply(i, "err") /\ UNCHANGED asked
    /\ UNCHANGED <<has, at, failed, cancelled>>

(* ... the status tells an error before the end of the stage ...           *)
ExecuteStageStatus(i) ==
    /\ pc = "wait"
    /\ \/ ~Working(i) /\ Reply(i, "err")
       \/ Working(i) /\ at[i] >= Done(stage) /\ Reply(i, "finished")
       \/ Working(i) /\ at[i] < Done(stage) /\ Reply(i, "ok")
    /\ UNCHANGED client

(* ... and the operations are sent whether or not the benchmark failed.    *)
ExecuteSendOps(i) ==
    /\ pc = "download"
    /\ Reply(i, IF has[i] THEN "ops" ELSE "err")
    /\ UNCHANGED client

Execute(i) ==
    \/ ExecuteBenchmark(i) \/ ExecuteStartStage(i)
    \/ ExecuteStageStatus(i) \/ ExecuteSendOps(i)
-----------------------------------------------------------------------------
(* roundTrip, the steps of one goroutine.                                  *)

(* connect succeeds within its four tries.                                 *)
Connect(i) ==
    /\ go[i] = "ask"
    /\ ws[i] # "up"
    /\ ws' = [ws EXCEPT ![i] = "up"]
    /\ UNCHANGED <<coord, go, reply, client, lost, faults>>

(* WriteJSON reaches the client, which executes the request.               *)
Write(i) ==
    /\ go[i] = "ask"
    /\ ws[i] = "up"
    /\ go' = [go EXCEPT ![i] = "sent"]
    /\ Execute(i)
    /\ UNCHANGED <<coord, ws, lost, faults>>

(* Mutant of ReadError: the goroutine waits for the reply for ever.        *)
ReadErrorStuck(i) == FALSE

(* ReadJSON fails: the request will be repeated on a new connection.       *)
ReadError(i) ==
    /\ go[i] = "sent"
    /\ ws[i] = "down"
    /\ go' = [go EXCEPT ![i] = "ask"]
    /\ reply' = [reply EXCEPT ![i] = "none"]
    /\ UNCHANGED <<coord, ws, client, lost, faults>>

(* The network loses a connection.                                         *)
Break(i) ==
    /\ ws[i] = "up"
    /\ Fault
    /\ ws' = [ws EXCEPT ![i] = "down"]
    /\ UNCHANGED <<coord, go, reply, client, lost>>

(* FatalIf, in the connect loop and in the prepare stage.                  *)
IsFatal == pc = "connect" \/ (stage = Prepare /\ pc \in {"start", "wait"})

(* The main goroutine goes on to the next host, a goroutine ends.          *)
GoDone(i) ==
    go' = [go EXCEPT ![i] = "done"]

(* connect failed four times: c.ws[i] is nil and roundTrip returns the     *)
(* error.  downloadOps reads resp.Err of the nil resp then.                *)
ConnectFails(i) ==
    /\ go[i] = "ask"
    /\ ws[i] # "up"
    /\ Fault
    /\ ws' = [ws EXCEPT ![i] = "nil"]
    /\ lost' = [lost EXCEPT ![i] = TRUE]
    /\ GoDone(i)
    /\ pc' = CASE IsFatal -> "exited" [] pc = "download" -> "panicked" [] OTHER -> pc
    /\ UNCHANGED <<stage, reply, downloaded, client>>

(* ReadJSON returns the reply, which is ...                                *)
Read(i, r) ==
    /\ go[i] = "sent"
    /\ ws[i] = "up"
    /\ reply[i] = r
    /\ reply' = [reply EXCEPT ![i] = "none"]

(* ... an acknowledgement of the benchmark or of a stage start ...         *)
Acknowledged(i) ==
    /\ Read(i, "ok")
    /\ pc \in {"connect", "start"}
    /\ GoDone(i)
    /\ UNCHANGED <<coord, ws, client, lost, faults>>

(* ... the status of a stage that goes on: waitForStage sleeps and asks    *)
(* again ...                                                               *)
Unfinished(i) ==
    /\ Read(i, "ok")
    /\ pc = "wait"
    /\ go' = [go EXCEPT ![i] = "ask"]
    /\ UNCHANGED <<coord, ws, client, lost, faults>>

(* Mutant of Finished: any status ends the wait.                           *)
FinishedAtOnce(i) ==
    /\ Read(i, "finished") \/ Read(i, "ok")
    /\ pc = "wait"
    /\ GoDone(i)
    /\ UNCHANGED <<coord, ws, client, lost, faults>>

(* ... of one that finished ...                                            *)
Finished(i) ==
    /\ Read(i, "finished")
    /\ GoDone(i)
    /\ UNCHANGED <<coord, ws, client, lost, faults>>

(* Mutant of Collect: an append that overwrites the other goroutine's.     *)
CollectRacy(i) == {i}

(* Mutant of Collect: the index is off by one.                             *)
CollectShifted(i) == downloaded \cup {i - 1}

(* res = append(res, resp.Ops), under the mutex.                           *)
Collect(i) == downloaded \cup {i}

(* ... the operations ...                                                  *)
Downloads(i) ==
    /\ Read(i, "ops")
    /\ downloaded' = Collect(i)
    /\ GoDone(i)
    /\ UNCHANGED <<pc, stage, ws, client, lost, faults>>

(* ... or an error: fatal up to the prepare stage; later a client that     *)
(* does not start a stage is dropped, one that fails in it is disconnected *)
(* and a download is ignored.                                              *)
Refused(i) ==
    /\ Read(i, "err")
    /\ GoDone(i)
    /\ ws' = [ws EXCEPT ![i] = IF pc = "wait" \/ (pc = "start" /\ ~IsFatal)
                                 THEN "nil" ELSE @]
    /\ cancelled' = [cancelled EXCEPT ![i] = @ \/ (pc = "wait" /\ has[i])]
    /\ pc' = IF IsFatal THEN "exited" ELSE pc
    /\ UNCHANGED <<stage, downloaded, has, at, asked, failed, lost, faults>>

RoundTrip(i) ==
    /\ pc \in Phases
    /\ \/ Connect(i) \/ Write(i) \/ ReadError(i)
       \/ Acknowledged(i) \/ Unfinished(i) \/ Finished(i) \/ Downloads(i)
       \/ Refused(i)
-----------------------------------------------------------------------------
(* The main goroutine.                                                     *)

(* One goroutine for each client that is connected.                        *)
Spawn == go' = [i \in Clients |-> IF ws[i] = "nil" THEN "none" ELSE "ask"]

(* Mutant of Joined: the first goroutine to end releases Wait.             *)
JoinedAny == \E i \in Clients : go[i] = "done"

(* wg.Wait.                                                                *)
Joined == \A i \in Clients : go[i] \in {"none", "done"}

(* The connect loop takes the next host, or is through.                    *)
NextHost ==
    /\ pc = "connect"
    /\ \E i \in Clients :
          /\ go[i] = "done"
          /\ i < N
          /\ go[i + 1] = "none"
          /\ go' = [go EXCEPT ![i + 1] = "ask"]
    /\ UNCHANGED <<coord, ws, reply, client, lost, faults>>

AllConnected ==
    /\ pc = "connect"
    /\ go[N] = "done"
    /\ pc' = "start"
    /\ stage' = Prepare
    /\ Spawn
    /\ UNCHANGED <<ws, reply, downloaded, client, lost, faults>>

(* startStageAll returned: waitForStage begins.                            *)
StageStarted ==
    /\ pc = "start"
    /\ Joined
    /\ pc' = "wait"
    /\ Spawn
    /\ UNCHANGED <<stage, ws, reply, downloaded, client, lost, faults>>

(* waitForStage returned: AfterPrepare, and the benchmark stage; or the    *)
(* download of the operations.                                             *)
StageFinished ==
    /\ pc = "wait"
    /\ Joined
    /\ \/ stage = Prepare /\ pc' = "start" /\ stage' = Benchmark
       \/ stage = Benchmark /\ pc' = "download" /\ UNCHANGED stage
    /\ Spawn
    /\ UNCHANGED <<ws, reply, downloaded, client, lost, faults>>

(* downloadOps returned and the data is written: the cleanup stage begins. *)
OpsSaved ==
    /\ pc = "download"
    /\ Joined
    /\ pc' = "start"
    /\ stage' = Cleanup
    /\ Spawn
    /\ UNCHANGED <<ws, reply, downloaded, client, lost, faults>>

(* FatalIf on AfterPrepare or on writing the data: the process exits.      *)
FatalError ==
    /\ \/ pc = "wait" /\ stage = Prepare
       \/ pc = "download"
    /\ Joined
    /\ pc' = "exited"
    /\ UNCHANGED <<stage, downloaded, link, client, lost, faults>>

(* Mutant of Disconnected: closeAll stops at the first connection.         *)
DisconnectedFirst == {i \in Clients : ws[i] = "up" /\ \A j \in 1 .. i - 1 : ws[j] = "nil"}

(* Clients whose connection still takes the disconnect request.            *)
Disconnected == {i \in Clients : ws[i] = "up"}

(* runServerBenchmark returns, after the cleanup stage or because profiling*)
(* cannot start; the deferred closeAll sends disconnect requests.          *)
Return ==
    /\ pc = "wait"
    /\ stage \in {Prepare, Cleanup}
    /\ Joined
    /\ pc' = "returned"
    /\ cancelled' = [i \in Clients |-> cancelled[i] \/ (i \in Disconnected /\ has[i])]
    /\ lost' = [i \in Clients |-> lost[i] \/ ws[i] = "down"]
    /\ ws' = [i \in Clients |-> "nil"]
    /\ UNCHANGED <<stage, go, reply, downloaded, has, at, asked, failed, faults>>

Main ==
    \/ NextHost \/ AllConnected \/ StageStarted \/ StageFinished \/ OpsSaved
    \/ FatalError \/ Return

Next ==
    \/ Main
    \/ \E i \in Clients :
          \/ RoundTrip(i)
          \/ Client(i)
          \/ pc \in Phases /\ (ConnectFails(i) \/ Break(i))
          \/ ClientRestarts(i)

(* The goroutines of the coordinator and the clients run; faults are not   *)
(* owed.                                                                   *)
Fairness ==
    /\ WF_vars(Main)
    /\ \A i \in Clients : WF_vars(RoundTrip(i)) /\ WF_vars(Client(i))

Spec == Init /\ [][Next]_vars /\ Fairness
-----------------------------------------------------------------------------
CoordTypeOK ==
    /\ pc \in Phases \cup Ends
    /\ stage \in 0 .. Cleanup
    /\ go \in [Clients -> {"none", "ask", "sent", "done"}]
    /\ ws \in [Clients -> {"nil", "up", "down"}]
    /\ reply \in [Clients -> Replies]
    /\ downloaded \in SUBSET Clients
    /\ has \in [Clients -> BOOLEAN]
    /\ at \in [Clients -> 0 .. Done(Cleanup)]
    /\ asked \in [Clients -> 0 .. Cleanup]
    /\ failed \in [Clients -> BOOLEAN]
    /\ cancelled \in [Clients -> BOOLEAN]
    /\ lost \in [Clients -> BOOLEAN]
    /\ faults \in 0 .. MaxFaults

(* "All clients prepared...": no client measures while the benchmark of    *)
(* another one is still being prepared, whatever connections were lost and *)
(* requests repeated.                                                      *)
StageBarrier ==
    \A i, j \in Clients :
        Working(i) /\ at[i] >= Running(Benchmark) /\ Working(j)
            => at[j] >= Done(Prepare)

(* No client deletes its objects while a client the coordinator still      *)
(* counts on is measuring.                                                 *)
CleanupBarrier ==
    \A i, j \in Clients :
        Working(i) /\ at[i] >= Running(Cleanup) /\ Working(j) /\ ws[j] # "nil"
            => at[j] >= Done(Benchmark)

(* Once the cleanup stage begins, the operations of every client that is   *)
(* still connected and has its benchmark are in the merged data, and each  *)
(* client had finished measuring when it was asked for them.               *)
ResultsComplete ==
    /\ stage = Cleanup =>
         \A i \in Clients : has[i] /\ ws[i] # "nil" => i \in downloaded
    /\ \A i \in downloaded : at[i] >= Done(Benchmark)

(* When runServerBenchmark has returned, a client that still has work to   *)
(* do was cancelled, or it is one that the coordinator lost.               *)
Released ==
    pc = "returned" =>
        \A i \in Clients :
            Working(i) => at[i] = Done(Cleanup) \/ cancelled[i] \/ lost[i]

(* "If an error is encountered the result will be ignored."                *)
(* (cli/benchserver.go:422): a client that cannot be reached during the    *)
(* download does not end the coordinator.                                  *)
DownloadErrorIgnored == pc # "panicked"

(* The coordinator ends, whatever client fails or cannot be reached.       *)
CoordinatorEnds == <>(pc \in Ends)

(* The clients the coordinator counts on: their benchmark has not failed   *)
(* and it has not given up their connection.                               *)
Team == {i \in Clients : Working(i) /\ (pc = "connect" \/ ws[i] # "nil")}

Abstract == INSTANCE Stages WITH
    Members <- Clients, open <- stage, team <- Team, prog <- at

(* Through lost connections, repeated requests and clients that fail or    *)
(* restart, the coordinator only ever takes a team through its stages: a   *)
(* stage is opened when everybody it counts on is through the one before.  *)
ImplementsStages == Abstract!StagesSpec
=============================================================================

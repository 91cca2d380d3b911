------------------------- MODULE CoordinatorProofs -------------------------
(***************************************************************************)
(* Proofs about the coordinator, for every number of clients and faults.   *)
(*                                                                         *)
(* The barriers are not inductive: what holds them up is that a goroutine  *)
(* of waitForStage ends only with a finished client (or loses it), that a  *)
(* finished reply on its way stays true, and that in the prepare stage no  *)
(* client can be missing from the goroutines that are joined.              *)
(* From the same facts the coordinator implements Stages.                  *)
(***************************************************************************)
EXTENDS Coordinator, TLAPS

Busy(i) == go[i] \in {"ask", "sent"}

(* Which stage the phases of the main goroutine belong to.                 *)
PhaseInv ==
    /\ pc = "connect" => stage = 0 /\ downloaded = {}
    /\ pc \in {"start", "wait"} => stage \in Prepare .. Cleanup
    /\ pc = "download" => stage = Benchmark

(* A client starts what it was asked for, and is asked for no later stage. *)
AskedInv ==
    \A i \in Clients : at[i] <= 2 * asked[i] /\ asked[i] <= stage

(* What a reply on its way says still holds when it is read.               *)
ReplyInv ==
    \A i \in Clients :
        /\ reply[i] # "none" => go[i] = "sent"
        /\ reply[i] = "finished" =>
             at[i] >= Done(stage) /\ pc \in {"wait"} \cup Ends
        /\ reply[i] = "err" /\ pc = "download" => ~has[i]
        /\ reply[i] = "ops" => pc \in {"download"} \cup Ends

(* Connections: a goroutine works on a connected client; the connect loop  *)
(* has taken the hosts in order; none is missing in the prepare stage.     *)
LinkInv ==
    \A i \in Clients :
        /\ pc \in Phases \ {"connect"} /\ Busy(i) => ws[i] # "nil"
        /\ pc = "connect" /\ go[i] \in {"sent", "done"} => ws[i] # "nil"
        /\ pc = "connect" /\ go[i] # "none" => \A j \in 1 .. i - 1 : go[j] = "done"
        /\ stage = Prepare /\ pc \in {"start", "wait"} => ws[i] # "nil" /\ go[i] # "none"

(* How far the clients are when a goroutine has ended, and afterwards.     *)
ProgressInv ==
    \A i \in Clients :
        /\ stage = Prepare /\ pc = "wait" /\ go[i] = "done" => at[i] >= Done(Prepare)
        /\ stage >= Benchmark => at[i] >= Done(Prepare)
        /\ stage = Benchmark /\ pc = "wait" /\ ~Busy(i) /\ ws[i] # "nil"
             => at[i] >= Done(Benchmark)
        /\ (pc = "download" \/ stage = Cleanup) /\ ws[i] # "nil"
             => at[i] >= Done(Benchmark)

(* The operations that were collected.                                     *)
DownloadInv ==
    /\ \A i \in downloaded : at[i] >= Done(Benchmark)
    /\ \A i \in Clients :
          (pc = "download" /\ ~Busy(i)) \/ stage = Cleanup =>
              (has[i] /\ ws[i] # "nil" => i \in downloaded)

CoordInv ==
    CoordTypeOK /\ PhaseInv /\ AskedInv /\ ReplyInv /\ LinkInv /\ ProgressInv
    /\ DownloadInv

USE DEF Clients, Prepare, Benchmark, Cleanup, Running, Done, Phases, Ends,
        Replies, Working, coord, link, client
USE DEF CoordInv, CoordTypeOK, PhaseInv, AskedInv, ReplyInv, LinkInv,
        ProgressInv, DownloadInv, Busy

(* The initial state satisfies the invariant.                              *)
LEMMA InitCoordInv == Init => CoordInv
BY NAssumption, MaxFaultsAssumption DEF Init

(* A client starts a stage it was asked for, and gets no further.          *)
LEMMA ClientStartsInv ==
    ASSUME CoordInv, NEW i \in Clients, NEW k \in Prepare .. Cleanup,
           ClientStarts(i, k)
    PROVE  CoordInv'
<1>1. CoordTypeOK'
  BY DEF ClientStarts
<1>2. PhaseInv'
  BY DEF ClientStarts
<1>3. AskedInv'
  BY DEF ClientStarts
<1>4. ReplyInv'
  BY DEF ClientStarts
<1>5. LinkInv'
  BY DEF ClientStarts
<1>6. ProgressInv'
  BY DEF ClientStarts
<1>7. DownloadInv'
  BY DEF ClientStarts
<1> QED
  BY <1>1, <1>2, <1>3, <1>4, <1>5, <1>6, <1>7

(* Finishing or failing a stage takes no progress back.                    *)
LEMMA ClientFinishesInv ==
    ASSUME CoordInv, NEW i \in Clients, NEW k \in Prepare .. Cleanup,
           ClientFinishes(i, k)
    PROVE  CoordInv'
<1>0. failed' \in [Clients -> BOOLEAN]
  <2>1. CASE UNCHANGED failed
    BY <2>1
  <2>2. CASE failed' = [failed EXCEPT ![i] = TRUE]
    BY <2>2
  <2> QED
    BY <2>1, <2>2 DEF ClientFinishes
<1>1. CoordTypeOK'
  BY <1>0 DEF ClientFinishes
<1>2. PhaseInv'
  BY DEF ClientFinishes
<1>3. AskedInv'
  BY DEF ClientFinishes
<1>4. ReplyInv'
  BY DEF ClientFinishes
<1>5. LinkInv'
  BY DEF ClientFinishes
<1>6. ProgressInv'
  BY DEF ClientFinishes
<1>7. DownloadInv'
  BY DEF ClientFinishes
<1> QED
  BY <1>1, <1>2, <1>3, <1>4, <1>5, <1>6, <1>7

(* A restart loses the benchmark and the reply on its way.                 *)
LEMMA ClientRestartsInv ==
    ASSUME CoordInv, NEW i \in Clients, ClientRestarts(i)
    PROVE  CoordInv'
<1>1. CoordTypeOK'
  BY MaxFaultsAssumption DEF ClientRestarts, Fault
<1>2. PhaseInv'
  BY DEF ClientRestarts, Fault
<1>3. AskedInv'
  BY DEF ClientRestarts, Fault
<1>4. ReplyInv'
  BY DEF ClientRestarts, Fault
<1>5. LinkInv'
  BY DEF ClientRestarts, Fault
<1>6. ProgressInv'
  BY DEF ClientRestarts, Fault
<1>7. DownloadInv'
  BY DEF ClientRestarts, Fault
<1> QED
  BY <1>1, <1>2, <1>3, <1>4, <1>5, <1>6, <1>7

(* A new connection: only the connect loop dials hosts it never reached.   *)
LEMMA ConnectInv ==
    ASSUME CoordInv, NEW i \in Clients, Connect(i), pc \in Phases
    PROVE  CoordInv'
<1>1. CoordTypeOK'
  BY DEF Connect
<1>2. PhaseInv'
  BY DEF Connect
<1>3. AskedInv'
  BY DEF Connect
<1>4. ReplyInv'
  BY DEF Connect
<1>5. LinkInv'
  BY DEF Connect
<1>6. ProgressInv'
  BY DEF Connect
<1>7. DownloadInv'
  BY DEF Connect
<1> QED
  BY <1>1, <1>2, <1>3, <1>4, <1>5, <1>6, <1>7

(* A benchmark request restarts the progress, in the connect loop only.    *)
LEMMA ExecuteBenchmarkInv ==
    ASSUME CoordInv, NEW i \in Clients, Write(i), ExecuteBenchmark(i)
    PROVE  CoordInv'
<1>0. /\ pc = "connect"
      /\ UNCHANGED <<pc, stage, downloaded, ws, asked, cancelled, lost, faults>>
      /\ go[i] = "ask" /\ ws[i] = "up" /\ go' = [go EXCEPT ![i] = "sent"]
      /\ at' \in {at, [at EXCEPT ![i] = 0]}
      /\ has' \in [Clients -> BOOLEAN] /\ failed' \in [Clients -> BOOLEAN]
      /\ \E r \in {"ok", "err"} : reply' = [reply EXCEPT ![i] = r]
  <2>1. CASE reply' = [reply EXCEPT ![i] = "ok"] /\ has' = [has EXCEPT ![i] = TRUE]
             /\ at' = [at EXCEPT ![i] = 0] /\ failed' = [failed EXCEPT ![i] = FALSE]
             /\ UNCHANGED <<asked, cancelled>>
    BY <2>1 DEF Write, ExecuteBenchmark
  <2>2. CASE reply' = [reply EXCEPT ![i] = "err"] /\ UNCHANGED client
    BY <2>2 DEF Write, ExecuteBenchmark
  <2> QED
    BY <2>1, <2>2 DEF ExecuteBenchmark, Reply
<1>1. CoordTypeOK'
  BY <1>0
<1>2. PhaseInv'
  BY <1>0
<1>3. AskedInv'
  <2>1. ASSUME NEW j \in Clients
        PROVE  at'[j] \in {at[j], 0}
    <3>1. CASE at' = at
      BY <3>1
    <3>2. CASE at' = [at EXCEPT ![i] = 0]
      BY <3>2
    <3> QED
      BY <1>0, <3>1, <3>2
  <2>2. ASSUME NEW j \in Clients
        PROVE  at[j] <= 2 * asked[j] /\ asked[j] <= stage /\ asked[j] \in Nat
    OBVIOUS
  <2> QED
    BY <1>0, <2>1, <2>2
<1>4. ReplyInv'
  BY <1>0
<1>5. LinkInv'
  BY <1>0
<1>6. ProgressInv'
  BY <1>0
<1>7. DownloadInv'
  BY <1>0
<1> QED
  BY <1>1, <1>2, <1>3, <1>4, <1>5, <1>6, <1>7

(* A stage start asks for the stage the coordinator is in.                 *)
LEMMA ExecuteStartStageInv ==
    ASSUME CoordInv, NEW i \in Clients, Write(i), ExecuteStartStage(i)
    PROVE  CoordInv'
<1>0. /\ pc = "start"
      /\ UNCHANGED <<pc, stage, downloaded, ws, has, at, failed, cancelled, lost, faults>>
      /\ go[i] = "ask" /\ go' = [go EXCEPT ![i] = "sent"]
      /\ asked' \in {asked, [asked EXCEPT ![i] = stage]}
      /\ \E r \in {"ok", "err"} : reply' = [reply EXCEPT ![i] = r]
  BY DEF Write, ExecuteStartStage, Reply
<1>1. CoordTypeOK'
  BY <1>0
<1>2. PhaseInv'
  BY <1>0
<1>3. AskedInv'
  <2>1. ASSUME NEW j \in Clients
        PROVE  asked'[j] \in {asked[j], stage}
    <3>1. CASE asked' = asked
      BY <3>1
    <3>2. CASE asked' = [asked EXCEPT ![i] = stage]
      BY <3>2
    <3> QED
      BY <1>0, <3>1, <3>2
  <2>2. ASSUME NEW j \in Clients
        PROVE  /\ at[j] <= 2 * asked[j] /\ asked[j] <= stage
               /\ at[j] \in Nat /\ asked[j] \in Nat /\ stage \in Nat
    OBVIOUS
  <2> QED
    BY <1>0, <2>1, <2>2
<1>4. ReplyInv'
  BY <1>0
<1>5. LinkInv'
  BY <1>0
<1>6. ProgressInv'
  BY <1>0
<1>7. DownloadInv'
  BY <1>0
<1> QED
  BY <1>1, <1>2, <1>3, <1>4, <1>5, <1>6, <1>7

(* A status says what is the case.                                         *)
LEMMA ExecuteStageStatusInv ==
    ASSUME CoordInv, NEW i \in Clients, Write(i), ExecuteStageStatus(i)
    PROVE  CoordInv'
<1>0. /\ pc = "wait"
      /\ UNCHANGED <<pc, stage, downloaded, ws, client, lost, faults>>
      /\ go[i] = "ask" /\ go' = [go EXCEPT ![i] = "sent"]
      /\ \E r \in {"ok", "err", "finished"} :
            reply' = [reply EXCEPT ![i] = r] /\ (r = "finished" => at[i] >= Done(stage))
  BY DEF Write, ExecuteStageStatus, Reply
<1>1. CoordTypeOK'
  BY <1>0
<1>2. PhaseInv'
  BY <1>0
<1>3. AskedInv'
  BY <1>0
<1>4. ReplyInv'
  BY <1>0
<1>5. LinkInv'
  BY <1>0
<1>6. ProgressInv'
  BY <1>0
<1>7. DownloadInv'
  BY <1>0
<1> QED
  BY <1>1, <1>2, <1>3, <1>4, <1>5, <1>6, <1>7

(* Operations are sent by a client that has its benchmark.                 *)
LEMMA ExecuteSendOpsInv ==
    ASSUME CoordInv, NEW i \in Clients, Write(i), ExecuteSendOps(i)
    PROVE  CoordInv'
<1>1. CoordTypeOK'
  BY DEF Write, ExecuteSendOps, Reply
<1>2. PhaseInv'
  BY DEF Write, ExecuteSendOps, Reply
<1>3. AskedInv'
  BY DEF Write, ExecuteSendOps, Reply
<1>4. ReplyInv'
  BY DEF Write, ExecuteSendOps, Reply
<1>5. LinkInv'
  BY DEF Write, ExecuteSendOps, Reply
<1>6. ProgressInv'
  BY DEF Write, ExecuteSendOps, Reply
<1>7. DownloadInv'
  BY DEF Write, ExecuteSendOps, Reply
<1> QED
  BY <1>1, <1>2, <1>3, <1>4, <1>5, <1>6, <1>7

(* A lost reply: the request will be repeated.                             *)
LEMMA ReadErrorInv ==
    ASSUME CoordInv, NEW i \in Clients, ReadError(i)
    PROVE  CoordInv'
<1>1. CoordTypeOK'
  BY DEF ReadError
<1>2. PhaseInv'
  BY DEF ReadError
<1>3. AskedInv'
  BY DEF ReadError
<1>4. ReplyInv'
  BY DEF ReadError
<1>5. LinkInv'
  BY DEF ReadError
<1>6. ProgressInv'
  BY DEF ReadError
<1>7. DownloadInv'
  BY DEF ReadError
<1> QED
  BY <1>1, <1>2, <1>3, <1>4, <1>5, <1>6, <1>7

(* A connection that is down is still one the coordinator counts on.       *)
LEMMA BreakInv ==
    ASSUME CoordInv, NEW i \in Clients, Break(i)
    PROVE  CoordInv'
<1>1. CoordTypeOK'
  BY MaxFaultsAssumption DEF Break, Fault
<1>2. PhaseInv'
  BY DEF Break, Fault
<1>3. AskedInv'
  BY DEF Break, Fault
<1>4. ReplyInv'
  BY DEF Break, Fault
<1>5. LinkInv'
  BY DEF Break, Fault
<1>6. ProgressInv'
  BY DEF Break, Fault
<1>7. DownloadInv'
  BY DEF Break, Fault
<1> QED
  BY <1>1, <1>2, <1>3, <1>4, <1>5, <1>6, <1>7

(* A host that stays unreachable is dropped, or ends the coordinator.      *)
LEMMA ConnectFailsInv ==
    ASSUME CoordInv, NEW i \in Clients, ConnectFails(i), pc \in Phases
    PROVE  CoordInv'
<1>1. CoordTypeOK'
  BY MaxFaultsAssumption DEF ConnectFails, Fault, GoDone, IsFatal
<1>2. PhaseInv'
  BY DEF ConnectFails, Fault, GoDone, IsFatal
<1>3. AskedInv'
  BY DEF ConnectFails, Fault, GoDone, IsFatal
<1>4. ReplyInv'
  BY DEF ConnectFails, Fault, GoDone, IsFatal
<1>5. LinkInv'
  BY DEF ConnectFails, Fault, GoDone, IsFatal
<1>6. ProgressInv'
  BY DEF ConnectFails, Fault, GoDone, IsFatal
<1>7. DownloadInv'
  BY DEF ConnectFails, Fault, GoDone, IsFatal
<1> QED
  BY <1>1, <1>2, <1>3, <1>4, <1>5, <1>6, <1>7

(* An acknowledged request.                                                *)
LEMMA AcknowledgedInv ==
    ASSUME CoordInv, NEW i \in Clients, Acknowledged(i)
    PROVE  CoordInv'
<1>1. CoordTypeOK'
  BY DEF Acknowledged, Read, GoDone
<1>2. PhaseInv'
  BY DEF Acknowledged, Read, GoDone
<1>3. AskedInv'
  BY DEF Acknowledged, Read, GoDone
<1>4. ReplyInv'
  BY DEF Acknowledged, Read, GoDone
<1>5. LinkInv'
  BY DEF Acknowledged, Read, GoDone
<1>6. ProgressInv'
  BY DEF Acknowledged, Read, GoDone
<1>7. DownloadInv'
  BY DEF Acknowledged, Read, GoDone
<1> QED
  BY <1>1, <1>2, <1>3, <1>4, <1>5, <1>6, <1>7

(* The stage goes on.                                                      *)
LEMMA UnfinishedInv ==
    ASSUME CoordInv, NEW i \in Clients, Unfinished(i)
    PROVE  CoordInv'
<1>1. CoordTypeOK'
  BY DEF Unfinished, Read
<1>2. PhaseInv'
  BY DEF Unfinished, Read
<1>3. AskedInv'
  BY DEF Unfinished, Read
<1>4. ReplyInv'
  BY DEF Unfinished, Read
<1>5. LinkInv'
  BY DEF Unfinished, Read
<1>6. ProgressInv'
  BY DEF Unfinished, Read
<1>7. DownloadInv'
  BY DEF Unfinished, Read
<1> QED
  BY <1>1, <1>2, <1>3, <1>4, <1>5, <1>6, <1>7

(* The stage is finished: the goroutine ends knowing how far the client is. *)
LEMMA FinishedInv ==
    ASSUME CoordInv, NEW i \in Clients, Finished(i), pc \in Phases
    PROVE  CoordInv'
<1>1. CoordTypeOK'
  BY DEF Finished, Read, GoDone
<1>2. PhaseInv'
  BY DEF Finished, Read, GoDone
<1>3. AskedInv'
  BY DEF Finished, Read, GoDone
<1>4. ReplyInv'
  BY DEF Finished, Read, GoDone
<1>5. LinkInv'
  BY DEF Finished, Read, GoDone
<1>6. ProgressInv'
  BY DEF Finished, Read, GoDone
<1>7. DownloadInv'
  BY DEF Finished, Read, GoDone
<1> QED
  BY <1>1, <1>2, <1>3, <1>4, <1>5, <1>6, <1>7

(* Operations come from a client that has measured.                        *)
LEMMA DownloadsInv ==
    ASSUME CoordInv, NEW i \in Clients, Downloads(i), pc \in Phases
    PROVE  CoordInv'
<1>1. CoordTypeOK'
  BY DEF Downloads, Collect, Read, GoDone
<1>2. PhaseInv'
  BY DEF Downloads, Collect, Read, GoDone
<1>3. AskedInv'
  BY DEF Downloads, Collect, Read, GoDone
<1>4. ReplyInv'
  BY DEF Downloads, Collect, Read, GoDone
<1>5. LinkInv'
  BY DEF Downloads, Collect, Read, GoDone
<1>6. ProgressInv'
  BY DEF Downloads, Collect, Read, GoDone
<1>7. DownloadInv'
  BY DEF Downloads, Collect, Read, GoDone
<1> QED
  BY <1>1, <1>2, <1>3, <1>4, <1>5, <1>6, <1>7

(* A refused request: the client is dropped, or the coordinator exits.     *)
LEMMA RefusedInv ==
    ASSUME CoordInv, NEW i \in Clients, Refused(i), pc \in Phases
    PROVE  CoordInv'
<1>1. CoordTypeOK'
  BY DEF Refused, Read, GoDone, IsFatal
<1>2. PhaseInv'
  BY DEF Refused, Read, GoDone, IsFatal
<1>3. AskedInv'
  BY DEF Refused, Read, GoDone, IsFatal
<1>4. ReplyInv'
  BY DEF Refused, Read, GoDone, IsFatal
<1>5. LinkInv'
  BY DEF Refused, Read, GoDone, IsFatal
<1>6. ProgressInv'
  BY DEF Refused, Read, GoDone, IsFatal
<1>7. DownloadInv'
  BY DEF Refused, Read, GoDone, IsFatal
<1> QED
  BY <1>1, <1>2, <1>3, <1>4, <1>5, <1>6, <1>7

(* The connect loop takes the hosts in order.                              *)
LEMMA NextHostInv ==
    ASSUME CoordInv, NextHost
    PROVE  CoordInv'
<1>1. CoordTypeOK'
  BY DEF NextHost
<1>2. PhaseInv'
  BY DEF NextHost
<1>3. AskedInv'
  BY DEF NextHost
<1>4. ReplyInv'
  BY DEF NextHost
<1>5. LinkInv'
  BY DEF NextHost
<1>6. ProgressInv'
  BY DEF NextHost
<1>7. DownloadInv'
  BY DEF NextHost
<1> QED
  BY <1>1, <1>2, <1>3, <1>4, <1>5, <1>6, <1>7

(* After the connect loop no host is missing.                              *)
LEMMA AllConnectedInv ==
    ASSUME CoordInv, AllConnected
    PROVE  CoordInv'
<1>0. \A i \in Clients : go[i] = "done" /\ ws[i] # "nil"
  <2>1. N \in Clients /\ \A i \in Clients : i # N => i \in 1 .. N - 1
    BY NAssumption
  <2> QED
    BY <2>1 DEF AllConnected
<1>1. CoordTypeOK'
  BY DEF AllConnected, Spawn
<1>2. PhaseInv'
  BY DEF AllConnected, Spawn
<1>3. AskedInv'
  BY DEF AllConnected, Spawn
<1>4. ReplyInv'
  BY <1>0 DEF AllConnected, Spawn
<1>5. LinkInv'
  BY <1>0 DEF AllConnected, Spawn
<1>6. ProgressInv'
  BY DEF AllConnected, Spawn
<1>7. DownloadInv'
  BY DEF AllConnected, Spawn
<1> QED
  BY <1>1, <1>2, <1>3, <1>4, <1>5, <1>6, <1>7

(* All stage starts are answered: the wait begins.                         *)
LEMMA StageStartedInv ==
    ASSUME CoordInv, StageStarted
    PROVE  CoordInv'
<1>1. CoordTypeOK'
  BY DEF StageStarted, Spawn, Joined
<1>2. PhaseInv'
  BY DEF StageStarted, Spawn, Joined
<1>3. AskedInv'
  BY DEF StageStarted, Spawn, Joined
<1>4. ReplyInv'
  BY DEF StageStarted, Spawn, Joined
<1>5. LinkInv'
  BY DEF StageStarted, Spawn, Joined
<1>6. ProgressInv'
  BY DEF StageStarted, Spawn, Joined
<1>7. DownloadInv'
  BY DEF StageStarted, Spawn, Joined
<1> QED
  BY <1>1, <1>2, <1>3, <1>4, <1>5, <1>6, <1>7

(* All goroutines ended: the clients are past the stage.                   *)
LEMMA StageFinishedInv ==
    ASSUME CoordInv, StageFinished
    PROVE  CoordInv'
<1>1. CoordTypeOK'
  BY DEF StageFinished, Spawn, Joined
<1>2. PhaseInv'
  BY DEF StageFinished, Spawn, Joined
<1>3. AskedInv'
  BY DEF StageFinished, Spawn, Joined
<1>4. ReplyInv'
  BY DEF StageFinished, Spawn, Joined
<1>5. LinkInv'
  BY DEF StageFinished, Spawn, Joined
<1>6. ProgressInv'
  BY DEF StageFinished, Spawn, Joined
<1>7. DownloadInv'
  BY DEF StageFinished, Spawn, Joined
<1> QED
  BY <1>1, <1>2, <1>3, <1>4, <1>5, <1>6, <1>7

(* All downloads ended: the cleanup stage begins.                          *)
LEMMA OpsSavedInv ==
    ASSUME CoordInv, OpsSaved
    PROVE  CoordInv'
<1>1. CoordTypeOK'
  BY DEF OpsSaved, Spawn, Joined
<1>2. PhaseInv'
  BY DEF OpsSaved, Spawn, Joined
<1>3. AskedInv'
  BY DEF OpsSaved, Spawn, Joined
<1>4. ReplyInv'
  BY DEF OpsSaved, Spawn, Joined
<1>5. LinkInv'
  BY DEF OpsSaved, Spawn, Joined
<1>6. ProgressInv'
  BY DEF OpsSaved, Spawn, Joined
<1>7. DownloadInv'
  BY DEF OpsSaved, Spawn, Joined
<1> QED
  BY <1>1, <1>2, <1>3, <1>4, <1>5, <1>6, <1>7

(* The process exits.                                                      *)
LEMMA FatalErrorInv ==
    ASSUME CoordInv, FatalError
    PROVE  CoordInv'
<1>1. CoordTypeOK'
  BY DEF FatalError
<1>2. PhaseInv'
  BY DEF FatalError
<1>3. AskedInv'
  BY DEF FatalError
<1>4. ReplyInv'
  BY DEF FatalError
<1>5. LinkInv'
  BY DEF FatalError
<1>6. ProgressInv'
  BY DEF FatalError
<1>7. DownloadInv'
  BY DEF FatalError
<1> QED
  BY <1>1, <1>2, <1>3, <1>4, <1>5, <1>6, <1>7

(* closeAll drops every connection.                                        *)
LEMMA ReturnInv ==
    ASSUME CoordInv, Return
    PROVE  CoordInv'
<1>1. CoordTypeOK'
  BY DEF Return, Joined, Disconnected
<1>2. PhaseInv'
  BY DEF Return, Joined, Disconnected
<1>3. AskedInv'
  BY DEF Return, Joined, Disconnected
<1>4. ReplyInv'
  BY DEF Return, Joined, Disconnected
<1>5. LinkInv'
  BY DEF Return, Joined, Disconnected
<1>6. ProgressInv'
  BY DEF Return, Joined, Disconnected
<1>7. DownloadInv'
  BY DEF Return, Joined, Disconnected
<1> QED
  BY <1>1, <1>2, <1>3, <1>4, <1>5, <1>6, <1>7

(* Every step preserves the invariant.                                     *)
LEMMA StepCoordInv == CoordInv /\ [Next]_vars => CoordInv'
<1> SUFFICES ASSUME CoordInv, [Next]_vars
             PROVE  CoordInv'
  OBVIOUS
<1>1. CASE UNCHANGED vars
  BY <1>1 DEF vars
<1>2. CASE Main
  BY <1>2, NextHostInv, AllConnectedInv, StageStartedInv, StageFinishedInv,
     OpsSavedInv, FatalErrorInv, ReturnInv DEF Main
<1>3. ASSUME NEW i \in Clients, RoundTrip(i)
      PROVE  CoordInv'
  BY <1>3, ConnectInv, ExecuteBenchmarkInv, ExecuteStartStageInv,
     ExecuteStageStatusInv, ExecuteSendOpsInv, ReadErrorInv, AcknowledgedInv,
     UnfinishedInv, FinishedInv, DownloadsInv, RefusedInv
     DEF RoundTrip, Write, Execute
<1>4. ASSUME NEW i \in Clients, Client(i)
      PROVE  CoordInv'
  BY <1>4, ClientStartsInv, ClientFinishesInv DEF Client
<1>5. ASSUME NEW i \in Clients, pc \in Phases, ConnectFails(i) \/ Break(i)
      PROVE  CoordInv'
  BY <1>5, ConnectFailsInv, BreakInv
<1>6. ASSUME NEW i \in Clients, ClientRestarts(i)
      PROVE  CoordInv'
  BY <1>6, ClientRestartsInv
<1> QED
  BY <1>1, <1>2, <1>3, <1>4, <1>5, <1>6 DEF Next

(* The inductive invariant holds of every behaviour of the coordinator.    *)
THEOREM CoordinatorInvariant == Spec => []CoordInv
<1> QED
  BY InitCoordInv, StepCoordInv, PTL DEF Spec

(* Every variable keeps its type (CoordTypeOK), for any number of clients. *)
THEOREM CoordinatorTypes == Spec => []CoordTypeOK
<1>1. CoordInv => CoordTypeOK
  OBVIOUS
<1> QED
  BY <1>1, CoordinatorInvariant, PTL

(* The prepare barrier of runServerBenchmark: no client measures while     *)
(* another one prepares, for any number of clients and faults.             *)
THEOREM PrepareBeforeBenchmark == Spec => []StageBarrier
<1>1. CoordInv => StageBarrier
  BY DEF StageBarrier
<1> QED
  BY <1>1, CoordinatorInvariant, PTL

(* The cleanup barrier of runServerBenchmark: no client deletes objects    *)
(* while one that the coordinator still counts on measures.                *)
THEOREM BenchmarkBeforeCleanup == Spec => []CleanupBarrier
<1>1. CoordInv => CleanupBarrier
  BY DEF CleanupBarrier
<1> QED
  BY <1>1, CoordinatorInvariant, PTL

(* downloadOps misses no client that is still connected and has its        *)
(* benchmark, and takes operations of finished benchmarks only.            *)
THEOREM DownloadsComplete == Spec => []ResultsComplete
<1>1. CoordInv => ResultsComplete
  BY DEF ResultsComplete
<1> QED
  BY <1>1, CoordinatorInvariant, PTL
-----------------------------------------------------------------------------
(* A client without a connection is one that was cancelled or lost; a      *)
(* client that does not start a stage has no benchmark any more, so        *)
(* nothing is left running when its connection is dropped.                 *)
ReleaseInv ==
    /\ \A i \in Clients :
          /\ reply[i] = "err" /\ pc = "start" => ~has[i]
          /\ pc \in Phases \ {"connect"} /\ ws[i] = "nil" /\ Working(i)
               => cancelled[i] \/ lost[i]
    /\ Released

(* Steps that neither enter a phase nor drop a client.                     *)
LEMMA ReleaseKept ==
    ASSUME ReleaseInv,
           UNCHANGED <<ws, has, failed, cancelled, lost>>,
           pc' # "returned",
           pc' \in Phases \ {"connect"} => pc \in Phases \ {"connect"},
           \A i \in Clients : reply'[i] = "err" /\ pc' = "start" => ~has[i]
    PROVE  ReleaseInv'
BY DEF ReleaseInv, Released

(* A client keeps its connection while it works.                           *)
LEMMA ClientReleaseInv ==
    ASSUME CoordInv, ReleaseInv, NEW i \in Clients,
           Client(i) \/ ClientRestarts(i) \/ (pc \in Phases /\ Break(i))
    PROVE  ReleaseInv'
<1>1. /\ UNCHANGED <<pc, cancelled, lost>>
      /\ \A j \in Clients : /\ has'[j] => has[j]
                            /\ failed[j] => failed'[j]
                            /\ ws'[j] = "nil" => ws[j] = "nil"
                            /\ reply'[j] = "err" => reply[j] = "err"
  <2>1. ASSUME NEW k \in Prepare .. Cleanup, ClientStarts(i, k) \/ ClientFinishes(i, k)
        PROVE  /\ UNCHANGED <<pc, cancelled, lost, has, ws, reply>>
               /\ \A j \in Clients : failed[j] => failed'[j]
    <3>1. failed' \in {failed, [failed EXCEPT ![i] = TRUE]}
      BY <2>1 DEF ClientStarts, ClientFinishes
    <3>2. UNCHANGED <<pc, cancelled, lost, has, ws, reply>>
      BY <2>1 DEF ClientStarts, ClientFinishes
    <3>3. failed \in [Clients -> BOOLEAN]
      OBVIOUS
    <3>4. ASSUME NEW j \in Clients, failed[j], failed' = [failed EXCEPT ![i] = TRUE]
          PROVE  failed'[j]
      <4>1. failed'[i] = TRUE /\ (j # i => failed'[j] = failed[j])
        BY <3>3, <3>4
      <4> QED BY <3>4, <4>1
    <3>5. UNCHANGED failed => \A j \in Clients : failed[j] => failed'[j]
      OBVIOUS
    <3> QED BY <3>1, <3>2, <3>4, <3>5
  <2>2. CASE Client(i)
    BY <2>1, <2>2 DEF Client
  <2>3. CASE ClientRestarts(i)
    <3>1. \A j \in Clients : has'[j] => has[j]
      BY <2>3 DEF ClientRestarts
    <3> QED BY <2>3, <3>1 DEF ClientRestarts
  <2>4. CASE Break(i)
    BY <2>4 DEF Break
  <2> QED BY <2>2, <2>3, <2>4
<1>2. /\ cancelled' = cancelled /\ lost' = lost /\ pc' = pc
      /\ pc = "returned" => \A j \in Clients : Working(j) => cancelled[j] \/ lost[j] \/ at[j] = Done(Cleanup)
  BY <1>1 DEF ReleaseInv, Released
<1>3. \A j \in Clients : at[j] = Done(Cleanup) /\ Working(j)' => at'[j] = Done(Cleanup)
  <2>1. ASSUME NEW k \in Prepare .. Cleanup, ClientStarts(i, k) \/ ClientFinishes(i, k)
        PROVE  \A j \in Clients : at[j] = Done(Cleanup) => at'[j] = Done(Cleanup)
    <3>1. at[i] # Done(Cleanup)
      BY <2>1 DEF ClientStarts, ClientFinishes
    <3>2. \E n : at' = [at EXCEPT ![i] = n]
      BY <2>1 DEF ClientStarts, ClientFinishes
    <3> QED BY <3>1, <3>2
  <2>2. CASE Client(i)
    BY <2>1, <2>2 DEF Client
  <2>3. CASE ClientRestarts(i) \/ Break(i)
    BY <2>3 DEF ClientRestarts, Break
  <2> QED BY <2>2, <2>3
<1>4. Released'
  BY <1>1, <1>2, <1>3 DEF Released
<1> QED BY <1>1, <1>4 DEF ReleaseInv

(* A round trip gives up a connection only when it cannot be had again, or *)
(* when the client's benchmark is gone, or with a disconnect request.      *)
LEMMA RoundTripReleaseInv ==
    ASSUME CoordInv, ReleaseInv, NEW i \in Clients, pc \in Phases,
           RoundTrip(i) \/ ConnectFails(i)
    PROVE  ReleaseInv'
<1>0. pc' # "returned"
  BY DEF RoundTrip, ConnectFails, Connect, Write, ReadError, Acknowledged, Unfinished,
         Finished, Downloads, Refused, Fault
<1>1. CASE Connect(i)
  BY <1>0, <1>1 DEF Connect, ReleaseInv, Released
<1>2. CASE Write(i)
  <2>1. CASE pc = "connect"
    BY <1>0, <1>2, <2>1 DEF Write, ReleaseInv, Released
  <2>2. CASE pc # "connect"
    <3>1. /\ UNCHANGED <<pc, ws, has, failed, cancelled, lost>>
          /\ pc = "start" /\ reply'[i] = "err" => ~has[i]
          /\ \A j \in Clients : j # i => reply'[j] = reply[j]
      BY <1>2, <2>2 DEF Write, Execute, ExecuteBenchmark, ExecuteStartStage,
                        ExecuteStageStatus, ExecuteSendOps, Reply
    <3> QED BY <1>0, <3>1 DEF ReleaseInv, Released
  <2> QED BY <2>1, <2>2
<1>3. CASE ReadError(i) \/ Acknowledged(i) \/ Unfinished(i) \/ Finished(i) \/ Downloads(i)
  <2>1. /\ UNCHANGED <<pc, ws, has, failed, cancelled, lost>>
        /\ reply' = [reply EXCEPT ![i] = "none"]
    BY <1>3 DEF ReadError, Acknowledged, Unfinished, Finished, Downloads, Read
  <2>2. \A j \in Clients : reply'[j] = "err" => reply[j] = "err"
    BY <2>1
  <2> QED BY <1>0, <2>1, <2>2, ReleaseKept DEF ReleaseInv
<1>4. CASE Refused(i)
  BY <1>0, <1>4 DEF Refused, Read, GoDone, IsFatal, ReleaseInv, Released
<1>5. CASE ConnectFails(i)
  BY <1>0, <1>5 DEF ConnectFails, Fault, GoDone, IsFatal, ReleaseInv, Released
<1> QED BY <1>1, <1>2, <1>3, <1>4, <1>5 DEF RoundTrip

(* The main goroutine changes phase only when no reply is on its way, and  *)
(* closeAll cancels or loses every client that still has a connection.     *)
LEMMA MainReleaseInv ==
    ASSUME CoordInv, ReleaseInv, Main
    PROVE  ReleaseInv'
<1>1. CASE NextHost \/ FatalError
  BY <1>1 DEF NextHost, FatalError, ReleaseInv, Released
<1>2. CASE AllConnected
  <2>1. \A i \in Clients : go[i] = "done" /\ ws[i] # "nil" /\ reply[i] = "none"
    <3>1. N \in Clients /\ pc = "connect" /\ go[N] = "done"
      BY <1>2, NAssumption DEF AllConnected
    <3>2. \A i \in Clients : go[i] = "done"
      <4>1. \A i \in 1 .. N - 1 : go[i] = "done"
        BY <3>1
      <4> QED BY <3>1, <4>1, NAssumption
    <3> QED BY <3>1, <3>2
  <2> QED BY <1>2, <2>1 DEF AllConnected, Spawn, ReleaseInv, Released
<1>3. CASE StageStarted \/ StageFinished \/ OpsSaved
  <2>1. \A i \in Clients : reply[i] = "none"
    BY <1>3 DEF StageStarted, StageFinished, OpsSaved, Joined
  <2>2. /\ UNCHANGED <<ws, has, failed, cancelled, lost, reply>>
        /\ pc' # "returned" /\ pc \in Phases \ {"connect"}
    BY <1>3 DEF StageStarted, StageFinished, OpsSaved
  <2> QED BY <2>1, <2>2, ReleaseKept
<1>4. CASE Return
  BY <1>4 DEF Return, Disconnected, ReleaseInv, Released
<1> QED BY <1>1, <1>2, <1>3, <1>4 DEF Main

(* Clients are released in every step.                                     *)
LEMMA StepReleaseInv == CoordInv /\ ReleaseInv /\ [Next]_vars => ReleaseInv'
<1> SUFFICES ASSUME CoordInv, ReleaseInv, [Next]_vars
             PROVE  ReleaseInv'
  OBVIOUS
<1>1. CASE UNCHANGED vars
  BY <1>1 DEF vars, ReleaseInv, Released
<1>2. CASE Main
  BY <1>2, MainReleaseInv
<1>3. ASSUME NEW i \in Clients,
             \/ RoundTrip(i) \/ Client(i) \/ ClientRestarts(i)
             \/ pc \in Phases /\ (ConnectFails(i) \/ Break(i))
      PROVE  ReleaseInv'
  <2>1. CASE RoundTrip(i)
    BY <2>1, RoundTripReleaseInv DEF RoundTrip
  <2> QED BY <1>3, <2>1, RoundTripReleaseInv, ClientReleaseInv
<1> QED BY <1>1, <1>2, <1>3 DEF Next

(* When runServerBenchmark has returned, no client is left with a          *)
(* benchmark that still has work to do: closeAll reached it, or it had     *)
(* been given up or cancelled before, whatever connections were lost.      *)
THEOREM ClientsReleased == Spec => []Released
<1>1. Init => ReleaseInv
  BY DEF Init, ReleaseInv, Released
<1>2. ReleaseInv => Released
  BY DEF ReleaseInv
<1> QED
  BY <1>1, <1>2, StepReleaseInv, CoordinatorInvariant, PTL DEF Spec
-----------------------------------------------------------------------------
(* The coordinator implements the barrier of module Stages, for every      *)
(* number of clients and faults.  A step of the coordinator opens a stage, *)
(* lets a member join, start or finish, or only takes members out of the   *)
(* team: the last is what a lost connection, a restart, a refusal and the  *)
(* end of the coordinator have in common, and what stutters is the case    *)
(* that it takes nobody.                                                   *)

(* A step that starts, finishes and opens nothing and adds nobody to the   *)
(* team is a Leave of those who are gone.                                  *)
LEMMA LeaveStep ==
    ASSUME UNCHANGED <<stage, at>>, Team' \subseteq Team
    PROVE  Abstract!StagesNext
<1>1. Team \in SUBSET Clients
  BY DEF Team
<1>2. Abstract!Leave(Team \ Team')
  BY DEF Abstract!Leave
<1>3. Team \ Team' \in SUBSET Clients
  BY <1>1
<1> QED
  BY <1>2, <1>3 DEF Abstract!StagesNext

(* Clients only leave the team when nothing but has, failed and ws shrinks.*)
LEMMA TeamShrinks ==
    ASSUME CoordInv,
           \A i \in Clients : Working(i)' => Working(i),
           \A i \in Clients : ws'[i] # "nil" => ws[i] # "nil",
           pc' = "connect" => pc = "connect"
    PROVE  Team' \subseteq Team
BY DEF Team

(* A connection that comes back belongs to a member.                       *)
LEMMA ConnectStep ==
    ASSUME CoordInv, NEW i \in Clients, pc \in Phases, Connect(i)
    PROVE  Team' \subseteq Team
BY DEF Connect, Team

(* A benchmark request that is executed lets the client join.              *)
LEMMA ExecuteBenchmarkStep ==
    ASSUME CoordInv, NEW i \in Clients, Write(i), ExecuteBenchmark(i)
    PROVE  Abstract!StagesNext
<1>1. CASE has' = [has EXCEPT ![i] = TRUE]
  <2>1. CASE UNCHANGED <<asked, cancelled>> /\ at' = [at EXCEPT ![i] = 0]
             /\ failed' = [failed EXCEPT ![i] = FALSE]
    <3>1. Team' = Team \cup {i}
      BY <1>1, <2>1 DEF Write, ExecuteBenchmark, Team
    <3>2. Abstract!Join(i)
      BY <3>1, <2>1 DEF Write, ExecuteBenchmark, Abstract!Join
    <3> QED
      BY <3>2 DEF Abstract!StagesNext
  <2>2. CASE UNCHANGED client
    <3>1. Team' \subseteq Team
      BY <2>2 DEF Write, Team
    <3> QED
      BY <2>2, <3>1, LeaveStep DEF Write
  <2> QED
    BY <2>1, <2>2 DEF ExecuteBenchmark
<1>2. CASE UNCHANGED client
  <2>1. Team' \subseteq Team
    BY <1>2 DEF Write, Team
  <2> QED
    BY <1>2, <2>1, LeaveStep DEF Write
<1> QED
  BY <1>1, <1>2 DEF ExecuteBenchmark

(* The other requests change no progress and no membership.                *)
LEMMA WriteStep ==
    ASSUME CoordInv, NEW i \in Clients, Write(i)
    PROVE  Abstract!StagesNext
<1>1. CASE ExecuteBenchmark(i)
  BY <1>1, ExecuteBenchmarkStep
<1>2. CASE ExecuteStartStage(i) \/ ExecuteStageStatus(i) \/ ExecuteSendOps(i)
  <2>1. UNCHANGED <<pc, stage, at, has, failed, ws>>
    BY <1>2 DEF Write, ExecuteStartStage, ExecuteStageStatus, ExecuteSendOps
  <2>2. Team' \subseteq Team
    BY <2>1 DEF Team
  <2> QED
    BY <2>1, <2>2, LeaveStep
<1> QED
  BY <1>1, <1>2 DEF Write, Execute

(* A client starts a stage that the coordinator has opened.                *)
LEMMA ClientStartsStep ==
    ASSUME CoordInv, NEW i \in Clients, NEW k \in Prepare .. Cleanup,
           ClientStarts(i, k)
    PROVE  Abstract!StagesNext
<1>1. Team' = Team
  BY DEF ClientStarts, Team
<1>2. k <= stage
  BY DEF ClientStarts
<1>3. Abstract!Start(i, k)
  BY <1>1, <1>2 DEF ClientStarts, Abstract!Start
<1> QED
  BY <1>3 DEF Abstract!StagesNext

(* It finishes it, and leaves the team when its benchmark failed.          *)
LEMMA ClientFinishesStep ==
    ASSUME CoordInv, NEW i \in Clients, NEW k \in Prepare .. Cleanup,
           ClientFinishes(i, k)
    PROVE  Abstract!StagesNext
<1>1. Team' \in {Team, Team \ {i}}
  <2>1. CASE UNCHANGED failed
    BY <2>1 DEF ClientFinishes, Team
  <2>2. CASE failed' = [failed EXCEPT ![i] = TRUE]
    BY <2>2 DEF ClientFinishes, Team
  <2> QED
    BY <2>1, <2>2 DEF ClientFinishes
<1>2. Abstract!Finish(i, k)
  BY <1>1 DEF ClientFinishes, Abstract!Finish
<1> QED
  BY <1>2 DEF Abstract!StagesNext

(* The prepare stage is opened when every host was connected.              *)
LEMMA AllConnectedStep ==
    ASSUME CoordInv, AllConnected
    PROVE  Abstract!StagesNext
<1>1. \A i \in Clients : ws[i] # "nil"
  <2>1. N \in Clients /\ pc = "connect" /\ go[N] = "done"
    BY NAssumption DEF AllConnected
  <2>2. \A j \in 1 .. N - 1 : go[j] = "done"
    BY <2>1
  <2>3. ASSUME NEW i \in Clients
        PROVE  go[i] = "done"
    BY <2>1, <2>2, NAssumption
  <2> QED
    BY <2>1, <2>3
<1>2. Team' = Team
  BY <1>1 DEF AllConnected, Team
<1>3. \A i \in Team : at[i] = 0
  BY DEF AllConnected, Team
<1>4. Abstract!Open(1)
  BY <1>2, <1>3 DEF AllConnected, Abstract!Open
<1> QED
  BY <1>4 DEF Abstract!StagesNext

(* The benchmark stage is opened when every member is prepared; before the *)
(* download no stage is opened.                                            *)
LEMMA StageFinishedStep ==
    ASSUME CoordInv, StageFinished
    PROVE  Abstract!StagesNext
<1>1. Team' = Team
  BY DEF StageFinished, Team
<1>2. CASE stage = Prepare
  <2>1. \A i \in Team : at[i] = Done(Prepare)
    BY <1>2 DEF StageFinished, Joined, Team
  <2>2. Abstract!Open(2)
    BY <1>1, <1>2, <2>1 DEF StageFinished, Abstract!Open
  <2> QED
    BY <2>2 DEF Abstract!StagesNext
<1>3. CASE stage = Benchmark
  <2>1. UNCHANGED <<stage, at>>
    BY <1>3 DEF StageFinished
  <2> QED
    BY <1>1, <2>1, LeaveStep
<1> QED
  BY <1>2, <1>3 DEF StageFinished

(* The cleanup stage is opened when every member has measured.             *)
LEMMA OpsSavedStep ==
    ASSUME CoordInv, OpsSaved
    PROVE  Abstract!StagesNext
<1>1. Team' = Team
  BY DEF OpsSaved, Team
<1>2. \A i \in Team : at[i] = Done(Benchmark)
  BY DEF OpsSaved, Team
<1>3. Abstract!Open(3)
  BY <1>1, <1>2 DEF OpsSaved, Abstract!Open
<1> QED
  BY <1>3 DEF Abstract!StagesNext

(* What happens to a connection or a benchmark only shrinks the team.      *)
LEMMA ShrinkingStep ==
    ASSUME CoordInv, NEW i \in Clients,
           \/ /\ pc \in Phases
              /\ \/ ReadError(i) \/ Acknowledged(i) \/ Unfinished(i)
                 \/ Finished(i) \/ Downloads(i) \/ Refused(i)
                 \/ ConnectFails(i) \/ Break(i)
           \/ ClientRestarts(i)
    PROVE  Abstract!StagesNext
<1>1. UNCHANGED <<stage, at>>
  BY DEF ReadError, Acknowledged, Unfinished, Finished, Downloads, Refused,
         ConnectFails, Break, ClientRestarts
<1>2. Team' \subseteq Team
  <2>1. CASE ReadError(i) \/ Acknowledged(i) \/ Unfinished(i) \/ Finished(i)
             \/ Downloads(i)
    <3>1. UNCHANGED <<pc, has, failed, ws>>
      BY <2>1 DEF ReadError, Acknowledged, Unfinished, Finished, Downloads
    <3> QED
      BY <3>1, TeamShrinks
  <2>2. CASE Refused(i)
    <3>1. UNCHANGED <<has, failed>> /\ (pc' = "connect" => pc = "connect")
      BY <2>2 DEF Refused
    <3>2. \A j \in Clients : ws'[j] # "nil" => ws[j] # "nil"
      BY <2>2 DEF Refused
    <3> QED
      BY <3>1, <3>2, TeamShrinks
  <2>3. CASE pc \in Phases /\ ConnectFails(i)
    <3>1. UNCHANGED <<has, failed>> /\ (pc' = "connect" => pc = "connect")
      BY <2>3 DEF ConnectFails, IsFatal
    <3>2. \A j \in Clients : ws'[j] # "nil" => ws[j] # "nil"
      BY <2>3 DEF ConnectFails
    <3> QED
      BY <3>1, <3>2, TeamShrinks
  <2>4. CASE Break(i)
    <3>1. UNCHANGED <<pc, has, failed>>
      BY <2>4 DEF Break
    <3>2. \A j \in Clients : ws'[j] # "nil" => ws[j] # "nil"
      BY <2>4 DEF Break
    <3> QED
      BY <3>1, <3>2, TeamShrinks
  <2>5. CASE ClientRestarts(i)
    <3>1. \A j \in Clients : Working(j)' => Working(j)
      BY <2>5 DEF ClientRestarts
    <3>2. \A j \in Clients : ws'[j] # "nil" => ws[j] # "nil"
      BY <2>5 DEF ClientRestarts
    <3>3. pc' = pc
      BY <2>5 DEF ClientRestarts
    <3> QED
      BY <3>1, <3>2, <3>3, TeamShrinks
  <2> QED
    BY <2>1, <2>2, <2>3, <2>4, <2>5
<1> QED
  BY <1>1, <1>2, LeaveStep

(* So do the steps of the main goroutine that open nothing.                *)
LEMMA MainShrinkingStep ==
    ASSUME CoordInv, NextHost \/ StageStarted \/ FatalError \/ Return
    PROVE  Abstract!StagesNext
<1>1. UNCHANGED <<stage, at, has, failed>>
  BY DEF NextHost, StageStarted, FatalError, Return
<1>2. \A j \in Clients : ws'[j] # "nil" => ws[j] # "nil"
  BY DEF NextHost, StageStarted, FatalError, Return
<1>3. pc' = "connect" => pc = "connect"
  BY DEF NextHost, StageStarted, FatalError, Return
<1>4. Team' \subseteq Team
  BY <1>1, <1>2, <1>3, TeamShrinks
<1> QED
  BY <1>1, <1>4, LeaveStep

(* Every step of the coordinator is one of Stages, or changes none of its  *)
(* variables.                                                              *)
LEMMA StepRefines ==
    CoordInv /\ [Next]_vars => [Abstract!StagesNext]_(Abstract!stageVars)
<1> SUFFICES ASSUME CoordInv, [Next]_vars
             PROVE  Abstract!StagesNext \/ UNCHANGED Abstract!stageVars
  OBVIOUS
<1>1. CASE Main
  BY <1>1, MainShrinkingStep, AllConnectedStep, StageFinishedStep, OpsSavedStep
     DEF Main
<1>2. ASSUME NEW i \in Clients, RoundTrip(i)
      PROVE  Abstract!StagesNext
  <2>1. CASE Connect(i)
    <3>1. Team' \subseteq Team
      BY <1>2, <2>1, ConnectStep DEF RoundTrip
    <3> QED
      BY <2>1, <3>1, LeaveStep DEF Connect
  <2> QED
    BY <1>2, <2>1, WriteStep, ShrinkingStep DEF RoundTrip
<1>3. ASSUME NEW i \in Clients, Client(i)
      PROVE  Abstract!StagesNext
  BY <1>3, ClientStartsStep, ClientFinishesStep DEF Client
<1>4. ASSUME NEW i \in Clients,
             (pc \in Phases /\ (ConnectFails(i) \/ Break(i))) \/ ClientRestarts(i)
      PROVE  Abstract!StagesNext
  BY <1>4, ShrinkingStep
<1>5. CASE UNCHANGED vars
  BY <1>5 DEF vars, Team, Abstract!stageVars
<1> QED
  BY <1>1, <1>2, <1>3, <1>4, <1>5 DEF Next

(* Before the first connection the team is empty.                          *)
LEMMA InitRefines == Init => Abstract!StagesInit
BY DEF Init, Team, Abstract!StagesInit

(* The coordinator implements Stages: whatever connections are lost,       *)
(* requests repeated and clients restarted, the next stage starts only     *)
(* when everybody it counts on is through the one before                   *)
(* (startStageAll and waitForStage, cli/benchserver.go).                   *)
THEOREM CoordinatorRefinesStages == Spec => ImplementsStages
<1>1. CoordInv /\ [Next]_vars => [Abstract!StagesNext]_(Abstract!stageVars)
  BY StepRefines
<1> QED
  BY <1>1, InitRefines, CoordinatorInvariant, PTL
     DEF Spec, ImplementsStages, Abstract!StagesSpec
=============================================================================

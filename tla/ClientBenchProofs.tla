-------------------------- MODULE ClientBenchProofs --------------------------
(***************************************************************************)
(* Proofs about a benchmark client, for any number of coordinators,        *)
(* connections, lost connections and repeated requests, in any order the   *)
(* handlers are scheduled: the variables keep their types, a channel is    *)
(* closed twice only where handlers or benchmarks overlap, no stage runs   *)
(* before it was asked for, and what a coordinator downloads from the      *)
(* benchmark that told it that it had finished is not nothing.             *)
(***************************************************************************)
EXTENDS ClientBench, NaturalsInduction, WellFoundedInduction, TLAPS

-----------------------------------------------------------------------------
(* The inductive invariant.                                                *)

(* Connections and requests.  A coordinator uses a connection of its own;  *)
(* a handler has a request just while it works on it, and no reply then;   *)
(* what a handler on a coordinator's connection works on is what the       *)
(* coordinator waits for, and was written.                                 *)
Owned ==
    \A s \in Servers :
        sconn[s] # 0 => owner[sconn[s]] = s /\ hpc[sconn[s]] # "unused"
HandlerAtWork ==
    \A h \in Conns :
        /\ hpc[h] \in {"unused", "handshake", "closed"} => inbox[h] = 0
        /\ hpc[h] \in {"unused", "handshake"} \/ inbox[h] # 0 => reply[h] = NoReply
        /\ hpc[h] = "lookup" => inbox[h] \in {2, 3, 4, 5, 7, 8}
        /\ hpc[h] = "finish" => inbox[h] \in {1, 2, 4, 6, 7}
        /\ hpc[h] = "finish" /\ inbox[h] # 1 => hbench[h] # 0
InStep ==
    \A s \in Servers :
        sconn[s] # 0 /\ inbox[sconn[s]] # 0 => inbox[sconn[s]] = step[s]
Written ==
    /\ \A s \in Servers : asked[s] <= step[s]
    /\ \A h \in Conns : inbox[h] # 0 => AskedFor(inbox[h])
ConnInv == Owned /\ HandlerAtWork /\ InStep /\ Written

(* A benchmark that is active, that a handler or a goroutine works on, was *)
(* made; a connection whose request is still to be handled made none.      *)
Made(b) == rpc[b] # "none"
MadeBefore ==
    /\ active # 0 => Made(active)
    /\ \A h \in Conns : hbench[h] # 0 => Made(hbench[h])
    /\ \A b \in Benches : rbench[b] # 0 => Made(rbench[b])
    /\ \A b \in Benches : Made(b) => active # 0
Attached == \A b \in Benches : rbench[b] = 0 <=> rpc[b] \in {"none", "spawned"}
Idle(h) == reply[h] = NoReply /\ hpc[h] # "closed"
Fresh ==
    /\ \A h \in Conns : hpc[h] \in {"unused", "handshake"} \/ inbox[h] = 1 => ~Made(h)
    /\ \A s \in Servers :
           sconn[s] # 0 /\ step[s] = 1 /\ Idle(sconn[s]) => ~Made(sconn[s])
MadeInv == MadeBefore /\ Attached /\ Fresh

(* The start of a stage is requested before it is scheduled, and once if   *)
(* no two handlers overlap; a stage that is scheduled was asked for.       *)
StartOf == [prepare |-> 2, benchmark |-> 4, cleanup |-> 7]
Scheduled(b, st) == timers[b][st] > 0 \/ startCh[b][st] > 0
StartedOnce ==
    \A b \in Benches, st \in Stages :
        /\ ~requested[b][st] => ~Scheduled(b, st)
        /\ <<b, st>> \notin overlapped =>
               /\ timers[b][st] + startCh[b][st] <= 1
               /\ \A g, h \in Starting(b, st) : g = h
               /\ Starting(b, st) # {} => ~requested[b][st]
ScheduledAsked ==
    \A b \in Benches, st \in Stages : Scheduled(b, st) => AskedFor(StartOf[st])
StartInv == StartedOnce /\ ScheduledAsked /\ NotAhead

(* A goroutine that is alone on a benchmark goes through its stages once;  *)
(* a benchmark has results when its benchmark stage is done.               *)
Alone(b) == \A x \in Benches \ {b} : rbench[x] # b
DoneOnce(b) ==
    /\ \A st \in Stages : doneCh[b][st] <= 1
    /\ rpc[b] \in {"none", "spawned", "waitPrepare", "prepare"} => doneCh[b]["prepare"] = 0
    /\ rpc[b] \notin {"sort", "sorting", "waitCleanup", "cleanup", "finished"} =>
           doneCh[b]["benchmark"] = 0
    /\ rpc[b] # "finished" => doneCh[b]["cleanup"] = 0
Collected ==
    \A b \in Benches :
        /\ doneCh[b]["benchmark"] > 0 => results[b] # "nil"
        /\ rpc[b] = "report" => results[rbench[b]] # "nil"
RunnerInv == (\A b \in Benches : Alone(b) => DoneOnce(b)) /\ Collected

(* A benchmark that told a coordinator it has finished has results, and    *)
(* so has its answer to the coordinator that asks for the operations.      *)
OpsOf(b) == b # 0 /\ results[b] # "nil"
Tells(s, r) ==
    r # NoReply /\ ~r.err =>
        /\ step[s] = 5 /\ r.finished => OpsOf(r.bench)
        /\ step[s] = 6 /\ r.bench = told[s] => r.ops # "nil"
OpsInv ==
    \A s \in Servers :
        /\ told[s] # 0 => OpsOf(told[s])
        /\ sconn[s] # 0 => Tells(s, reply[sconn[s]])

ClientInv == ClientTypeOK /\ ConnInv /\ MadeInv /\ StartInv /\ RunnerInv /\ OpsInv
-----------------------------------------------------------------------------
(* The types, by what changes them together.                               *)
Reply == [err : BOOLEAN, finished : BOOLEAN, bench : 0 .. MaxConns,
          ops : {"nil", "full", "torn", "no reply"}]
HandlerPlaces == {"unused", "handshake", "read", "lookup", "finish", "closed"}
RunnerPlaces == {"none", "spawned", "waitPrepare", "prepare", "waitStart", "running", "report",
                 "sort", "sorting", "waitCleanup", "cleanup", "finished"}
ServerTypes ==
    /\ step \in [Servers -> 1 .. Ended] /\ sconn \in [Servers -> 0 .. MaxConns]
    /\ asked \in [Servers -> 0 .. Len(Script)] /\ told \in [Servers -> 0 .. MaxConns]
ConnTypes ==
    /\ owner \in [Conns -> Servers \cup {NoServer}]
    /\ inbox \in [Conns -> 0 .. Len(Script)]
    /\ reply \in [Conns -> Reply]
    /\ hpc \in [Conns -> HandlerPlaces]
    /\ hbench \in [Conns -> 0 .. MaxConns]
    /\ \A h \in Conns : hpc[h] = "lookup" => hbench[h] # 0
BenchTypes ==
    /\ active \in 0 .. MaxConns
    /\ requested \in [Benches -> [Stages -> BOOLEAN]]
    /\ startCh \in [Benches -> [Stages -> Nat]]
    /\ doneCh \in [Benches -> [Stages -> Nat]]
    /\ timers \in [Benches -> [Stages -> Nat]]
    /\ results \in [Benches -> {"nil", "full", "torn"}]
    /\ rpc \in [Benches -> RunnerPlaces]
    /\ rbench \in [Benches -> 0 .. MaxConns]
    /\ overlapped \in SUBSET (Benches \X Stages)
RestTypes ==
    /\ alive \in [Conns -> BOOLEAN]
    /\ connected \in [id : Servers \cup {NoServer}, on : BOOLEAN]
    /\ ctxDone \in [Benches -> BOOLEAN] /\ cberr \in [Benches -> BOOLEAN]
    /\ crashed \in BOOLEAN /\ faults \in Nat
CoreTypes == ServerTypes /\ ConnTypes /\ BenchTypes

(* The parts make up the whole, now and in the next state.                 *)
LEMMA TypesInParts == ClientTypeOK <=> CoreTypes /\ RestTypes
  BY DEF ClientTypeOK, CoreTypes, ServerTypes, ConnTypes, BenchTypes, RestTypes,
         HandlerPlaces, RunnerPlaces, Reply

(* (The prover does not prime an equivalence.)                             *)
LEMMA TypesInPartsNext == ClientTypeOK' <=> CoreTypes' /\ RestTypes'
  BY DEF ClientTypeOK, CoreTypes, ServerTypes, ConnTypes, BenchTypes, RestTypes,
         HandlerPlaces, RunnerPlaces, Reply

(* Numbers of connections and requests.                                    *)
LEMMA Bounds ==
    /\ MaxConns \in Nat \ {0} /\ Conns = 1 .. MaxConns /\ Benches = Conns
    /\ Len(Script) = 9 /\ Ended = 10 /\ Disconnect = 9 /\ StatusOfBenchmark = 5
  BY MaxConnsAssumption DEF Conns, Benches, Script, Ended, Disconnect, StatusOfBenchmark

-----------------------------------------------------------------------------
(* Requests, replies and connections.                                      *)
LEMMA ScriptOps ==
    /\ Len(Script) = 9 /\ Ended = 10 /\ Disconnect = 9
    /\ Script[1] = Req("benchmark", "prepare")
    /\ Script[2] = Req("start_stage", "prepare") /\ Script[3] = Req("stage_status", "prepare")
    /\ Script[4] = Req("start_stage", "benchmark") /\ Script[5] = Req("stage_status", "benchmark")
    /\ Script[6] = Req("send_ops", "benchmark")
    /\ Script[7] = Req("start_stage", "cleanup") /\ Script[8] = Req("stage_status", "cleanup")
    /\ Script[9] = Req("disconnect", "cleanup")
  BY DEF Script, Ended, Disconnect

(* Which requests an operation of the script may be.                       *)
LEMMA OpPlaces ==
    ASSUME NEW i \in 1 .. Len(Script)
    PROVE  /\ Script[i].op = "benchmark" <=> i = 1
           /\ Script[i].op = "start_stage" <=> i \in {2, 4, 7}
           /\ Script[i].op = "stage_status" <=> i \in {3, 5, 8}
           /\ Script[i].op = "send_ops" <=> i = 6
           /\ Script[i].op = "disconnect" <=> i = 9
           /\ Script[i].stage \in Stages
           /\ i \in {5, 6} => Script[i].stage = "benchmark"
           /\ i \in {2, 4, 7} => StartOf[Script[i].stage] = i
<1>1. i \in {1, 2, 3, 4, 5, 6, 7, 8, 9}
  BY ScriptOps
<1> QED
  BY <1>1, ScriptOps DEF Req, Stages, StartOf

(* The replies handlers give.                                              *)
LEMMA Replies ==
    ASSUME NEW b \in 0 .. MaxConns
    PROVE  /\ ReplyOk(b) \in Reply /\ ReplyErr \in Reply /\ NoReply \in Reply
           /\ ~ReplyOk(b).err /\ ~ReplyOk(b).finished /\ ReplyErr.err
           /\ ReplyOk(b) # NoReply /\ ReplyErr # NoReply
<1>1. 0 \in 0 .. MaxConns
  BY Bounds
<1>2. NoReply.ops = "no reply" /\ ReplyOk(b).ops = "nil" /\ ReplyErr.ops = "nil"
  BY DEF ReplyOk, ReplyErr, NoReply
<1>3. ReplyOk(b) \in Reply /\ ReplyErr \in Reply /\ NoReply \in Reply
  BY <1>1 DEF ReplyOk, ReplyErr, NoReply, Reply
<1>4. ~ReplyOk(b).err /\ ~ReplyOk(b).finished /\ ReplyErr.err
  BY DEF ReplyOk, ReplyErr
<1> QED
  BY <1>2, <1>3, <1>4

(* The reply that says whether a stage has finished ...                    *)
LEMMA StatusReply ==
    ASSUME NEW b \in 0 .. MaxConns, NEW f \in BOOLEAN
    PROVE  LET r == [ReplyOk(b) EXCEPT !.finished = f]
           IN  r \in Reply /\ r # NoReply /\ r.finished = f /\ r.bench = b
<1> DEFINE r == [ReplyOk(b) EXCEPT !.finished = f]
<1>1. r.ops = "nil" /\ NoReply.ops = "no reply"
  BY DEF ReplyOk, NoReply
<1>2. r.finished = f /\ r.bench = b
  BY DEF ReplyOk
<1>3. r \in Reply
  BY DEF ReplyOk, Reply
<1> QED
  BY <1>1, <1>2, <1>3

(* ... and the one that carries operations.                                *)
LEMMA OpsReply ==
    ASSUME NEW b \in 0 .. MaxConns, NEW o \in {"nil", "full", "torn"}
    PROVE  LET r == [ReplyOk(b) EXCEPT !.ops = o]
           IN  r \in Reply /\ r # NoReply /\ r.ops = o /\ r.bench = b
<1> DEFINE r == [ReplyOk(b) EXCEPT !.ops = o]
<1>1. r.ops = o /\ NoReply.ops = "no reply"
  BY DEF ReplyOk, NoReply
<1>2. r.bench = b
  BY DEF ReplyOk
<1>3. r \in Reply
  BY DEF ReplyOk, Reply
<1> QED
  BY <1>1, <1>2, <1>3

(* A coordinator goes on to the download only when it was told that the    *)
(* benchmark has finished, and it never goes back.                         *)
LEMMA NextStepPlace ==
    ASSUME NEW s \in Servers, step[s] \in 1 .. Len(Script), NEW r \in Reply
    PROVE  /\ NextStep(s, r) \in 2 .. Ended /\ NextStep(s, r) >= step[s]
           /\ NextStep(s, r) = 6 => step[s] = 5 /\ ~r.err /\ r.finished
<1>1. r.err \in BOOLEAN /\ r.finished \in BOOLEAN
  BY DEF Reply
<1>2. step[s] \in {1, 2, 3, 4, 5, 6, 7, 8, 9}
  BY ScriptOps
<1>3. CASE step[s] = 1
  BY <1>1, <1>3, ScriptOps DEF NextStep, Req
<1>4. CASE step[s] \in {2, 4, 7}
  BY <1>1, <1>4, ScriptOps DEF NextStep, Req
<1>5. CASE step[s] \in {3, 5, 8}
  BY <1>1, <1>5, ScriptOps DEF NextStep, Req
<1>6. CASE step[s] \in {6, 9}
  BY <1>1, <1>6, ScriptOps DEF NextStep, Req
<1> QED
  BY <1>2, <1>3, <1>4, <1>5, <1>6

(* A set of numbers that is not empty has a least element.                 *)
LEMMA LeastNumber ==
    ASSUME NEW S \in SUBSET Nat, S # {}
    PROVE  \E x \in S : \A y \in S : x <= y
<1>1. PICK x \in S : \A y \in S : ~ (<<y, x>> \in OpToRel(<, Nat))
  BY NatLessThanWellFounded, WFMin
<1>2. \A y \in S : ~ (y < x)
  BY <1>1 DEF OpToRel
<1> QED
  BY <1>2

(* The next connection is the first unused one.                            *)
LEMMA FirstUnused ==
    ASSUME Unused # {}
    PROVE  LET h == CHOOSE c \in Unused : \A d \in Unused : c <= d
           IN  h \in Unused /\ \A d \in Unused : h <= d
<1>1. Unused \in SUBSET Nat
  BY DEF Unused, Conns
<1>2. PICK h \in Unused : \A d \in Unused : h <= d
  BY <1>1, LeastNumber
<1> QED
  BY <1>2

-----------------------------------------------------------------------------
(* The steps, by what they do to what the invariant is about.              *)
connCore == <<step, sconn, owner, inbox, reply, hpc, hbench, asked, told>>
benchCore == <<active, requested, startCh, doneCh, timers, results, rpc, rbench, overlapped>>

(* A coordinator opens a connection, gives one up, asks, reads a reply.    *)
Opens(s) ==
    \E h \in Conns :
        /\ sconn[s] = 0 /\ hpc[h] = "unused"
        /\ sconn' = [sconn EXCEPT ![s] = h]
        /\ owner' = [owner EXCEPT ![h] = s]
        /\ hpc' = [hpc EXCEPT ![h] = "handshake"]
        /\ UNCHANGED <<step, inbox, reply, hbench, asked, told, benchCore>>
Loses(s) ==
    /\ step' \in {step, [step EXCEPT ![s] = Ended]}
    /\ sconn' = [sconn EXCEPT ![s] = 0]
    /\ UNCHANGED <<owner, inbox, reply, hpc, hbench, asked, told, benchCore>>
Asks(s) ==
    /\ step[s] < Ended /\ sconn[s] # 0
    /\ hpc[sconn[s]] = "read" /\ inbox[sconn[s]] = 0 /\ reply[sconn[s]] = NoReply
    /\ inbox' = [inbox EXCEPT ![sconn[s]] = step[s]]
    /\ asked' = [asked EXCEPT ![s] = step[s]]
    /\ \/ UNCHANGED <<step, sconn>>
       \/ step' = [step EXCEPT ![s] = Ended] /\ sconn' = [sconn EXCEPT ![s] = 0]
    /\ UNCHANGED <<owner, reply, hpc, hbench, told, benchCore>>
Reads(s) ==
    /\ step[s] < Ended /\ sconn[s] # 0
    /\ hpc[sconn[s]] = "read" /\ reply[sconn[s]] # NoReply
    /\ reply' = [reply EXCEPT ![sconn[s]] = NoReply]
    /\ step' = [step EXCEPT ![s] = NextStep(s, reply[sconn[s]])]
    /\ sconn' \in {sconn, [sconn EXCEPT ![s] = 0]}
    /\ \/ UNCHANGED told
       \/ /\ step[s] = 5 /\ ~reply[sconn[s]].err /\ reply[sconn[s]].finished
          /\ told' = [told EXCEPT ![s] = reply[sconn[s]].bench]
    /\ UNCHANGED <<owner, inbox, hpc, hbench, asked, benchCore>>

(* A handler is let in, returns, goes on with a request, or answers it,    *)
(* having made a benchmark or scheduled a stage.                           *)
Enters(h) ==
    /\ hpc[h] = "handshake"
    /\ hpc' = [hpc EXCEPT ![h] = "read"]
    /\ UNCHANGED <<step, sconn, owner, inbox, reply, hbench, asked, told, benchCore>>
Leaves(h) ==
    /\ hpc[h] \in {"handshake", "read"}
    /\ hpc' = [hpc EXCEPT ![h] = "closed"]
    /\ inbox' = [inbox EXCEPT ![h] = 0]
    /\ reply' \in {reply, [reply EXCEPT ![h] = NoReply]}
    /\ UNCHANGED <<step, sconn, owner, hbench, asked, told, benchCore>>
Takes(h) ==
    /\ hpc[h] = "read" /\ inbox[h] # 0
    /\ \/ /\ inbox[h] = 1
          /\ hpc' = [hpc EXCEPT ![h] = "finish"] /\ hbench' = [hbench EXCEPT ![h] = 0]
       \/ /\ inbox[h] \in {2, 3, 4, 5, 7, 8} /\ active # 0
          /\ hpc' = [hpc EXCEPT ![h] = "lookup"] /\ hbench' = [hbench EXCEPT ![h] = active]
       \/ /\ inbox[h] = 6 /\ active # 0
          /\ hpc' = [hpc EXCEPT ![h] = "finish"] /\ hbench' = [hbench EXCEPT ![h] = active]
    /\ UNCHANGED <<step, sconn, owner, inbox, reply, asked, told, benchCore>>
Looks(h) ==
    LET b  == hbench[h]
        st == Script[inbox[h]].stage
    IN
    /\ hpc[h] = "lookup" /\ inbox[h] \in {2, 4, 7}
    /\ ~requested[b][st]
    /\ hpc' = [hpc EXCEPT ![h] = "finish"]
    /\ overlapped' = IF Starting(b, st) = {} THEN overlapped ELSE overlapped \cup {<<b, st>>}
    /\ UNCHANGED <<step, sconn, owner, inbox, reply, hbench, asked, told>>
    /\ UNCHANGED <<active, requested, startCh, doneCh, timers, results, rpc, rbench>>
Answers(h, r) ==
    /\ hpc[h] \in {"read", "lookup", "finish"} /\ inbox[h] # 0
    /\ inbox' = [inbox EXCEPT ![h] = 0]
    /\ hbench' = [hbench EXCEPT ![h] = 0]
    /\ \/ reply' = [reply EXCEPT ![h] = r] /\ hpc' = [hpc EXCEPT ![h] = "read"]
       \/ reply' = [reply EXCEPT ![h] = NoReply] /\ hpc' = [hpc EXCEPT ![h] = "closed"]
    /\ UNCHANGED <<step, sconn, owner, asked, told>>
Responds(h) ==
    \E r \in Reply :
        /\ r # NoReply
        /\ Answers(h, r)
        /\ ~r.err /\ inbox[h] = 5 /\ r.finished => OpsOf(r.bench)
        /\ ~r.err /\ inbox[h] = 6 => r.bench # 0 /\ r.ops = results[r.bench]
        /\ UNCHANGED benchCore
Makes(h) ==
    /\ hpc[h] = "finish" /\ inbox[h] = 1
    /\ Answers(h, ReplyOk(h))
    /\ active' = h
    /\ rpc' = [rpc EXCEPT ![h] = "spawned"]
    /\ UNCHANGED <<requested, startCh, doneCh, timers, results, rbench, overlapped>>
Schedules(h) ==
    LET b  == hbench[h]
        st == Script[inbox[h]].stage
    IN
    /\ hpc[h] = "finish" /\ inbox[h] \in {2, 4, 7}
    /\ Answers(h, ReplyOk(b))
    /\ requested' = [requested EXCEPT ![b][st] = TRUE]
    /\ timers' = [timers EXCEPT ![b][st] = @ + 1]
    /\ UNCHANGED <<active, startCh, doneCh, results, rpc, rbench, overlapped>>

(* A timer fires; the goroutine of a benchmark attaches to one, starts or  *)
(* aborts a stage, has operations, or reports the end of a stage.          *)
Fires(b) ==
    \E st \in Stages :
        /\ timers[b][st] > 0
        /\ timers' = [timers EXCEPT ![b][st] = @ - 1]
        /\ startCh' = [startCh EXCEPT ![b][st] = @ + 1]
        /\ UNCHANGED <<connCore, active, requested, doneCh, results, rpc, rbench, overlapped>>
Attaches(b) ==
    /\ rpc[b] = "spawned"
    /\ rpc' = [rpc EXCEPT ![b] = "waitPrepare"]
    /\ rbench' = [rbench EXCEPT ![b] = active]
    /\ UNCHANGED <<connCore, active, requested, startCh, doneCh, timers, results, overlapped>>
Moves(b) ==
    /\ \/ /\ rpc[b] = "waitPrepare" /\ startCh[rbench[b]]["prepare"] > 0
          /\ rpc' = [rpc EXCEPT ![b] = "prepare"]
       \/ /\ rpc[b] = "waitStart" /\ startCh[rbench[b]]["benchmark"] > 0
          /\ rpc' = [rpc EXCEPT ![b] = "running"]
       \/ /\ rpc[b] = "waitCleanup" /\ startCh[rbench[b]]["cleanup"] > 0
          /\ rpc' = [rpc EXCEPT ![b] = "cleanup"]
       \/ rpc[b] \in {"waitPrepare", "waitCleanup"} /\ rpc' = [rpc EXCEPT ![b] = "finished"]
    /\ UNCHANGED <<connCore, active, requested, startCh, doneCh, timers, results, rbench,
                   overlapped>>
Collects(b) ==
    /\ \/ rpc[b] = "running" /\ rpc' = [rpc EXCEPT ![b] = "report"]
       \/ rpc[b] = "sort" /\ rpc' = [rpc EXCEPT ![b] = "sorting"]
       \/ rpc[b] = "sorting" /\ rpc' = [rpc EXCEPT ![b] = "waitCleanup"]
    /\ \E v \in {"full", "torn"} : results' = [results EXCEPT ![rbench[b]] = v]
    /\ UNCHANGED <<connCore, active, requested, startCh, doneCh, timers, rbench, overlapped>>
Reports(b) ==
    \E st \in Stages :
        /\ \/ /\ st = "prepare" /\ rpc[b] = "prepare"
              /\ \E to \in {"waitStart", "finished"} : rpc' = [rpc EXCEPT ![b] = to]
           \/ st = "benchmark" /\ rpc[b] = "report" /\ rpc' = [rpc EXCEPT ![b] = "sort"]
           \/ st = "cleanup" /\ rpc[b] = "cleanup" /\ rpc' = [rpc EXCEPT ![b] = "finished"]
        /\ doneCh' = [doneCh EXCEPT ![rbench[b]][st] = @ + 1]
        /\ UNCHANGED <<connCore, active, requested, startCh, timers, results, rbench,
                       overlapped>>
StepForm ==
    \/ UNCHANGED <<connCore, benchCore>>
    \/ \E s \in Servers : Opens(s) \/ Loses(s) \/ Asks(s) \/ Reads(s)
    \/ \E h \in Conns :
           \/ Enters(h) \/ Leaves(h) \/ Takes(h) \/ Looks(h)
           \/ Responds(h) \/ Makes(h) \/ Schedules(h)
    \/ \E b \in Benches : Fires(b) \/ Attaches(b) \/ Moves(b) \/ Collects(b) \/ Reports(b)

-----------------------------------------------------------------------------
(* Every step is of one of these forms: first what coordinators do.        *)
LEMMA ServerForm ==
    ASSUME CoreTypes, NEW s \in Servers, Server(s) \/ ServerExits(s)
    PROVE  Opens(s) \/ Loses(s) \/ Asks(s) \/ Reads(s)
<1> USE DEF servers, conns, benches, runners, history, connCore, benchCore
<1>1. CASE Dial(s)
  <2> DEFINE h == CHOOSE c \in Unused : \A d \in Unused : c <= d
  <2>1. h \in Unused
    BY <1>1, FirstUnused DEF Dial
  <2>2. h \in Conns /\ hpc[h] = "unused"
    BY <2>1 DEF Unused
  <2>3. /\ sconn[s] = 0 /\ sconn' = [sconn EXCEPT ![s] = h]
        /\ owner' = [owner EXCEPT ![h] = s]
        /\ hpc' = [hpc EXCEPT ![h] = "handshake"]
        /\ UNCHANGED <<step, inbox, reply, hbench, asked, told, benchCore>>
    BY <1>1 DEF Dial
  <2> HIDE DEF h
  <2> QED
    BY <2>2, <2>3 DEF Opens
<1>2. CASE GiveUp(s) \/ ConnectionError(s) \/ ServerExits(s)
  <2>1. step' \in {step, [step EXCEPT ![s] = Ended]}
    BY <1>2 DEF GiveUp, ConnectionError, ServerExits, CoreTypes, ServerTypes
  <2>2. sconn' = [sconn EXCEPT ![s] = 0]
    BY <1>2 DEF GiveUp, ConnectionError, ServerExits, CoreTypes, ServerTypes
  <2> QED
    BY <1>2, <2>1, <2>2 DEF GiveUp, ConnectionError, ServerExits, Loses
<1>3. CASE WriteRequest(s)
  BY <1>3 DEF WriteRequest, Asks
<1>4. CASE ReadReply(s)
  BY <1>4, Bounds DEF ReadReply, Reads
<1> QED
  BY <1>1, <1>2, <1>3, <1>4 DEF Server

(* What handlers do: an answer is a reply, or the handler returns.         *)
LEMMA AnswerForm ==
    ASSUME CoreTypes, NEW h \in Conns, hpc[h] \in {"read", "lookup", "finish"}, inbox[h] # 0,
           NEW r, Answer(h, r), UNCHANGED <<servers, owner, asked, told>>
    PROVE  Answers(h, r)
  BY DEF Answer, Answers, Return, servers

(* A handler is let in or returns.                                         *)
LEMMA EntryForm ==
    ASSUME CoreTypes, ConnInv, NEW h \in Conns,
           Handshake(h) \/ ReadError(h) \/ ExecDisconnect(h)
    PROVE  Enters(h) \/ Leaves(h)
<1> USE DEF servers, conns, benches, runners, history, connCore, benchCore
<1>1. CASE Handshake(h) /\ Accepts(owner[h])
  BY <1>1 DEF Handshake, Enters
<1>2. CASE Handshake(h) /\ ~Accepts(owner[h])
  <2>1. inbox[h] = 0 /\ inbox = [inbox EXCEPT ![h] = 0]
    BY <1>2 DEF Handshake, ConnInv, HandlerAtWork, CoreTypes, ConnTypes
  <2> QED
    BY <1>2, <2>1 DEF Handshake, Leaves
<1>3. CASE ReadError(h)
  BY <1>3 DEF ReadError, Return, Leaves
<1>4. CASE ExecDisconnect(h)
  BY <1>4 DEF ExecDisconnect, Executes, Leaves
<1> QED
  BY <1>1, <1>2, <1>3, <1>4

(* The first step of a request ...                                         *)
LEMMA ExecForm ==
    ASSUME CoreTypes, NEW h \in Conns,
           ExecBenchmark(h) \/ ExecStartStage(h) \/ ExecStageStatus(h) \/ ExecSendOps(h)
    PROVE  Takes(h) \/ Responds(h)
<1> USE DEF servers, conns, benches, runners, history, connCore, benchCore
<1>1. hpc[h] = "read" /\ inbox[h] # 0 /\ inbox[h] \in 1 .. Len(Script)
  BY DEF ExecBenchmark, ExecStartStage, ExecStageStatus, ExecSendOps, Executes, CoreTypes, ConnTypes
<1>2. UNCHANGED <<step, sconn, owner, asked, told, benchCore>>
  BY DEF ExecBenchmark, ExecStartStage, ExecStageStatus, ExecSendOps
<1>4. ASSUME Answer(h, ReplyErr)
      PROVE  Responds(h)
  <2>1. ReplyErr \in Reply /\ ReplyErr # NoReply /\ ReplyErr.err
    BY Replies, Bounds
  <2>2. Answers(h, ReplyErr)
    BY <1>1, <1>2, <1>4, AnswerForm
  <2> QED
    BY <1>2, <2>1, <2>2 DEF Responds
<1>5. CASE ExecBenchmark(h)
  <2>1. Script[inbox[h]].op = "benchmark" /\ GoesOn(h, "finish", 0)
    BY <1>5 DEF ExecBenchmark, Executes
  <2>2. inbox[h] = 1
    BY <1>1, <2>1, OpPlaces
  <2> QED
    BY <1>1, <1>2, <2>1, <2>2 DEF GoesOn, Takes
<1>6. ASSUME inbox[h] \in {2, 3, 4, 5, 7, 8}, WithActive(h, "lookup")
      PROVE  Takes(h) \/ Responds(h)
  <2>1. CASE active # 0 /\ GoesOn(h, "lookup", active)
    BY <1>1, <1>2, <1>6, <2>1 DEF GoesOn, Takes
  <2> QED
    BY <1>4, <1>6, <2>1 DEF WithActive
<1>7. CASE ExecStartStage(h)
  <2>1. inbox[h] \in {2, 4, 7}
    BY <1>1, <1>7, OpPlaces DEF ExecStartStage, Executes
  <2> QED
    BY <1>6, <1>7, <2>1 DEF ExecStartStage
<1>8. CASE ExecStageStatus(h)
  <2>1. inbox[h] \in {3, 5, 8}
    BY <1>1, <1>8, OpPlaces DEF ExecStageStatus, Executes
  <2> QED
    BY <1>4, <1>6, <1>8, <2>1 DEF ExecStageStatus
<1>9. CASE ExecSendOps(h)
  <2>1. inbox[h] = 6
    BY <1>1, <1>9, OpPlaces DEF ExecSendOps, Executes
  <2>2. CASE active # 0 /\ GoesOn(h, "finish", active)
    BY <1>1, <1>2, <2>1, <2>2 DEF GoesOn, Takes
  <2> QED
    BY <1>4, <1>9, <2>2 DEF ExecSendOps, WithActive
<1> QED
  BY <1>5, <1>7, <1>8, <1>9

(* ... and the later ones: making a benchmark ...                          *)
LEMMA FinishForm ==
    ASSUME CoreTypes, ConnInv, NEW h \in Conns, FinishBenchmark(h) \/ FinishStartStage(h)
    PROVE  Makes(h) \/ Schedules(h) \/ Responds(h)
<1> USE DEF servers, conns, benches, runners, history, connCore, benchCore
<1>1. hpc[h] = "finish"
  BY DEF FinishBenchmark, FinishStartStage, Continues
<1>2. inbox[h] # 0 /\ inbox[h] \in 1 .. Len(Script)
  BY <1>1, Bounds DEF ConnInv, HandlerAtWork, CoreTypes, ConnTypes
<1>3. CASE FinishBenchmark(h)
  <2>1. inbox[h] = 1 /\ UNCHANGED <<servers, owner, asked, told>>
    BY <1>2, <1>3, OpPlaces DEF FinishBenchmark, Continues
  <2>2. CASE active' = h /\ rpc' = [rpc EXCEPT ![h] = "spawned"] /\ Answer(h, ReplyOk(h))
    BY <1>1, <1>2, <1>3, <2>1, <2>2, AnswerForm DEF FinishBenchmark, Makes
  <2>3. CASE Answer(h, ReplyErr) /\ UNCHANGED <<active, rpc>>
    <3>1. ReplyErr \in Reply /\ ReplyErr # NoReply /\ ReplyErr.err
      BY Replies, Bounds
    <3>2. Answers(h, ReplyErr)
      BY <1>1, <1>2, <2>1, <2>3, AnswerForm
    <3> QED
      BY <1>3, <2>3, <3>1, <3>2 DEF FinishBenchmark, Responds
  <2> QED
    BY <1>3, <2>2, <2>3 DEF FinishBenchmark
<1>4. CASE FinishStartStage(h)
  <2>1. inbox[h] \in {2, 4, 7}
    BY <1>2, <1>4, OpPlaces DEF FinishStartStage, Continues
  <2>2. Answers(h, ReplyOk(hbench[h]))
    BY <1>1, <1>2, <1>4, AnswerForm DEF FinishStartStage
  <2> QED
    BY <1>1, <1>4, <2>1, <2>2 DEF FinishStartStage, Schedules
<1> QED
  BY <1>3, <1>4

(* ... looking at the info of a stage ...                                  *)
LEMMA LookForm ==
    ASSUME CoreTypes, ConnInv, RunnerInv, NEW h \in Conns, LookupStart(h) \/ FinishStageStatus(h)
    PROVE  Looks(h) \/ Responds(h)
<1> USE DEF servers, conns, benches, runners, history, connCore, benchCore
<1>1. hpc[h] = "lookup"
  BY DEF LookupStart, FinishStageStatus, Continues
<1>2. /\ inbox[h] # 0 /\ inbox[h] \in 1 .. Len(Script)
      /\ hbench[h] \in Benches /\ hbench[h] \in 0 .. MaxConns /\ hbench[h] # 0
  BY <1>1, Bounds DEF ConnInv, HandlerAtWork, CoreTypes, ConnTypes
<1>3. CASE LookupStart(h)
  <2>1. inbox[h] \in {2, 4, 7} /\ inbox[h] \notin {5, 6}
    BY <1>2, <1>3, OpPlaces DEF LookupStart, Continues
  <2>2. CASE Answer(h, ReplyOk(hbench[h])) /\ UNCHANGED overlapped
    <3>1. ReplyOk(hbench[h]) \in Reply /\ ReplyOk(hbench[h]) # NoReply
      BY <1>2, Replies
    <3>2. Answers(h, ReplyOk(hbench[h]))
      BY <1>1, <1>2, <1>3, <2>2, AnswerForm DEF LookupStart
    <3> QED
      BY <1>3, <2>1, <2>2, <3>1, <3>2 DEF LookupStart, Responds
  <2>3. CASE ~AlreadyRequested(hbench[h], Script[inbox[h]].stage)
    <3>1. GoesOn(h, "finish", hbench[h])
      BY <1>3, <2>3 DEF LookupStart
    <3>2. hbench' = hbench
      BY <3>1 DEF GoesOn, CoreTypes, ConnTypes
    <3>3. overlapped' = IF Starting(hbench[h], Script[inbox[h]].stage) = {} THEN overlapped
                        ELSE overlapped \cup {<<hbench[h], Script[inbox[h]].stage>>}
      BY <1>3, <2>3 DEF LookupStart
    <3>4. ~requested[hbench[h]][Script[inbox[h]].stage]
      BY <2>3 DEF AlreadyRequested
    <3>5. /\ hpc' = [hpc EXCEPT ![h] = "finish"]
          /\ UNCHANGED <<step, sconn, owner, inbox, reply, asked, told>>
          /\ UNCHANGED <<active, requested, startCh, doneCh, timers, results, rpc, rbench>>
      BY <1>3, <3>1 DEF GoesOn, LookupStart
    <3> QED
      BY <1>1, <2>1, <3>2, <3>3, <3>4, <3>5 DEF Looks
  <2> QED
    BY <1>3, <2>2, <2>3 DEF LookupStart
<1>4. CASE FinishStageStatus(h)
  <2> DEFINE b == hbench[h]
             f == doneCh[b][Script[inbox[h]].stage] > 0
             r == [ReplyOk(b) EXCEPT !.finished = f]
  <2>1. r \in Reply /\ r # NoReply /\ r.finished = f /\ r.bench = b
    <3>1. f \in BOOLEAN
      OBVIOUS
    <3> HIDE DEF f
    <3> QED
      BY <1>2, <3>1, StatusReply
  <2>2. inbox[h] = 5 /\ r.finished => OpsOf(r.bench)
    <3>1. ASSUME inbox[h] = 5, r.finished PROVE OpsOf(r.bench)
      <4>1. doneCh[b]["benchmark"] > 0
        BY <1>2, <2>1, <3>1, OpPlaces
      <4> QED
        BY <1>2, <2>1, <4>1 DEF RunnerInv, Collected, OpsOf
    <3> QED
      BY <3>1
  <2>3. inbox[h] # 6
    BY <1>2, <1>4, OpPlaces DEF FinishStageStatus, Continues
  <2>4. Answers(h, r) /\ UNCHANGED benchCore
    BY <1>1, <1>2, <1>4, AnswerForm DEF FinishStageStatus
  <2> HIDE DEF r
  <2> QED
    BY <2>1, <2>2, <2>3, <2>4 DEF Responds
<1> QED
  BY <1>3, <1>4

(* ... and sending operations.                                             *)
LEMMA SendForm ==
    ASSUME CoreTypes, ConnInv, NEW h \in Conns, FinishSendOps(h)
    PROVE  Responds(h)
<1> USE DEF servers, conns, benches, runners, history, connCore, benchCore
<1>1. hpc[h] = "finish"
  BY DEF FinishSendOps, Continues
<1>2. inbox[h] # 0 /\ inbox[h] \in 1 .. Len(Script)
  BY <1>1, Bounds DEF ConnInv, HandlerAtWork, CoreTypes, ConnTypes
<1>3. inbox[h] = 6
  BY <1>2, OpPlaces DEF FinishSendOps, Continues
<1> DEFINE b == hbench[h]
           r == [ReplyOk(b) EXCEPT !.ops = results[b]]
<1>4. b \in Benches /\ b \in 0 .. MaxConns /\ b # 0
  BY <1>1, <1>3, Bounds DEF ConnInv, HandlerAtWork, CoreTypes, ConnTypes
<1>5. r \in Reply /\ r # NoReply /\ r.ops = results[b] /\ r.bench = b
  <2>1. results[b] \in {"nil", "full", "torn"}
    BY <1>4 DEF CoreTypes, BenchTypes
  <2> QED
    BY <1>4, <2>1, OpsReply
<1>6. Answers(h, r) /\ UNCHANGED benchCore
  BY <1>1, <1>2, AnswerForm DEF FinishSendOps
<1> HIDE DEF r, b
<1> QED
  BY <1>3, <1>4, <1>5, <1>6 DEF Responds

-----------------------------------------------------------------------------
(* What the goroutine of a benchmark does.                                 *)
LEMMA RunnerForm ==
    ASSUME NEW b \in Benches, Runner(b)
    PROVE  Attaches(b) \/ Moves(b) \/ Collects(b) \/ Reports(b)
<1> USE DEF servers, conns, benches, runners, history, connCore, benchCore
<1>2. CASE Attach(b)
  BY <1>2 DEF Attach, RunnerAt, Attaches
<1>3. CASE \/ StageStarts(b, "prepare", "waitPrepare", "prepare")
           \/ StageStarts(b, "benchmark", "waitStart", "running")
           \/ StageStarts(b, "cleanup", "waitCleanup", "cleanup")
  BY <1>3 DEF StageStarts, RunnerAt, Moves
<1>5. CASE StageAborted(b, "waitPrepare") \/ StageAborted(b, "waitCleanup")
  BY <1>5 DEF StageAborted, RunnerAt, Moves
<1>6. CASE Measured(b) \/ SortBegins(b) \/ SortEnds(b)
  BY <1>6 DEF Measured, SortBegins, SortEnds, RunnerAt, Collects
<1>7. CASE Prepared(b)
  <2>1. rpc[b] = "prepare"
    BY <1>7 DEF Prepared, RunnerAt
  <2>2. \E to \in {"waitStart", "finished"} : rpc' = [rpc EXCEPT ![b] = to]
    BY <1>7 DEF Prepared, RunnerAt
  <2>4. doneCh' = [doneCh EXCEPT ![rbench[b]]["prepare"] = @ + 1]
    BY <1>7 DEF Prepared, StageDone
  <2> QED
    BY <1>7, <2>1, <2>2, <2>4 DEF Prepared, Reports, Stages
<1>8. CASE ReportMeasured(b)
  BY <1>8 DEF ReportMeasured, RunnerAt, StageDone, Reports, Stages
<1>9. CASE CleanedUp(b)
  BY <1>9 DEF CleanedUp, RunnerAt, StageDone, Reports, Stages
<1> QED
  BY <1>2, <1>3, <1>5, <1>6, <1>7, <1>8, <1>9 DEF Runner

(* Every step has one of the forms.                                        *)
LEMMA NextStepForm ==
    ASSUME ClientInv, Next
    PROVE  StepForm
<1> USE DEF servers, conns, benches, runners, history, connCore, benchCore
<1>1. CoreTypes /\ ConnInv /\ RunnerInv
  BY TypesInParts DEF ClientInv
<1>2. ASSUME NEW s \in Servers, Server(s) \/ ServerExits(s)
      PROVE  StepForm
  BY <1>1, <1>2, ServerForm DEF StepForm
<1>3. ASSUME NEW h \in Conns, Handler(h)
      PROVE  StepForm
  <2>1. CASE \/ Handshake(h) \/ ReadError(h) \/ ExecDisconnect(h)
    BY <1>1, <2>1, EntryForm DEF StepForm
  <2>2. CASE ExecBenchmark(h) \/ ExecStartStage(h) \/ ExecStageStatus(h) \/ ExecSendOps(h)
    BY <1>1, <2>2, ExecForm DEF StepForm
  <2>3. CASE FinishBenchmark(h) \/ FinishStartStage(h)
    BY <1>1, <2>3, FinishForm DEF StepForm
  <2>4. CASE LookupStart(h) \/ FinishStageStatus(h)
    BY <1>1, <2>4, LookForm DEF StepForm
  <2>5. CASE FinishSendOps(h)
    BY <1>1, <2>5, SendForm DEF StepForm
  <2> QED
    BY <1>3, <2>1, <2>2, <2>3, <2>4, <2>5 DEF Handler
<1>4. ASSUME NEW h \in Conns, Break(h) \/ InfoRace(h)
      PROVE  StepForm
  BY <1>4 DEF Break, InfoRace, StepForm
<1>5. ASSUME NEW b \in Benches, Runner(b)
      PROVE  StepForm
  BY <1>5, RunnerForm DEF StepForm
<1>6. ASSUME NEW b \in Benches, NEW st \in Stages, TimerFires(b, st)
      PROVE  StepForm
  <2>1. Fires(b)
    BY <1>6 DEF TimerFires, Fires
  <2> QED
    BY <2>1 DEF StepForm
<1> QED
  BY <1>2, <1>3, <1>4, <1>5, <1>6 DEF Next

-----------------------------------------------------------------------------
(* The types are kept: first of what the steps' forms do not speak of.     *)
LEMMA RestServer ==
    ASSUME RestTypes, NEW s \in Servers, Server(s) \/ ServerExits(s)
    PROVE  RestTypes'
<1> USE DEF servers, conns, benches, runners, history, RestTypes
<1>1. CASE Dial(s)
  <2>1. \E h : alive' = [alive EXCEPT ![h] = TRUE]
    BY <1>1 DEF Dial
  <2> QED
    BY <1>1, <2>1 DEF Dial
<1>2. CASE GiveUp(s)
  BY <1>2 DEF GiveUp
<1>3. CASE WriteRequest(s)
  BY <1>3 DEF WriteRequest
<1>4. CASE ConnectionError(s)
  BY <1>4 DEF ConnectionError
<1>5. CASE ReadReply(s)
  <2>1. \E h : \E v \in BOOLEAN : alive' = [alive EXCEPT ![h] = alive[h] /\ v]
    BY <1>5 DEF ReadReply
  <2>2. alive' \in [Conns -> BOOLEAN]
    BY <2>1
  <2> QED
    BY <1>5, <2>2 DEF ReadReply
<1>6. CASE ServerExits(s)
  <2>1. \E h : alive' = [alive EXCEPT ![h] = FALSE]
    BY <1>6 DEF ServerExits
  <2>2. alive' \in [Conns -> BOOLEAN]
    BY <2>1
  <2>3. faults' = faults + 1 /\ UNCHANGED <<connected, ctxDone, cberr, crashed>>
    BY <1>6 DEF ServerExits
  <2> QED
    BY <2>2, <2>3
<1> QED
  BY <1>1, <1>2, <1>3, <1>4, <1>5, <1>6 DEF Server

(* An answer keeps the types ...                                           *)
LEMMA RestAnswer ==
    ASSUME RestTypes, NEW h \in Conns, NEW r, Answer(h, r)
    PROVE  /\ alive' \in [Conns -> BOOLEAN]
           /\ connected' \in [id : Servers \cup {NoServer}, on : BOOLEAN]
  BY DEF Answer, Return, RestTypes

(* ... and so does a handler that goes on.                                 *)
LEMMA RestWith ==
    ASSUME RestTypes, NEW h \in Conns, NEW place, WithActive(h, place)
    PROVE  /\ alive' \in [Conns -> BOOLEAN]
           /\ connected' \in [id : Servers \cup {NoServer}, on : BOOLEAN]
  BY RestAnswer DEF WithActive, GoesOn, RestTypes

(* Handlers keep the types ...                                             *)
LEMMA RestHandler ==
    ASSUME CoreTypes, RestTypes, NEW h \in Conns, Handler(h)
    PROVE  RestTypes'
<1> USE DEF servers, conns, benches, runners, history
<1>1. CASE Handshake(h)
  <2>1. UNCHANGED <<ctxDone, cberr, crashed, faults>>
    BY <1>1 DEF Handshake
  <2>2. alive' \in [Conns -> BOOLEAN]
    BY <1>1 DEF Handshake, RestTypes
  <2>3. connected' \in {connected, [id |-> owner[h], on |-> TRUE]}
    BY <1>1 DEF Handshake
  <2>4. connected' \in [id : Servers \cup {NoServer}, on : BOOLEAN]
    <3>1. /\ owner[h] \in Servers \cup {NoServer}
          /\ connected \in [id : Servers \cup {NoServer}, on : BOOLEAN]
      BY DEF RestTypes, CoreTypes, ConnTypes
    <3>2. [id |-> owner[h], on |-> TRUE] \in [id : Servers \cup {NoServer}, on : BOOLEAN]
      BY <3>1
    <3> QED
      BY <2>3, <3>1, <3>2
  <2> QED
    BY <2>1, <2>2, <2>4 DEF RestTypes
<1>2. CASE ReadError(h)
  BY <1>2 DEF ReadError, Return, RestTypes
<1>3. CancelActive => ctxDone' \in [Benches -> BOOLEAN]
  BY DEF CancelActive
<1>4. CASE ExecDisconnect(h)
  BY <1>3, <1>4 DEF ExecDisconnect, RestTypes
<1>5. CASE ExecBenchmark(h)
  BY <1>3, <1>5 DEF ExecBenchmark, GoesOn, RestTypes
<1>6. CASE FinishBenchmark(h)
  BY <1>6, RestAnswer DEF FinishBenchmark, RestTypes
<1>7. CASE ExecStartStage(h)
  BY <1>7, RestWith DEF ExecStartStage, RestTypes
<1>8. CASE LookupStart(h)
  <2>1. alive' \in [Conns -> BOOLEAN]
        /\ connected' \in [id : Servers \cup {NoServer}, on : BOOLEAN]
    BY <1>8, RestAnswer DEF LookupStart, GoesOn, RestTypes
  <2> QED
    BY <1>8, <2>1 DEF LookupStart, RestTypes
<1>9. CASE FinishStartStage(h)
  BY <1>9, RestAnswer DEF FinishStartStage, RestTypes
<1>10. CASE ExecStageStatus(h)
  <2>1. alive' \in [Conns -> BOOLEAN]
        /\ connected' \in [id : Servers \cup {NoServer}, on : BOOLEAN]
    BY <1>10, RestAnswer, RestWith DEF ExecStageStatus
  <2> QED
    BY <1>10, <2>1 DEF ExecStageStatus, RestTypes
<1>11. CASE FinishStageStatus(h)
  BY <1>11, RestAnswer DEF FinishStageStatus, RestTypes
<1>12. CASE ExecSendOps(h)
  BY <1>12, RestWith DEF ExecSendOps, RestTypes
<1>13. CASE FinishSendOps(h)
  BY <1>13, RestAnswer DEF FinishSendOps, RestTypes
<1> QED
  BY <1>1, <1>2, <1>4, <1>5, <1>6, <1>7, <1>8, <1>9, <1>10, <1>11, <1>12, <1>13 DEF Handler

(* ... so do the goroutines of benchmarks ...                              *)
LEMMA RestRunner ==
    ASSUME RestTypes, NEW b \in Benches, Runner(b)
    PROVE  RestTypes'
<1> USE DEF servers, conns, benches, runners, history
<1>1. cberr' \in [Benches -> BOOLEAN]
  <2>1. ASSUME NEW st, NEW err, StageDone(b, st, err) PROVE cberr' \in [Benches -> BOOLEAN]
    BY <2>1 DEF StageDone
  <2>2. CASE Prepared(b) \/ ReportMeasured(b) \/ CleanedUp(b)
    BY <2>1, <2>2 DEF Prepared, ReportMeasured, CleanedUp
  <2>3. CASE StageAborted(b, "waitPrepare") \/ StageAborted(b, "waitCleanup")
    BY <2>3 DEF StageAborted, RestTypes
  <2>4. CASE \/ Attach(b) \/ Measured(b) \/ SortBegins(b) \/ SortEnds(b)
             \/ StageStarts(b, "prepare", "waitPrepare", "prepare")
             \/ StageStarts(b, "benchmark", "waitStart", "running")
             \/ StageStarts(b, "cleanup", "waitCleanup", "cleanup")
    BY <2>4 DEF Attach, Measured, SortBegins, SortEnds, StageStarts, RestTypes
  <2> QED
    BY <2>2, <2>3, <2>4 DEF Runner
<1>2. UNCHANGED <<alive, connected, ctxDone, crashed, faults>>
  BY DEF Runner, Attach, StageStarts, StageAborted, Prepared, Measured, ReportMeasured,
         SortBegins, SortEnds, CleanedUp
<1> QED
  BY <1>1, <1>2 DEF RestTypes

(* ... and everything else.                                                *)
LEMMA RestKept ==
    ASSUME ClientInv, Next
    PROVE  RestTypes'
<1> USE DEF servers, conns, benches, runners, history
<1>1. CoreTypes /\ RestTypes
  BY TypesInParts DEF ClientInv
<1>2. ASSUME NEW h \in Conns, Break(h) \/ InfoRace(h)
      PROVE  RestTypes'
  <2>1. CASE Break(h)
    <3>1. alive' = [alive EXCEPT ![h] = FALSE] /\ faults' = faults + 1
          /\ UNCHANGED <<connected, ctxDone, cberr, crashed>>
      BY <2>1 DEF Break
    <3> QED
      BY <1>1, <3>1 DEF RestTypes
  <2>2. CASE InfoRace(h)
    BY <1>1, <2>2 DEF InfoRace, RestTypes
  <2> QED
    BY <1>2, <2>1, <2>2
<1>3. ASSUME NEW b \in Benches, NEW st \in Stages, TimerFires(b, st)
      PROVE  RestTypes'
  BY <1>1, <1>3 DEF TimerFires, RestTypes
<1> QED
  BY <1>1, <1>2, <1>3, RestServer, RestHandler, RestRunner DEF Next

-----------------------------------------------------------------------------
(* A coordinator's connection is one of the connections, and what it has   *)
(* been told is of the reply's type.                                       *)
LEMMA ServedConn ==
    ASSUME CoreTypes, NEW s \in Servers, sconn[s] # 0
    PROVE  sconn[s] \in Conns /\ reply[sconn[s]] \in Reply
  BY Bounds DEF CoreTypes, ServerTypes, ConnTypes

(* The types of what they speak of: coordinators ...                       *)
LEMMA ServerTypesKept ==
    ASSUME CoreTypes, StepForm
    PROVE  ServerTypes'
<1> USE DEF CoreTypes, ServerTypes
<1>1. CASE UNCHANGED <<connCore, benchCore>>
  BY <1>1 DEF connCore, benchCore
<1>0. /\ Ended = 10 /\ Len(Script) = 9 /\ MaxConns \in Nat /\ Conns = 1 .. MaxConns
      /\ Ended \in 1 .. Ended /\ 0 \in 0 .. MaxConns
  BY Bounds
<1>S. ASSUME NEW s \in Servers, sconn' \in {sconn, [sconn EXCEPT ![s] = 0]}
      PROVE  sconn' \in [Servers -> 0 .. MaxConns]
  BY <1>0, <1>S
<1>E. ASSUME NEW s \in Servers, step' \in {step, [step EXCEPT ![s] = Ended]}
      PROVE  step' \in [Servers -> 1 .. Ended]
  BY <1>0, <1>E
<1>2. ASSUME NEW s \in Servers, Opens(s)
      PROVE  ServerTypes'
  BY <1>2, <1>0 DEF Opens, connCore, benchCore
<1>3. ASSUME NEW s \in Servers, Loses(s)
      PROVE  ServerTypes'
  <2>1. step' \in [Servers -> 1 .. Ended]
    BY <1>3, <1>E DEF Loses
  <2>2. sconn' \in [Servers -> 0 .. MaxConns]
    BY <1>3, <1>S DEF Loses
  <2> QED
    BY <1>3, <2>1, <2>2 DEF Loses
<1>4. ASSUME NEW s \in Servers, Asks(s)
      PROVE  ServerTypes'
  <2>1. step' \in [Servers -> 1 .. Ended]
    BY <1>4, <1>E DEF Asks
  <2>2. sconn' \in [Servers -> 0 .. MaxConns]
    BY <1>4, <1>S DEF Asks
  <2>3. asked' \in [Servers -> 0 .. Len(Script)]
    BY <1>4, <1>0 DEF Asks
  <2> QED
    BY <1>4, <2>1, <2>2, <2>3 DEF Asks
<1>5. ASSUME NEW s \in Servers, Reads(s)
      PROVE  ServerTypes'
  <2>1. sconn[s] # 0 /\ step[s] \in 1 .. Len(Script)
    BY <1>5, <1>0 DEF Reads
  <2>2. reply[sconn[s]] \in Reply
    BY <2>1, ServedConn
  <2>3. NextStep(s, reply[sconn[s]]) \in 1 .. Ended
    BY <1>0, <2>1, <2>2, NextStepPlace
  <2>4. step' \in [Servers -> 1 .. Ended]
    BY <1>5, <2>3 DEF Reads
  <2>5. sconn' \in [Servers -> 0 .. MaxConns]
    BY <1>5, <1>S DEF Reads
  <2>6. told' \in [Servers -> 0 .. MaxConns]
    <3>1. reply[sconn[s]].bench \in 0 .. MaxConns
      BY <2>2 DEF Reply
    <3> QED
      BY <1>5, <3>1 DEF Reads
  <2> QED
    BY <1>5, <2>4, <2>5, <2>6 DEF Reads
<1>6. ASSUME NEW h \in Conns,
             \/ Enters(h) \/ Leaves(h) \/ Takes(h) \/ Looks(h)
             \/ Responds(h) \/ Makes(h) \/ Schedules(h)
      PROVE  ServerTypes'
  BY <1>6 DEF Enters, Leaves, Takes, Looks, Responds, Makes, Schedules, Answers
<1>7. ASSUME NEW b \in Benches, Fires(b) \/ Attaches(b) \/ Moves(b) \/ Collects(b) \/ Reports(b)
      PROVE  ServerTypes'
  BY <1>7 DEF Fires, Attaches, Moves, Collects, Reports, connCore
<1> QED
  BY <1>1, <1>2, <1>3, <1>4, <1>5, <1>6, <1>7 DEF StepForm

(* ... connections and their handlers ...                                  *)
LEMMA AnswerTypes ==
    ASSUME CoreTypes, NEW h \in Conns, NEW r \in Reply, Answers(h, r)
    PROVE  ConnTypes'
<1> USE DEF CoreTypes, ConnTypes, HandlerPlaces
<1>0. Len(Script) = 9 /\ MaxConns \in Nat /\ NoReply \in Reply
  BY Bounds, Replies
<1>1. reply' \in [Conns -> Reply]
  BY <1>0 DEF Answers
<1>2. inbox' \in [Conns -> 0 .. Len(Script)]
  BY <1>0 DEF Answers
<1>3. hpc' \in [Conns -> HandlerPlaces]
  BY DEF Answers
<1>4. hbench' \in [Conns -> 0 .. MaxConns]
  BY <1>0 DEF Answers
<1>5. \A g \in Conns : hpc'[g] = "lookup" => hbench'[g] # 0
  BY DEF Answers
<1> QED
  BY <1>1, <1>2, <1>3, <1>4, <1>5 DEF Answers

(* (... whatever they do ...)                                              *)
LEMMA ConnTypesKept ==
    ASSUME CoreTypes, StepForm
    PROVE  ConnTypes'
<1> USE DEF CoreTypes, ConnTypes, HandlerPlaces
<1>1. CASE UNCHANGED <<connCore, benchCore>>
  BY <1>1 DEF connCore, benchCore
<1>0. Ended = 10 /\ Len(Script) = 9 /\ MaxConns \in Nat /\ NoReply \in Reply
  BY Bounds, Replies
<1>2. ASSUME NEW s \in Servers, Opens(s)
      PROVE  ConnTypes'
  BY <1>2 DEF Opens
<1>3. ASSUME NEW s \in Servers, Loses(s)
      PROVE  ConnTypes'
  BY <1>3 DEF Loses
<1>4. ASSUME NEW s \in Servers, Asks(s)
      PROVE  ConnTypes'
  <2>1. step[s] \in 0 .. Len(Script)
    BY <1>4, <1>0 DEF Asks, ServerTypes
  <2>2. inbox' \in [Conns -> 0 .. Len(Script)]
    BY <1>4, <2>1 DEF Asks
  <2>3. UNCHANGED <<owner, reply, hpc, hbench>>
    BY <1>4 DEF Asks
  <2> QED
    BY <2>2, <2>3
<1>5. ASSUME NEW s \in Servers, Reads(s)
      PROVE  ConnTypes'
  <2>1. reply' \in [Conns -> Reply]
    BY <1>5, <1>0 DEF Reads
  <2>2. UNCHANGED <<owner, inbox, hpc, hbench>>
    BY <1>5 DEF Reads
  <2> QED
    BY <2>1, <2>2
<1>6. ASSUME NEW h \in Conns, Enters(h)
      PROVE  ConnTypes'
  BY <1>6 DEF Enters
<1>7. ASSUME NEW h \in Conns, Leaves(h)
      PROVE  ConnTypes'
  <2>1. reply' \in [Conns -> Reply]
    BY <1>7, <1>0 DEF Leaves
  <2>2. inbox' \in [Conns -> 0 .. Len(Script)]
    BY <1>7, <1>0 DEF Leaves
  <2>3. /\ hpc' \in [Conns -> HandlerPlaces]
        /\ \A g \in Conns : hpc'[g] = "lookup" => hpc[g] = "lookup"
    BY <1>7 DEF Leaves
  <2>4. UNCHANGED <<owner, hbench>>
    BY <1>7 DEF Leaves
  <2> QED
    BY <2>1, <2>2, <2>3, <2>4
<1>8. ASSUME NEW h \in Conns, Takes(h)
      PROVE  ConnTypes'
  <2>1. active \in 0 .. MaxConns
    BY DEF BenchTypes
  <2>2. hbench' \in [Conns -> 0 .. MaxConns]
    BY <1>8, <1>0, <2>1 DEF Takes
  <2>3. hpc' \in [Conns -> HandlerPlaces]
    BY <1>8 DEF Takes
  <2>4. UNCHANGED <<owner, inbox, reply>>
    BY <1>8 DEF Takes
  <2>5. \A g \in Conns : hpc'[g] = "lookup" => hbench'[g] # 0
    BY <1>8 DEF Takes
  <2> QED
    BY <2>2, <2>3, <2>4, <2>5
<1>9. ASSUME NEW h \in Conns, Looks(h)
      PROVE  ConnTypes'
  BY <1>9 DEF Looks
<1>10. ASSUME NEW h \in Conns, Responds(h)
      PROVE  ConnTypes'
  BY <1>10, AnswerTypes DEF Responds
<1>11. ASSUME NEW h \in Conns, Makes(h)
      PROVE  ConnTypes'
  <2>1. ReplyOk(h) \in Reply
    BY Bounds, Replies
  <2> QED
    BY <1>11, <2>1, AnswerTypes DEF Makes
<1>12. ASSUME NEW h \in Conns, Schedules(h)
      PROVE  ConnTypes'
  <2>1. ReplyOk(hbench[h]) \in Reply
    BY Bounds, Replies
  <2> QED
    BY <1>12, <2>1, AnswerTypes DEF Schedules
<1>13. ASSUME NEW b \in Benches, Fires(b) \/ Attaches(b) \/ Moves(b) \/ Collects(b) \/ Reports(b)
      PROVE  ConnTypes'
  BY <1>13 DEF Fires, Attaches, Moves, Collects, Reports, connCore
<1> QED
  BY <1>1, <1>2, <1>3, <1>4, <1>5, <1>6, <1>7, <1>8, <1>9, <1>10, <1>11,
      <1>12, <1>13 DEF StepForm

(* ... and benchmarks.  What a stage is requested of, or a goroutine works *)
(* on, is a benchmark.                                                     *)
LEMMA StartsOf ==
    ASSUME CoreTypes, ConnInv, NEW h \in Conns, Looks(h) \/ Schedules(h)
    PROVE  /\ hbench[h] \in Benches /\ Script[inbox[h]].stage \in Stages
           /\ inbox[h] \in {2, 4, 7} /\ StartOf[Script[inbox[h]].stage] = inbox[h]
           /\ Script[inbox[h]].op = "start_stage"
<1>1. inbox[h] \in {2, 4, 7} /\ hpc[h] \in {"lookup", "finish"}
  BY DEF Looks, Schedules
<1>2. hbench[h] # 0 /\ hbench[h] \in 0 .. MaxConns
  BY <1>1 DEF ConnInv, HandlerAtWork, CoreTypes, ConnTypes
<1>3. hbench[h] \in Benches
  BY <1>2, Bounds
<1>4. inbox[h] \in 1 .. Len(Script)
  BY <1>1, Bounds
<1> QED
  BY <1>1, <1>3, <1>4, OpPlaces

(* A goroutine that has attached works on a benchmark.                     *)
LEMMA WorksOn ==
    ASSUME CoreTypes, MadeInv, NEW b \in Benches, rpc[b] \notin {"none", "spawned"}
    PROVE  rbench[b] \in Benches
  BY Bounds DEF MadeInv, Attached, CoreTypes, BenchTypes

(* The variables of benchmarks keep their types.                           *)
LEMMA BenchTypesKept ==
    ASSUME CoreTypes, ConnInv, MadeInv, StepForm
    PROVE  BenchTypes'
<1> USE DEF CoreTypes, BenchTypes
<1>1. CASE UNCHANGED <<connCore, benchCore>>
  BY <1>1 DEF connCore, benchCore
<1>0. MaxConns \in Nat /\ Conns = 1 .. MaxConns /\ Benches = Conns
  BY Bounds
<1>2. ASSUME NEW s \in Servers, Opens(s) \/ Loses(s) \/ Asks(s) \/ Reads(s)
      PROVE  BenchTypes'
  BY <1>2 DEF Opens, Loses, Asks, Reads, benchCore
<1>3. ASSUME NEW h \in Conns, Enters(h) \/ Leaves(h) \/ Takes(h) \/ Responds(h)
      PROVE  BenchTypes'
  BY <1>3 DEF Enters, Leaves, Takes, Responds, benchCore
<1>4. ASSUME NEW h \in Conns, Looks(h)
      PROVE  BenchTypes'
  <2>1. hbench[h] \in Benches /\ Script[inbox[h]].stage \in Stages
    BY <1>4, StartsOf
  <2>2. overlapped' \in SUBSET (Benches \X Stages)
    BY <1>4, <2>1 DEF Looks
  <2> QED
    BY <1>4, <2>2 DEF Looks
<1>5. ASSUME NEW h \in Conns, Makes(h)
      PROVE  BenchTypes'
  <2>1. active' \in 0 .. MaxConns
    BY <1>5, <1>0 DEF Makes
  <2>2. rpc' \in [Benches -> RunnerPlaces]
    BY <1>5, <1>0 DEF Makes, RunnerPlaces
  <2> QED
    BY <1>5, <2>1, <2>2 DEF Makes
<1>6. ASSUME NEW h \in Conns, Schedules(h)
      PROVE  BenchTypes'
  <2>1. hbench[h] \in Benches /\ Script[inbox[h]].stage \in Stages
    BY <1>6, StartsOf
  <2>2. requested' \in [Benches -> [Stages -> BOOLEAN]]
    BY <1>6, <2>1 DEF Schedules
  <2>3. timers' \in [Benches -> [Stages -> Nat]]
    BY <1>6, <2>1 DEF Schedules
  <2> QED
    BY <1>6, <2>2, <2>3 DEF Schedules
<1>7. ASSUME NEW b \in Benches, Fires(b)
      PROVE  BenchTypes'
  <2>1. startCh' \in [Benches -> [Stages -> Nat]]
    BY <1>7 DEF Fires
  <2>2. timers' \in [Benches -> [Stages -> Nat]]
    BY <1>7 DEF Fires
  <2> QED
    BY <1>7, <2>1, <2>2 DEF Fires
<1>8. ASSUME NEW b \in Benches, Attaches(b)
      PROVE  BenchTypes'
  <2>1. rpc' \in [Benches -> RunnerPlaces]
    BY <1>8 DEF Attaches, RunnerPlaces
  <2>2. rbench' \in [Benches -> 0 .. MaxConns]
    BY <1>8 DEF Attaches
  <2> QED
    BY <1>8, <2>1, <2>2 DEF Attaches
<1>9. ASSUME NEW b \in Benches, Moves(b)
      PROVE  BenchTypes'
  <2>1. rpc' \in [Benches -> RunnerPlaces]
    BY <1>9 DEF Moves, RunnerPlaces
  <2> QED
    BY <1>9, <2>1 DEF Moves
<1>10. ASSUME NEW b \in Benches, Collects(b)
      PROVE  BenchTypes'
  <2>1. rpc' \in [Benches -> RunnerPlaces]
    BY <1>10 DEF Collects, RunnerPlaces
  <2>2. results' \in [Benches -> {"nil", "full", "torn"}]
    BY <1>10 DEF Collects
  <2> QED
    BY <1>10, <2>1, <2>2 DEF Collects
<1>11. ASSUME NEW b \in Benches, Reports(b)
      PROVE  BenchTypes'
  <2>1. rpc' \in [Benches -> RunnerPlaces]
    <3>1. \E to \in RunnerPlaces : rpc' = [rpc EXCEPT ![b] = to]
      BY <1>11 DEF Reports, RunnerPlaces
    <3> QED
      BY <3>1
  <2>2. doneCh' \in [Benches -> [Stages -> Nat]]
    <3>1. PICK st \in Stages : doneCh' = [doneCh EXCEPT ![rbench[b]][st] = @ + 1]
      BY <1>11 DEF Reports
    <3>2. rbench[b] \in Benches
      BY <1>11, WorksOn DEF Reports
    <3> QED
      BY <3>1, <3>2
  <2> QED
    BY <1>11, <2>1, <2>2 DEF Reports
<1> QED
  BY <1>1, <1>2, <1>3, <1>4, <1>5, <1>6, <1>7, <1>8, <1>9, <1>10, <1>11 DEF StepForm

-----------------------------------------------------------------------------
(* An answer is about one connection.                                      *)
AnswersAt(h, r) ==
    /\ inbox[h] # 0 /\ hpc[h] \in {"read", "lookup", "finish"}
    /\ inbox'[h] = 0 /\ hbench'[h] = 0
    /\ \/ hpc'[h] = "read" /\ reply'[h] = r
       \/ hpc'[h] = "closed" /\ reply'[h] = NoReply
    /\ \A g \in Conns : g # h =>
           /\ inbox'[g] = inbox[g] /\ reply'[g] = reply[g]
           /\ hpc'[g] = hpc[g] /\ hbench'[g] = hbench[g]
    /\ UNCHANGED <<step, sconn, owner, asked, told>>

(* The form of an answer says so.                                          *)
LEMMA Answered ==
    ASSUME CoreTypes, NEW h \in Conns, NEW r, Answers(h, r)
    PROVE  AnswersAt(h, r)
  BY DEF Answers, AnswersAt, CoreTypes, ConnTypes

(* What was asked for stays asked for.                                     *)
AskedThen(i) == \E s \in Servers : asked'[s] >= i

(* Coordinators ask for more, never for less.                              *)
LEMMA AskedStays ==
    ASSUME CoreTypes, Written, StepForm
    PROVE  \A i \in Nat : AskedFor(i) => AskedThen(i)
<1>1. SUFFICES ASSUME NEW i \in Nat, NEW s \in Servers, asked[s] >= i
               PROVE  asked'[s] >= i
  BY DEF AskedFor, AskedThen
<1>2. step[s] \in Nat /\ asked[s] \in Nat /\ asked[s] <= step[s]
  <2>1. step[s] \in 1 .. Ended /\ asked[s] \in 0 .. Len(Script)
    BY DEF CoreTypes, ServerTypes
  <2> QED
    BY <2>1, Bounds DEF Written
<1>3. CASE \E t \in Servers : Asks(t)
  <2>1. PICK t \in Servers : Asks(t)
    BY <1>3
  <2>2. asked'[s] \in {asked[s], step[s]}
    BY <2>1 DEF Asks, CoreTypes, ServerTypes
  <2> QED
    BY <1>1, <1>2, <2>2
<1>4. CASE ~ \E t \in Servers : Asks(t)
  <2>1. UNCHANGED asked
    BY <1>4 DEF StepForm, connCore, Opens, Loses, Reads, Enters, Leaves, Takes, Looks, Responds,
       Makes, Schedules, Answers, Fires, Attaches, Moves, Collects, Reports
  <2> QED
    BY <1>1, <2>1
<1> QED
  BY <1>3, <1>4

-----------------------------------------------------------------------------
(* Connections and requests.  What handlers answer ...                     *)
LEMMA AnswerConn ==
    ASSUME CoreTypes, ConnInv, NEW h \in Conns, NEW r, Answers(h, r),
           \A i \in Nat : AskedFor(i) => AskedThen(i)
    PROVE  ConnInv'
<1>1. AnswersAt(h, r)
  BY Answered
<1>2. Owned'
  <2>1. ASSUME NEW s \in Servers, sconn[s] # 0
        PROVE  owner[sconn[s]] = s /\ hpc'[sconn[s]] # "unused"
    BY <1>1, <2>1, ServedConn DEF AnswersAt, ConnInv, Owned
  <2> QED
    BY <1>1, <2>1 DEF AnswersAt, Owned
<1>3. HandlerAtWork'
  <2>1. ASSUME NEW g \in Conns
        PROVE  /\ hpc'[g] \in {"unused", "handshake", "closed"} => inbox'[g] = 0
               /\ hpc'[g] \in {"unused", "handshake"} \/ inbox'[g] # 0 => reply'[g] = NoReply
               /\ hpc'[g] = "lookup" => inbox'[g] \in {2, 3, 4, 5, 7, 8}
               /\ hpc'[g] = "finish" => inbox'[g] \in {1, 2, 4, 6, 7}
               /\ hpc'[g] = "finish" /\ inbox'[g] # 1 => hbench'[g] # 0
    BY <1>1 DEF AnswersAt, ConnInv, HandlerAtWork
  <2> QED
    BY <2>1 DEF HandlerAtWork
<1>4. InStep'
  <2>1. ASSUME NEW s \in Servers, sconn[s] # 0, inbox'[sconn[s]] # 0
        PROVE  inbox'[sconn[s]] = step[s]
    <3>1. sconn[s] # h
      BY <1>1, <2>1 DEF AnswersAt
    <3> QED
      BY <1>1, <2>1, <3>1, ServedConn DEF AnswersAt, ConnInv, InStep
  <2> QED
    BY <1>1, <2>1 DEF AnswersAt, InStep
<1>5. Written'
  <2>1. ASSUME NEW g \in Conns, inbox'[g] # 0
        PROVE  AskedThen(inbox'[g])
    <3>1. inbox'[g] = inbox[g]
      BY <1>1, <2>1 DEF AnswersAt
    <3>2. inbox[g] \in 0 .. Len(Script)
      BY DEF CoreTypes, ConnTypes
    <3>3. inbox[g] \in Nat
      BY <3>2, Bounds
    <3>4. AskedFor(inbox[g])
      BY <2>1, <3>1 DEF ConnInv, Written
    <3> QED
      BY <3>1, <3>3, <3>4
  <2> QED
    BY <1>1, <2>1 DEF AnswersAt, ConnInv, Written, AskedFor, AskedThen
<1> QED
  BY <1>2, <1>3, <1>4, <1>5 DEF ConnInv

(* ... and every other step.                                               *)
LEMMA ConnInvKept ==
    ASSUME CoreTypes, ConnInv, StepForm
    PROVE  ConnInv'
<1> USE DEF CoreTypes, ServerTypes, ConnTypes
<1>0. Len(Script) = 9 /\ Ended = 10 /\ MaxConns \in Nat /\ Conns = 1 .. MaxConns
  BY Bounds
<1>A. \A i \in Nat : AskedFor(i) => AskedThen(i)
  BY AskedStays DEF ConnInv
<1>W. ASSUME UNCHANGED inbox,
             \A s \in Servers : asked'[s] = asked[s] /\ step'[s] \in Nat /\ step[s] <= step'[s]
      PROVE  Written'
  <2>1. ASSUME NEW s \in Servers PROVE asked'[s] <= step'[s]
    <3>1. asked[s] \in 0 .. Len(Script) /\ step[s] \in 1 .. Ended /\ asked[s] <= step[s]
      BY DEF ConnInv, Written
    <3> QED
      BY <1>W, <1>0, <3>1
  <2>2. ASSUME NEW g \in Conns, inbox'[g] # 0
        PROVE  AskedThen(inbox'[g])
    <3>1. inbox[g] \in 0 .. Len(Script) /\ inbox'[g] = inbox[g]
      BY <1>W
    <3>2. inbox[g] \in Nat /\ AskedFor(inbox[g])
      BY <1>0, <2>2, <3>1 DEF ConnInv, Written
    <3> QED
      BY <1>A, <3>1, <3>2
  <2> QED
    BY <2>1, <2>2 DEF Written, AskedFor, AskedThen
<1>T. \A s \in Servers : step[s] \in Nat /\ asked[s] \in Nat
  <2>1. ASSUME NEW s \in Servers PROVE step[s] \in Nat /\ asked[s] \in Nat
    <3>1. step[s] \in 1 .. Ended /\ asked[s] \in 0 .. Len(Script)
      OBVIOUS
    <3> QED
      BY <1>0, <3>1
  <2> QED
    BY <2>1
<1>1. CASE UNCHANGED connCore
  <2>1. UNCHANGED <<step, sconn, owner, inbox, reply, hpc, hbench, asked>>
    BY <1>1 DEF connCore
  <2>2. Written'
    BY <2>1, <1>W, <1>T
  <2> QED
    BY <2>1, <2>2 DEF ConnInv, Owned, HandlerAtWork, InStep
<1>2. ASSUME NEW s \in Servers, Opens(s)
      PROVE  ConnInv'
  <2>1. PICK h \in Conns :
            /\ sconn[s] = 0 /\ hpc[h] = "unused"
            /\ sconn' = [sconn EXCEPT ![s] = h]
            /\ owner' = [owner EXCEPT ![h] = s]
            /\ hpc' = [hpc EXCEPT ![h] = "handshake"]
            /\ UNCHANGED <<step, inbox, reply, hbench, asked>>
    BY <1>2 DEF Opens
  <2>2. h # 0 /\ inbox[h] = 0 /\ reply[h] = NoReply
    BY <1>0, <2>1 DEF ConnInv, HandlerAtWork
  <2>3. \A t \in Servers : t # s /\ sconn[t] # 0 => sconn[t] # h
    BY <2>1 DEF ConnInv, Owned
  <2>4. Owned'
    <3>1. ASSUME NEW t \in Servers, sconn'[t] # 0
          PROVE  owner'[sconn'[t]] = t /\ hpc'[sconn'[t]] # "unused"
      <4>1. CASE t = s
        BY <2>1, <4>1
      <4>2. CASE t # s
        <5>1. sconn'[t] = sconn[t] /\ sconn[t] # h /\ sconn[t] \in Conns
          BY <2>1, <2>3, <3>1, <4>2, ServedConn
        <5> QED
          BY <2>1, <3>1, <5>1 DEF ConnInv, Owned
      <4> QED
        BY <4>1, <4>2
    <3> QED
      BY <3>1 DEF Owned
  <2>5. HandlerAtWork'
    <3>1. ASSUME NEW g \in Conns
          PROVE  /\ hpc'[g] \in {"unused", "handshake", "closed"} => inbox[g] = 0
                 /\ hpc'[g] \in {"unused", "handshake"} \/ inbox[g] # 0 => reply[g] = NoReply
                 /\ hpc'[g] = "lookup" => inbox[g] \in {2, 3, 4, 5, 7, 8}
                 /\ hpc'[g] = "finish" => inbox[g] \in {1, 2, 4, 6, 7}
                 /\ hpc'[g] = "finish" /\ inbox[g] # 1 => hbench[g] # 0
      <4>1. CASE g = h
        BY <2>1, <2>2, <4>1
      <4>2. CASE g # h
        BY <2>1, <4>2 DEF ConnInv, HandlerAtWork
      <4> QED
        BY <4>1, <4>2
    <3> QED
      BY <2>1, <3>1 DEF HandlerAtWork
  <2>6. InStep'
    <3>1. ASSUME NEW t \in Servers, sconn'[t] # 0, inbox[sconn'[t]] # 0
          PROVE  inbox[sconn'[t]] = step[t]
      <4>1. t # s /\ sconn'[t] = sconn[t]
        BY <2>1, <2>2, <3>1
      <4> QED
        BY <3>1, <4>1 DEF ConnInv, InStep
    <3> QED
      BY <2>1, <3>1 DEF InStep
  <2>7. Written'
    BY <2>1, <1>W, <1>T
  <2> QED
    BY <2>4, <2>5, <2>6, <2>7 DEF ConnInv
<1>3. ASSUME NEW s \in Servers, Loses(s)
      PROVE  ConnInv'
  <2>1. /\ step' \in {step, [step EXCEPT ![s] = Ended]}
        /\ sconn' = [sconn EXCEPT ![s] = 0]
        /\ UNCHANGED <<owner, inbox, reply, hpc, hbench, asked>>
    BY <1>3 DEF Loses
  <2>2. Owned'
    BY <2>1 DEF ConnInv, Owned
  <2>3. HandlerAtWork'
    BY <2>1 DEF ConnInv, HandlerAtWork
  <2>4. InStep'
    <3>1. ASSUME NEW t \in Servers, sconn'[t] # 0
          PROVE  t # s /\ sconn'[t] = sconn[t] /\ step'[t] = step[t]
      BY <2>1, <3>1
    <3> QED
      BY <2>1, <3>1 DEF ConnInv, InStep
  <2>5. \A t \in Servers : asked'[t] = asked[t] /\ step'[t] \in Nat /\ step[t] <= step'[t]
    <3>1. ASSUME NEW t \in Servers PROVE step'[t] \in Nat /\ step[t] <= step'[t]
      <4>1. step'[t] \in {step[t], Ended}
        BY <2>1
      <4>2. step[t] \in 1 .. Ended
        OBVIOUS
      <4> QED
        BY <4>1, <4>2, <1>0
    <3> QED
      BY <2>1, <3>1
  <2>6. Written'
    BY <2>1, <2>5, <1>W
  <2> QED
    BY <2>2, <2>3, <2>4, <2>6 DEF ConnInv
<1>4. ASSUME NEW s \in Servers, Asks(s)
      PROVE  ConnInv'
  <2> DEFINE h == sconn[s]
  <2>1. /\ step[s] < Ended /\ h # 0
        /\ hpc[h] = "read" /\ inbox[h] = 0 /\ reply[h] = NoReply
        /\ inbox' = [inbox EXCEPT ![h] = step[s]]
        /\ asked' = [asked EXCEPT ![s] = step[s]]
        /\ UNCHANGED <<owner, reply, hpc, hbench>>
    BY <1>4 DEF Asks
  <2>2. \/ UNCHANGED <<step, sconn>>
        \/ step' = [step EXCEPT ![s] = Ended] /\ sconn' = [sconn EXCEPT ![s] = 0]
    BY <1>4 DEF Asks
  <2>3. h \in Conns
    BY <2>1, ServedConn
  <2>4. Owned'
    <3>1. ASSUME NEW t \in Servers PROVE sconn'[t] \in {0, sconn[t]}
      BY <2>2
    <3> QED
      BY <2>1, <3>1 DEF ConnInv, Owned
  <2>5. HandlerAtWork'
    <3>1. ASSUME NEW g \in Conns
          PROVE  /\ hpc[g] \in {"unused", "handshake", "closed"} => inbox'[g] = 0
                 /\ hpc[g] \in {"unused", "handshake"} \/ inbox'[g] # 0 => reply[g] = NoReply
                 /\ hpc[g] = "lookup" => inbox'[g] \in {2, 3, 4, 5, 7, 8}
                 /\ hpc[g] = "finish" => inbox'[g] \in {1, 2, 4, 6, 7}
                 /\ hpc[g] = "finish" /\ inbox'[g] # 1 => hbench[g] # 0
      <4>1. CASE g = h
        BY <2>1, <4>1
      <4>2. CASE g # h
        BY <2>1, <4>2 DEF ConnInv, HandlerAtWork
      <4> QED
        BY <4>1, <4>2
    <3> QED
      BY <2>1, <3>1 DEF HandlerAtWork
  <2>6. InStep'
    <3>1. ASSUME NEW t \in Servers, sconn'[t] # 0, inbox'[sconn'[t]] # 0
          PROVE  inbox'[sconn'[t]] = step'[t]
      <4>1. CASE t = s
        <5>1. UNCHANGED <<step, sconn>>
          BY <2>2, <3>1, <4>1
        <5> QED
          BY <2>1, <2>3, <4>1, <5>1
      <4>2. CASE t # s
        <5>1. sconn'[t] = sconn[t] /\ step'[t] = step[t] /\ sconn[t] \in Conns
          BY <2>2, <3>1, <4>2, ServedConn
        <5>2. sconn[t] # h
          BY <2>1, <3>1, <4>2, <5>1 DEF ConnInv, Owned
        <5> QED
          BY <2>1, <3>1, <5>1, <5>2 DEF ConnInv, InStep
      <4> QED
        BY <4>1, <4>2
    <3> QED
      BY <3>1 DEF InStep
  <2>7. Written'
    <3>1. ASSUME NEW t \in Servers PROVE asked'[t] <= step'[t]
      <4>1. step'[t] \in {step[t], Ended} /\ asked'[t] \in {asked[t], step[t]}
        BY <2>1, <2>2
      <4>2. step[t] \in 1 .. Ended /\ asked[t] \in Nat /\ asked[t] <= step[t]
        BY <1>T DEF ConnInv, Written
      <4> QED
        BY <4>1, <4>2, <1>0
    <3>2. ASSUME NEW g \in Conns, inbox'[g] # 0 PROVE AskedThen(inbox'[g])
      <4>1. CASE g = h
        <5>1. inbox'[g] = step[s] /\ asked'[s] = step[s] /\ step[s] \in Nat
          BY <2>1, <2>3, <4>1, <1>T
        <5> QED
          BY <5>1 DEF AskedThen
      <4>2. CASE g # h
        <5>1. inbox'[g] = inbox[g] /\ inbox[g] \in 0 .. Len(Script)
          BY <2>1, <4>2
        <5>2. inbox[g] \in Nat /\ AskedFor(inbox[g])
          BY <1>0, <3>2, <5>1 DEF ConnInv, Written
        <5> QED
          BY <1>A, <5>1, <5>2
      <4> QED
        BY <4>1, <4>2
    <3> QED
      BY <3>1, <3>2 DEF Written, AskedFor, AskedThen
  <2> QED
    BY <2>4, <2>5, <2>6, <2>7 DEF ConnInv
<1>5. ASSUME NEW s \in Servers, Reads(s)
      PROVE  ConnInv'
  <2> DEFINE h == sconn[s]
  <2>1. /\ step[s] < Ended /\ h # 0 /\ hpc[h] = "read" /\ reply[h] # NoReply
        /\ reply' = [reply EXCEPT ![h] = NoReply]
        /\ step' = [step EXCEPT ![s] = NextStep(s, reply[h])]
        /\ sconn' \in {sconn, [sconn EXCEPT ![s] = 0]}
        /\ UNCHANGED <<owner, inbox, hpc, hbench, asked>>
    BY <1>5 DEF Reads
  <2>2. h \in Conns /\ reply[h] \in Reply /\ inbox[h] = 0
    BY <2>1, ServedConn DEF ConnInv, HandlerAtWork
  <2>3. step[s] \in 1 .. Len(Script)
    BY <2>1, <1>0
  <2>4. NextStep(s, reply[h]) \in 2 .. Ended /\ NextStep(s, reply[h]) >= step[s]
    BY <2>2, <2>3, NextStepPlace
  <2>5. \A t \in Servers : asked'[t] = asked[t] /\ step'[t] \in Nat /\ step[t] <= step'[t]
    <3>1. ASSUME NEW t \in Servers PROVE step'[t] \in Nat /\ step[t] <= step'[t]
      <4>1. CASE t = s
        BY <2>1, <2>4, <4>1, <1>0, <1>T
      <4>2. CASE t # s
        BY <2>1, <4>2, <1>T
      <4> QED
        BY <4>1, <4>2
    <3> QED
      BY <2>1, <3>1
  <2>6. Written'
    BY <2>1, <2>5, <1>W
  <2>7. \A t \in Servers : sconn'[t] \in {0, sconn[t]}
    BY <2>1
  <2>8. Owned'
    BY <2>1, <2>7 DEF ConnInv, Owned
  <2>9. HandlerAtWork'
    <3>1. \A g \in Conns : reply[g] = NoReply => reply'[g] = NoReply
      BY <2>1
    <3> QED
      BY <2>1, <3>1 DEF ConnInv, HandlerAtWork
  <2>10. InStep'
    <3>1. ASSUME NEW t \in Servers, sconn'[t] # 0, inbox[sconn'[t]] # 0
          PROVE  inbox[sconn'[t]] = step'[t]
      <4>1. sconn'[t] = sconn[t] /\ t # s
        BY <2>2, <2>7, <3>1
      <4> QED
        BY <2>1, <3>1, <4>1 DEF ConnInv, InStep
    <3> QED
      BY <2>1, <3>1 DEF InStep
  <2> QED
    BY <2>6, <2>8, <2>9, <2>10 DEF ConnInv
<1>6. ASSUME NEW h \in Conns, Enters(h)
      PROVE  ConnInv'
  <2>1. /\ hpc[h] = "handshake" /\ hpc' = [hpc EXCEPT ![h] = "read"]
        /\ UNCHANGED <<step, sconn, owner, inbox, reply, hbench, asked>>
    BY <1>6 DEF Enters
  <2>2. Written'
    BY <2>1, <1>W, <1>T
  <2>3. \A g \in Conns : hpc'[g] \in {hpc[g], "read"}
    BY <2>1
  <2>4. HandlerAtWork'
    BY <2>1, <2>3 DEF ConnInv, HandlerAtWork
  <2>5. Owned' /\ InStep'
    BY <2>1, <2>3, ServedConn DEF ConnInv, Owned, InStep
  <2> QED
    BY <2>2, <2>4, <2>5 DEF ConnInv
<1>7. ASSUME NEW h \in Conns, Leaves(h)
      PROVE  ConnInv'
  <2>1. /\ hpc' = [hpc EXCEPT ![h] = "closed"]
        /\ inbox' = [inbox EXCEPT ![h] = 0]
        /\ reply' \in {reply, [reply EXCEPT ![h] = NoReply]}
        /\ hpc[h] \in {"handshake", "read"}
        /\ UNCHANGED <<step, sconn, owner, hbench, asked>>
    BY <1>7 DEF Leaves
  <2>2. Owned'
    <3>1. \A g \in Conns : hpc'[g] = "unused" => hpc[g] = "unused"
      BY <2>1
    <3> QED
      BY <2>1, <3>1, ServedConn DEF ConnInv, Owned
  <2>3. HandlerAtWork'
    <3>1. ASSUME NEW g \in Conns
          PROVE  /\ hpc'[g] \in {"unused", "handshake", "closed"} => inbox'[g] = 0
                 /\ hpc'[g] \in {"unused", "handshake"} \/ inbox'[g] # 0 => reply'[g] = NoReply
                 /\ hpc'[g] = "lookup" => inbox'[g] \in {2, 3, 4, 5, 7, 8}
                 /\ hpc'[g] = "finish" => inbox'[g] \in {1, 2, 4, 6, 7}
                 /\ hpc'[g] = "finish" /\ inbox'[g] # 1 => hbench[g] # 0
      <4>1. CASE g = h
        BY <2>1, <4>1
      <4>2. CASE g # h
        <5>1. hpc'[g] = hpc[g] /\ inbox'[g] = inbox[g] /\ reply'[g] = reply[g]
          BY <2>1, <4>2
        <5> QED
          BY <5>1 DEF ConnInv, HandlerAtWork
      <4> QED
        BY <4>1, <4>2
    <3> QED
      BY <2>1, <3>1 DEF HandlerAtWork
  <2>4. InStep'
    <3>1. \A g \in Conns : inbox'[g] \in {0, inbox[g]}
      BY <2>1
    <3> QED
      BY <2>1, <3>1, ServedConn DEF ConnInv, InStep
  <2>5. Written'
    <3>1. ASSUME NEW g \in Conns, inbox'[g] # 0 PROVE AskedThen(inbox'[g])
      <4>1. inbox'[g] = inbox[g] /\ inbox[g] \in 0 .. Len(Script)
        BY <2>1, <3>1
      <4>2. inbox[g] \in Nat /\ AskedFor(inbox[g])
        BY <1>0, <3>1, <4>1 DEF ConnInv, Written
      <4> QED
        BY <1>A, <4>1, <4>2
    <3> QED
      BY <2>1, <3>1 DEF ConnInv, Written, AskedFor, AskedThen
  <2> QED
    BY <2>2, <2>3, <2>4, <2>5 DEF ConnInv
<1>8. ASSUME NEW h \in Conns, Takes(h) \/ Looks(h)
      PROVE  ConnInv'
  <2>1. UNCHANGED <<step, sconn, owner, inbox, reply, asked>>
    BY <1>8 DEF Takes, Looks
  <2>2. /\ hpc'[h] \in {"lookup", "finish"} /\ inbox[h] # 0
        /\ hpc'[h] = "lookup" => inbox[h] \in {2, 3, 4, 5, 7, 8}
        /\ hpc'[h] = "finish" => inbox[h] \in {1, 2, 4, 6, 7}
        /\ hpc'[h] = "finish" /\ inbox[h] # 1 => hbench'[h] # 0
    BY <1>8 DEF Takes, Looks
  <2>3. \A g \in Conns : g # h => hpc'[g] = hpc[g] /\ hbench'[g] = hbench[g]
    BY <1>8 DEF Takes, Looks
  <2>4. Written'
    BY <2>1, <1>W, <1>T
  <2>5. Owned' /\ InStep'
    BY <2>1, <2>2, <2>3, ServedConn DEF ConnInv, Owned, InStep
  <2>6. HandlerAtWork'
    <3>1. ASSUME NEW g \in Conns
          PROVE  /\ hpc'[g] \in {"unused", "handshake", "closed"} => inbox[g] = 0
                 /\ hpc'[g] \in {"unused", "handshake"} \/ inbox[g] # 0 => reply[g] = NoReply
                 /\ hpc'[g] = "lookup" => inbox[g] \in {2, 3, 4, 5, 7, 8}
                 /\ hpc'[g] = "finish" => inbox[g] \in {1, 2, 4, 6, 7}
                 /\ hpc'[g] = "finish" /\ inbox[g] # 1 => hbench'[g] # 0
      <4>1. CASE g = h
        BY <2>2, <4>1 DEF ConnInv, HandlerAtWork
      <4>2. CASE g # h
        BY <2>3, <4>2 DEF ConnInv, HandlerAtWork
      <4> QED
        BY <4>1, <4>2
    <3> QED
      BY <2>1, <3>1 DEF HandlerAtWork
  <2> QED
    BY <2>4, <2>5, <2>6 DEF ConnInv
<1>9. ASSUME NEW h \in Conns, Responds(h) \/ Makes(h) \/ Schedules(h)
      PROVE  ConnInv'
  <2>1. \E r : Answers(h, r)
    BY <1>9 DEF Responds, Makes, Schedules
  <2> QED
    BY <1>A, <2>1, AnswerConn
<1>10. ASSUME NEW b \in Benches, Fires(b) \/ Attaches(b) \/ Moves(b) \/ Collects(b) \/ Reports(b)
      PROVE  ConnInv'
  <2>1. UNCHANGED connCore
    BY <1>10 DEF Fires, Attaches, Moves, Collects, Reports
  <2> QED
    BY <1>1, <2>1
<1> QED
  BY <1>1, <1>2, <1>3, <1>4, <1>5, <1>6, <1>7, <1>8, <1>9, <1>10 DEF StepForm

-----------------------------------------------------------------------------
(* Benchmarks.  What is made stays made, and only the connection that asks *)
(* for a benchmark makes one.                                              *)
MadeThen(b) == rpc'[b] # "none"

(* Where the goroutines of benchmarks move.                                *)
LEMMA RunnersMove ==
    ASSUME StepForm
    PROVE  \/ UNCHANGED <<rpc, rbench, active>>
           \/ \E h \in Conns : Makes(h)
           \/ \E b \in Benches : Attaches(b)
           \/ \E b \in Benches :
                  /\ rpc[b] \notin {"none", "spawned"}
                  /\ \E to \in RunnerPlaces \ {"none", "spawned"} : rpc' = [rpc EXCEPT ![b] = to]
                  /\ UNCHANGED <<rbench, active>>
<1>1. CASE UNCHANGED <<connCore, benchCore>>
  BY <1>1 DEF benchCore
<1>2. ASSUME NEW s \in Servers, Opens(s) \/ Loses(s) \/ Asks(s) \/ Reads(s)
      PROVE  UNCHANGED <<rpc, rbench, active>>
  BY <1>2 DEF Opens, Loses, Asks, Reads, benchCore
<1>3. ASSUME NEW h \in Conns,
             Enters(h) \/ Leaves(h) \/ Takes(h) \/ Looks(h) \/ Responds(h) \/ Schedules(h)
      PROVE  UNCHANGED <<rpc, rbench, active>>
  BY <1>3 DEF Enters, Leaves, Takes, Looks, Responds, Schedules, benchCore
<1>4. ASSUME NEW b \in Benches, Fires(b)
      PROVE  UNCHANGED <<rpc, rbench, active>>
  BY <1>4 DEF Fires
<1>5. ASSUME NEW b \in Benches, Moves(b) \/ Collects(b) \/ Reports(b)
      PROVE  /\ rpc[b] \notin {"none", "spawned"}
             /\ \E to \in RunnerPlaces \ {"none", "spawned"} : rpc' = [rpc EXCEPT ![b] = to]
             /\ UNCHANGED <<rbench, active>>
  BY <1>5 DEF Moves, Collects, Reports, RunnerPlaces
<1> QED
  BY <1>1, <1>2, <1>3, <1>4, <1>5 DEF StepForm

(* A benchmark that was made stays made.                                   *)
LEMMA MadeStays ==
    ASSUME CoreTypes, StepForm
    PROVE  /\ \A b \in Benches : Made(b) => MadeThen(b)
           /\ \A b \in Benches : MadeThen(b) => Made(b) \/ Makes(b)
<1> USE DEF CoreTypes, BenchTypes, Made, MadeThen
<1>1. CASE UNCHANGED rpc
  BY <1>1
<1>2. ASSUME NEW h \in Conns, Makes(h)
      PROVE  /\ \A b \in Benches : Made(b) => MadeThen(b)
             /\ \A b \in Benches : MadeThen(b) => Made(b) \/ Makes(b)
  <2>1. rpc' = [rpc EXCEPT ![h] = "spawned"]
    BY <1>2 DEF Makes
  <2>2. \A b \in Benches : b # h => rpc'[b] = rpc[b]
    BY <2>1
  <2>3. \A b \in Benches : b = h => rpc'[b] = "spawned"
    BY <2>1
  <2> QED
    BY <1>2, <2>2, <2>3
<1>3. ASSUME NEW b \in Benches, rpc[b] # "none", NEW to \in RunnerPlaces, to # "none",
             rpc' = [rpc EXCEPT ![b] = to]
      PROVE  \A x \in Benches : Made(x) <=> MadeThen(x)
  <2>1. \A x \in Benches : x # b => rpc'[x] = rpc[x]
    BY <1>3
  <2>2. rpc'[b] = to
    BY <1>3
  <2> QED
    BY <1>3, <2>1, <2>2
<1>4. ASSUME NEW b \in Benches, Attaches(b)
      PROVE  \A x \in Benches : Made(x) <=> MadeThen(x)
  BY <1>3, <1>4 DEF Attaches, RunnerPlaces
<1> QED
  BY <1>1, <1>2, <1>3, <1>4, RunnersMove

(* What handlers and goroutines work on was made, and a goroutine that has *)
(* attached works on one.                                                  *)
LEMMA BeforeKept ==
    ASSUME CoreTypes, MadeInv, StepForm
    PROVE  MadeBefore' /\ Attached'
<1> USE DEF CoreTypes, BenchTypes, ConnTypes
<1>0. Conns = 1 .. MaxConns /\ Benches = Conns /\ MaxConns \in Nat /\ 0 \notin Conns
  BY Bounds
<1>1. \A g \in Conns : hbench'[g] \in {hbench[g], 0, active}
  BY DEF StepForm, connCore, Opens, Loses, Asks, Reads, Enters, Leaves, Takes, Looks, Responds,
       Makes, Schedules, Answers, Fires, Attaches, Moves, Collects, Reports
<1>2. \A x \in Benches : Made(x) => MadeThen(x)
  BY MadeStays
<1>3. active # 0 => active \in Benches /\ Made(active)
  BY <1>0 DEF MadeInv, MadeBefore
<1>4. \A g \in Conns : hbench'[g] # 0 => MadeThen(hbench'[g])
  <2>1. ASSUME NEW g \in Conns, hbench'[g] # 0 PROVE MadeThen(hbench'[g])
    <3>1. CASE hbench'[g] = hbench[g]
      <4>1. hbench[g] \in Benches /\ Made(hbench[g])
        BY <1>0, <2>1, <3>1 DEF MadeInv, MadeBefore
      <4> QED
        BY <1>2, <3>1, <4>1
    <3>2. CASE hbench'[g] = active
      BY <1>2, <1>3, <2>1, <3>2
    <3> QED
      BY <1>1, <2>1, <3>1, <3>2
  <2> QED
    BY <2>1
<1>R. ASSUME \A x \in Benches : rbench'[x] \in {rbench[x], active}
      PROVE  \A x \in Benches : rbench'[x] # 0 => MadeThen(rbench'[x])
  <2>1. ASSUME NEW x \in Benches, rbench'[x] # 0 PROVE MadeThen(rbench'[x])
    <3>1. CASE rbench'[x] = rbench[x]
      <4>1. rbench[x] \in Benches /\ Made(rbench[x])
        BY <1>0, <2>1, <3>1 DEF MadeInv, MadeBefore
      <4> QED
        BY <1>2, <3>1, <4>1
    <3>2. CASE rbench'[x] = active
      BY <1>2, <1>3, <2>1, <3>2
    <3> QED
      BY <1>R, <2>1, <3>1, <3>2
  <2> QED
    BY <2>1
<1>S. ASSUME active' = active, \A x \in Benches : MadeThen(x) => Made(x),
             \A x \in Benches : rbench'[x] \in {rbench[x], active}
      PROVE  MadeBefore'
  <2>1. active' # 0 => MadeThen(active')
    BY <1>2, <1>3, <1>S
  <2>2. \A x \in Benches : MadeThen(x) => active' # 0
    BY <1>S DEF MadeInv, MadeBefore
  <2> QED
    BY <1>4, <1>R, <1>S, <2>1, <2>2 DEF MadeBefore, Made, MadeThen
<1>5. CASE UNCHANGED <<rpc, rbench, active>>
  <2>1. MadeBefore'
    BY <1>5, <1>S DEF Made, MadeThen
  <2> QED
    BY <1>5, <2>1 DEF MadeInv, Attached
<1>6. ASSUME NEW h \in Conns, Makes(h)
      PROVE  MadeBefore' /\ Attached'
  <2>1. active' = h /\ h # 0 /\ rpc' = [rpc EXCEPT ![h] = "spawned"] /\ UNCHANGED rbench
    BY <1>0, <1>6 DEF Makes
  <2>2. rpc[h] = "none"
    BY <1>6 DEF Makes, MadeInv, Fresh, Made
  <2>3. Attached'
    BY <1>0, <2>1, <2>2 DEF MadeInv, Attached
  <2>4. MadeThen(active')
    BY <1>0, <2>1 DEF MadeThen
  <2> QED
    BY <1>4, <1>R, <2>1, <2>3, <2>4 DEF MadeBefore, Made, MadeThen
<1>7. ASSUME NEW b \in Benches, Attaches(b)
      PROVE  MadeBefore' /\ Attached'
  <2>1. /\ rpc[b] = "spawned" /\ rpc' = [rpc EXCEPT ![b] = "waitPrepare"]
        /\ rbench' = [rbench EXCEPT ![b] = active] /\ active' = active
    BY <1>7 DEF Attaches
  <2>2. active # 0
    BY <2>1 DEF MadeInv, MadeBefore, Made
  <2>3. Attached'
    BY <2>1, <2>2 DEF MadeInv, Attached
  <2>4. \A x \in Benches : rbench'[x] \in {rbench[x], active}
    BY <2>1
  <2>5. \A x \in Benches : MadeThen(x) => Made(x)
    BY <2>1 DEF MadeThen, Made
  <2> QED
    BY <1>S, <2>1, <2>3, <2>4, <2>5
<1>8. ASSUME NEW b \in Benches, rpc[b] \notin {"none", "spawned"},
             NEW to \in RunnerPlaces \ {"none", "spawned"}, rpc' = [rpc EXCEPT ![b] = to],
             UNCHANGED <<rbench, active>>
      PROVE  MadeBefore' /\ Attached'
  <2>1. Attached'
    BY <1>8 DEF MadeInv, Attached
  <2>2. \A x \in Benches : MadeThen(x) => Made(x)
    BY <1>8 DEF MadeThen, Made
  <2> QED
    BY <1>8, <1>S, <2>1, <2>2
<1> QED
  BY <1>5, <1>6, <1>7, <1>8, RunnersMove

(* A connection makes a benchmark once.                                    *)
LEMMA FreshKept ==
    ASSUME CoreTypes, ConnInv, MadeInv, StepForm
    PROVE  Fresh'
<1> USE DEF CoreTypes, ServerTypes, ConnTypes
<1>0. Ended = 10 /\ Len(Script) = 9 /\ Conns = 1 .. MaxConns /\ Benches = Conns
  BY Bounds
<1>M. ASSUME UNCHANGED rpc PROVE \A g \in Conns : Made(g)' <=> Made(g)
  BY <1>M DEF Made
<1>K. ASSUME UNCHANGED <<step, sconn, rpc>>,
             \A g \in Conns :
                 /\ hpc'[g] \in {"unused", "handshake"} => hpc[g] \in {"unused", "handshake"}
                 /\ inbox'[g] \in {0, inbox[g]}
                 /\ Idle(g)' => Idle(g)
      PROVE  Fresh'
  BY <1>K, <1>M, ServedConn DEF MadeInv, Fresh
<1>A. ASSUME NEW h \in Conns, NEW r, r # NoReply, AnswersAt(h, r),
             \A g \in Conns : g # h => (Made(g)' <=> Made(g))
      PROVE  Fresh'
  <2>1. ASSUME NEW g \in Conns, hpc'[g] \in {"unused", "handshake"} \/ inbox'[g] = 1
        PROVE  ~Made(g)'
    <3>1. g # h
      BY <1>A, <2>1 DEF AnswersAt
    <3> QED
      BY <1>A, <2>1, <3>1 DEF AnswersAt, MadeInv, Fresh
  <2>2. ASSUME NEW s \in Servers, sconn[s] # 0, step[s] = 1,
               reply'[sconn[s]] = NoReply /\ hpc'[sconn[s]] # "closed"
        PROVE  rpc'[sconn[s]] = "none"
    <3>1. sconn[s] # h
      BY <1>A, <2>2 DEF AnswersAt
    <3>2. sconn[s] \in Conns
      BY <2>2, ServedConn
    <3>3. Idle(sconn[s])
      BY <1>A, <2>2, <3>1, <3>2 DEF AnswersAt, Idle
    <3>4. ~Made(sconn[s])
      BY <2>2, <3>3 DEF MadeInv, Fresh
    <3>5. \A g \in Conns : g # h => (rpc'[g] = "none" <=> rpc[g] = "none")
      BY <1>A DEF Made
    <3> QED
      BY <3>1, <3>2, <3>4, <3>5 DEF Made
  <2> QED
    BY <1>A, <2>1, <2>2 DEF AnswersAt, Fresh, Idle, Made
<1>1. CASE UNCHANGED <<connCore, benchCore>>
  BY <1>1 DEF connCore, benchCore, MadeInv, Fresh, Made, Idle
<1>2. ASSUME NEW s \in Servers, Opens(s)
      PROVE  Fresh'
  <2>1. PICK h \in Conns :
            /\ sconn[s] = 0 /\ hpc[h] = "unused"
            /\ sconn' = [sconn EXCEPT ![s] = h]
            /\ hpc' = [hpc EXCEPT ![h] = "handshake"]
            /\ UNCHANGED <<step, inbox, reply, rpc>>
    BY <1>2 DEF Opens, benchCore
  <2>2. ~Made(h)
    BY <2>1 DEF MadeInv, Fresh
  <2>3. ASSUME NEW g \in Conns, hpc'[g] \in {"unused", "handshake"} \/ inbox'[g] = 1
        PROVE  ~Made(g)'
    BY <1>M, <2>1, <2>2, <2>3 DEF MadeInv, Fresh
  <2>4. ASSUME NEW t \in Servers, sconn'[t] # 0, step[t] = 1,
               reply[sconn'[t]] = NoReply /\ hpc'[sconn'[t]] # "closed"
        PROVE  rpc[sconn'[t]] = "none"
    <3>1. CASE t = s
      BY <2>1, <2>2, <3>1 DEF Made
    <3>2. CASE t # s
      <4>1. sconn'[t] = sconn[t] /\ sconn[t] \in Conns
        BY <2>1, <2>4, <3>2, ServedConn
      <4>2. sconn[t] # h
        BY <2>1, <2>4, <4>1 DEF ConnInv, Owned
      <4>3. Idle(sconn[t])
        BY <2>1, <2>4, <4>1, <4>2 DEF Idle
      <4> QED
        BY <2>4, <4>1, <4>3 DEF MadeInv, Fresh, Made
    <3> QED
      BY <3>1, <3>2
  <2> QED
    BY <2>1, <2>3, <2>4 DEF Fresh, Idle, Made
<1>3. ASSUME NEW s \in Servers, Loses(s)
      PROVE  Fresh'
  <2>1. /\ step' \in {step, [step EXCEPT ![s] = Ended]}
        /\ sconn' = [sconn EXCEPT ![s] = 0]
        /\ UNCHANGED <<inbox, reply, hpc, rpc>>
    BY <1>3 DEF Loses, benchCore
  <2>2. ASSUME NEW t \in Servers, sconn'[t] # 0
        PROVE  sconn'[t] = sconn[t] /\ step'[t] = step[t]
    BY <2>1, <2>2
  <2> QED
    BY <2>1, <2>2 DEF MadeInv, Fresh, Made, Idle
<1>4. ASSUME NEW s \in Servers, Asks(s)
      PROVE  Fresh'
  <2> DEFINE h == sconn[s]
  <2>1. /\ h # 0 /\ hpc[h] = "read" /\ reply[h] = NoReply
        /\ inbox' = [inbox EXCEPT ![h] = step[s]]
        /\ UNCHANGED <<reply, hpc, rpc>>
    BY <1>4 DEF Asks, benchCore
  <2>2. \/ UNCHANGED <<step, sconn>>
        \/ step' = [step EXCEPT ![s] = Ended] /\ sconn' = [sconn EXCEPT ![s] = 0]
    BY <1>4 DEF Asks
  <2>3. h \in Conns /\ (step[s] = 1 => ~Made(h))
    BY <2>1, ServedConn DEF MadeInv, Fresh, Idle
  <2>4. ASSUME NEW g \in Conns, hpc'[g] \in {"unused", "handshake"} \/ inbox'[g] = 1
        PROVE  ~Made(g)'
    <3>1. CASE g = h
      BY <1>M, <2>1, <2>3, <2>4, <3>1
    <3>2. CASE g # h
      BY <1>M, <2>1, <2>4, <3>2 DEF MadeInv, Fresh
    <3> QED
      BY <3>1, <3>2
  <2>5. ASSUME NEW t \in Servers, sconn'[t] # 0
        PROVE  sconn'[t] = sconn[t] /\ step'[t] = step[t]
    BY <2>2, <2>5
  <2> QED
    BY <2>1, <2>4, <2>5 DEF MadeInv, Fresh, Made, Idle
<1>5. ASSUME NEW s \in Servers, Reads(s)
      PROVE  Fresh'
  <2> DEFINE h == sconn[s]
  <2>1. /\ step[s] < Ended /\ h # 0 /\ reply[h] # NoReply
        /\ reply' = [reply EXCEPT ![h] = NoReply]
        /\ step' = [step EXCEPT ![s] = NextStep(s, reply[h])]
        /\ sconn' \in {sconn, [sconn EXCEPT ![s] = 0]}
        /\ UNCHANGED <<inbox, hpc, rpc>>
    BY <1>5 DEF Reads, benchCore
  <2>2. h \in Conns /\ reply[h] \in Reply
    BY <2>1, ServedConn
  <2>3. step[s] \in 1 .. Len(Script)
    BY <2>1, <1>0
  <2>4. NextStep(s, reply[h]) # 1
    BY <2>2, <2>3, <1>0, NextStepPlace
  <2>5. ASSUME NEW t \in Servers, sconn'[t] # 0, step'[t] = 1,
               reply'[sconn'[t]] = NoReply /\ hpc[sconn'[t]] # "closed"
        PROVE  rpc[sconn'[t]] = "none"
    <3>1. t # s
      BY <2>1, <2>4, <2>5
    <3>2. sconn'[t] = sconn[t] /\ step'[t] = step[t]
      BY <2>1, <3>1
    <3>3. sconn[t] # h /\ sconn[t] \in Conns
      BY <2>1, <2>5, <3>1, <3>2, ServedConn DEF ConnInv, Owned
    <3>4. Idle(sconn[t])
      BY <2>1, <2>5, <3>2, <3>3 DEF Idle
    <3> QED
      BY <2>5, <3>2, <3>4 DEF MadeInv, Fresh, Made
  <2> QED
    BY <2>1, <2>5 DEF MadeInv, Fresh, Made, Idle
<1>6. ASSUME NEW h \in Conns, Enters(h)
      PROVE  Fresh'
  <2>1. /\ hpc[h] = "handshake" /\ hpc' = [hpc EXCEPT ![h] = "read"]
        /\ UNCHANGED <<step, sconn, inbox, reply, rpc>>
    BY <1>6 DEF Enters, benchCore
  <2>2. \A g \in Conns :
            /\ hpc'[g] \in {"unused", "handshake"} => hpc[g] \in {"unused", "handshake"}
            /\ Idle(g)' => Idle(g)
    BY <2>1 DEF Idle
  <2> QED
    BY <1>K, <2>1, <2>2
<1>7. ASSUME NEW h \in Conns, Leaves(h)
      PROVE  Fresh'
  <2>1. /\ hpc' = [hpc EXCEPT ![h] = "closed"]
        /\ inbox' = [inbox EXCEPT ![h] = 0]
        /\ reply' \in {reply, [reply EXCEPT ![h] = NoReply]}
        /\ UNCHANGED <<step, sconn, rpc>>
    BY <1>7 DEF Leaves, benchCore
  <2>2. ASSUME NEW g \in Conns
        PROVE  /\ hpc'[g] \in {"unused", "handshake"} => hpc[g] \in {"unused", "handshake"}
               /\ inbox'[g] \in {0, inbox[g]}
               /\ Idle(g)' => Idle(g)
    BY <2>1 DEF Idle
  <2> QED
    BY <1>K, <2>1, <2>2
<1>8. ASSUME NEW h \in Conns, Takes(h) \/ Looks(h)
      PROVE  Fresh'
  <2>1. UNCHANGED <<step, sconn, inbox, reply, rpc>>
    BY <1>8 DEF Takes, Looks, benchCore
  <2>2. /\ hpc[h] \in {"read", "lookup"}
        /\ \E p \in {"lookup", "finish"} : hpc' = [hpc EXCEPT ![h] = p]
    BY <1>8 DEF Takes, Looks
  <2>3. ASSUME NEW g \in Conns
        PROVE  /\ hpc'[g] \in {"unused", "handshake"} => hpc[g] \in {"unused", "handshake"}
               /\ Idle(g)' => Idle(g)
    BY <2>1, <2>2 DEF Idle
  <2> QED
    BY <1>K, <2>1, <2>3
<1>9. ASSUME NEW h \in Conns, Responds(h)
      PROVE  Fresh'
  <2>1. PICK r \in Reply : r # NoReply /\ Answers(h, r) /\ UNCHANGED rpc
    BY <1>9 DEF Responds, benchCore
  <2> QED
    BY <1>A, <1>M, <2>1, Answered
<1>10. ASSUME NEW h \in Conns, Makes(h)
      PROVE  Fresh'
  <2>1. ReplyOk(h) # NoReply /\ AnswersAt(h, ReplyOk(h))
    <3>1. h \in 0 .. MaxConns
      BY <1>0, Bounds
    <3> QED
      BY <1>10, <3>1, Replies, Answered DEF Makes
  <2>2. \A g \in Conns : g # h => (Made(g)' <=> Made(g))
    BY <1>10, <1>0 DEF Makes, Made, BenchTypes
  <2> QED
    BY <1>A, <2>1, <2>2
<1>11. ASSUME NEW h \in Conns, Schedules(h)
      PROVE  Fresh'
  <2>1. ReplyOk(hbench[h]) # NoReply /\ AnswersAt(h, ReplyOk(hbench[h])) /\ UNCHANGED rpc
    BY <1>11, Replies, Answered DEF Schedules
  <2> QED
    BY <1>A, <1>M, <2>1
<1>12. ASSUME NEW b \in Benches,
              Fires(b) \/ Attaches(b) \/ Moves(b) \/ Collects(b) \/ Reports(b)
      PROVE  Fresh'
  <2>1. UNCHANGED <<step, sconn, inbox, reply, hpc>>
    BY <1>12 DEF Fires, Attaches, Moves, Collects, Reports, connCore
  <2>2. \A x \in Benches : ~Makes(x)
    BY <1>12, <2>1, <1>0 DEF Makes, Answers
  <2>3. \A g \in Conns : Made(g)' => Made(g)
    BY <1>0, <2>2, MadeStays DEF Made, MadeThen
  <2> QED
    BY <2>1, <2>3, ServedConn DEF MadeInv, Fresh, Idle, Made
<1> QED
  BY <1>1, <1>2, <1>3, <1>4, <1>5, <1>6, <1>7, <1>8, <1>9, <1>10, <1>11, <1>12 DEF StepForm

(* Together: what is said of benchmarks is kept.                           *)
LEMMA MadeInvKept ==
    ASSUME CoreTypes, ConnInv, MadeInv, StepForm
    PROVE  MadeInv'
  BY BeforeKept, FreshKept DEF MadeInv

-----------------------------------------------------------------------------
(* Starts of stages.  A handler is about to start a stage only when it has *)
(* just looked at it.                                                      *)
StartsThen(g, b, st) ==
    /\ hpc'[g] = "finish" /\ hbench'[g] = b
    /\ Script[inbox'[g]].op = "start_stage" /\ Script[inbox'[g]].stage = st

(* Whoever is about to start a stage was so before, or has just looked.    *)
LEMMA StartersKept ==
    ASSUME CoreTypes, ConnInv, StepForm, NEW b, NEW st, NEW g \in Conns,
           StartsThen(g, b, st)
    PROVE  \/ g \in Starting(b, st)
           \/ Looks(g) /\ hbench[g] = b /\ Script[inbox[g]].stage = st
<1> USE DEF CoreTypes, ConnTypes, StartsThen, Starting, Continues
<1>A. ASSUME NEW h \in Conns, NEW r, Answers(h, r)
      PROVE  g \in Starting(b, st)
  <2>1. AnswersAt(h, r)
    BY <1>A, Answered
  <2> QED
    BY <2>1 DEF AnswersAt
<1>1. CASE UNCHANGED <<inbox, hpc, hbench>>
  BY <1>1
<1>2. ASSUME NEW s \in Servers, Opens(s) \/ Asks(s)
      PROVE  g \in Starting(b, st)
  <2>1. hpc[g] = "finish"
    BY <1>2 DEF Opens, Asks
  <2>2. inbox'[g] = inbox[g] /\ hbench'[g] = hbench[g]
    BY <1>2, <2>1 DEF Opens, Asks
  <2> QED
    BY <2>1, <2>2
<1>3. ASSUME NEW h \in Conns, Enters(h) \/ Leaves(h)
      PROVE  g \in Starting(b, st)
  BY <1>3 DEF Enters, Leaves
<1>4. ASSUME NEW h \in Conns, Takes(h)
      PROVE  g \in Starting(b, st)
  <2>1. inbox[h] \notin {1, 6} => hpc'[h] = "lookup"
    BY <1>4 DEF Takes
  <2>2. g # h
    <3>1. Script[1].op # "start_stage" /\ Script[6].op # "start_stage"
      BY ScriptOps DEF Req
    <3>2. inbox' = inbox
      BY <1>4 DEF Takes
    <3> QED
      BY <2>1, <3>1, <3>2
  <2> QED
    BY <1>4, <2>2 DEF Takes
<1>5. ASSUME NEW h \in Conns, Looks(h)
      PROVE  \/ g \in Starting(b, st)
             \/ Looks(g) /\ hbench[g] = b /\ Script[inbox[g]].stage = st
  BY <1>5 DEF Looks
<1>6. ASSUME NEW h \in Conns, Responds(h) \/ Makes(h) \/ Schedules(h)
      PROVE  g \in Starting(b, st)
  BY <1>6, <1>A DEF Responds, Makes, Schedules
<1>7. ASSUME NEW x \in Benches,
             Fires(x) \/ Attaches(x) \/ Moves(x) \/ Collects(x) \/ Reports(x)
      PROVE  UNCHANGED <<inbox, hpc, hbench>>
  BY <1>7 DEF Fires, Attaches, Moves, Collects, Reports, connCore
<1>8. ASSUME NEW s \in Servers, Loses(s) \/ Reads(s)
      PROVE  UNCHANGED <<inbox, hpc, hbench>>
  BY <1>8 DEF Loses, Reads
<1> QED
  BY <1>1, <1>2, <1>3, <1>4, <1>5, <1>6, <1>7, <1>8 DEF StepForm, connCore

(* The start and its closes change only where a stage is scheduled or its  *)
(* timer fires.                                                            *)
LEMMA StartsChange ==
    ASSUME StepForm
    PROVE  \/ UNCHANGED <<requested, timers, startCh, overlapped>>
           \/ \E h \in Conns : Looks(h) \/ Schedules(h)
           \/ \E b \in Benches : Fires(b)
<1>1. CASE UNCHANGED <<connCore, benchCore>>
  BY <1>1 DEF benchCore
<1>2. ASSUME NEW s \in Servers, Opens(s) \/ Loses(s) \/ Asks(s) \/ Reads(s)
      PROVE  UNCHANGED <<requested, timers, startCh, overlapped>>
  BY <1>2 DEF Opens, Loses, Asks, Reads, benchCore
<1>3. ASSUME NEW h \in Conns, Enters(h) \/ Leaves(h) \/ Takes(h) \/ Responds(h) \/ Makes(h)
      PROVE  UNCHANGED <<requested, timers, startCh, overlapped>>
  BY <1>3 DEF Enters, Leaves, Takes, Responds, Makes, benchCore
<1>4. ASSUME NEW b \in Benches, Attaches(b) \/ Moves(b) \/ Collects(b) \/ Reports(b)
      PROVE  UNCHANGED <<requested, timers, startCh, overlapped>>
  BY <1>4 DEF Attaches, Moves, Collects, Reports
<1> QED
  BY <1>1, <1>2, <1>3, <1>4 DEF StepForm

(* One benchmark and stage.                                                *)
StartedOnceOf(b, st) ==
    /\ ~requested[b][st] => ~Scheduled(b, st)
    /\ <<b, st>> \notin overlapped =>
           /\ timers[b][st] + startCh[b][st] <= 1
           /\ \A g, h \in Starting(b, st) : g = h
           /\ Starting(b, st) # {} => ~requested[b][st]

(* A start channel is closed by one timer, unless handlers overlap.        *)
LEMMA StartedOnceKept ==
    ASSUME CoreTypes, ConnInv, StartedOnce, StepForm
    PROVE  StartedOnce'
<1> USE DEF CoreTypes, BenchTypes
<1>1. SUFFICES ASSUME NEW b \in Benches, NEW st \in Stages
               PROVE  StartedOnceOf(b, st)'
  BY DEF StartedOnce, StartedOnceOf
<1>2. StartedOnceOf(b, st)
  BY DEF StartedOnce, StartedOnceOf
<1>3. timers[b][st] \in Nat /\ startCh[b][st] \in Nat /\ requested[b][st] \in BOOLEAN
  OBVIOUS
<1>4. Starting(b, st)' = {g \in Conns : StartsThen(g, b, st)}
  BY DEF Starting, StartsThen, Continues
<1>K. ASSUME timers'[b][st] = timers[b][st], startCh'[b][st] = startCh[b][st],
             requested'[b][st] = requested[b][st],
             <<b, st>> \notin overlapped' => <<b, st>> \notin overlapped,
             \A g \in Conns : StartsThen(g, b, st) => g \in Starting(b, st)
      PROVE  StartedOnceOf(b, st)'
  <2>1. Starting(b, st)' \subseteq Starting(b, st)
    BY <1>4, <1>K
  <2> QED
    BY <1>2, <1>K, <2>1 DEF StartedOnceOf, Scheduled
<1>5. ASSUME ~ \E h \in Conns : Looks(h), UNCHANGED <<requested, timers, startCh, overlapped>>
      PROVE  StartedOnceOf(b, st)'
  BY <1>5, <1>K, StartersKept
<1>6. ASSUME NEW h \in Conns, Looks(h)
      PROVE  StartedOnceOf(b, st)'
  <2> DEFINE c  == hbench[h]
             sc == Script[inbox[h]].stage
  <2>1. /\ ~requested[c][sc] /\ hpc[h] = "lookup"
        /\ overlapped' = IF Starting(c, sc) = {} THEN overlapped
                         ELSE overlapped \cup {<<c, sc>>}
        /\ UNCHANGED <<requested, startCh, timers>>
    BY <1>6 DEF Looks
  <2>2. \A g \in Conns : Looks(g) => g = h
    <3>1. ASSUME NEW g \in Conns, Looks(g), g # h PROVE FALSE
      <4>1. hpc[g] = "lookup" /\ hpc'[g] = "finish"
        BY <3>1 DEF Looks, ConnTypes
      <4>2. hpc'[g] = hpc[g]
        BY <1>6, <3>1 DEF Looks, ConnTypes
      <4> QED
        BY <4>1, <4>2
    <3> QED
      BY <3>1
  <2>3. CASE c # b \/ sc # st
    <3>1. \A g \in Conns : StartsThen(g, b, st) => g \in Starting(b, st)
      BY <2>2, <2>3, StartersKept
    <3>2. <<b, st>> \notin overlapped' => <<b, st>> \notin overlapped
      BY <2>1
    <3> QED
      BY <1>K, <2>1, <3>1, <3>2
  <2>4. CASE c = b /\ sc = st
    <3>1. \A g \in Conns : StartsThen(g, b, st) => g \in Starting(b, st) \/ g = h
      BY <2>2, StartersKept
    <3>2. ASSUME <<b, st>> \notin overlapped'
          PROVE  Starting(b, st) = {} /\ <<b, st>> \notin overlapped
      BY <2>1, <2>4, <3>2
    <3>3. Scheduled(b, st)' <=> Scheduled(b, st)
      BY <2>1 DEF Scheduled
    <3>4. \A g \in Starting(b, st)' : <<b, st>> \notin overlapped' => g = h
      BY <1>4, <3>1, <3>2
    <3> QED
      BY <1>2, <2>1, <2>4, <3>2, <3>3, <3>4 DEF StartedOnceOf
  <2> QED
    BY <2>3, <2>4
<1>7. ASSUME NEW h \in Conns, Schedules(h)
      PROVE  StartedOnceOf(b, st)'
  <2> DEFINE c  == hbench[h]
             sc == Script[inbox[h]].stage
  <2>1. /\ requested' = [requested EXCEPT ![c][sc] = TRUE]
        /\ timers' = [timers EXCEPT ![c][sc] = @ + 1]
        /\ UNCHANGED <<startCh, overlapped>>
    BY <1>7 DEF Schedules
  <2>2. c \in Benches /\ sc \in Stages /\ Script[inbox[h]].op = "start_stage"
    BY <1>7, StartsOf
  <2>3. hpc[h] = "finish" /\ AnswersAt(h, ReplyOk(c))
    BY <1>7, Answered DEF Schedules
  <2>4. \A g \in Conns : StartsThen(g, b, st) => g \in Starting(b, st) \ {h}
    <3>1. \A g \in Conns : ~ Looks(g)
      BY <2>1, <2>3 DEF AnswersAt, Looks
    <3> QED
      BY <2>3, <3>1, StartersKept DEF AnswersAt, StartsThen
  <2>5. CASE c # b \/ sc # st
    <3>1. timers'[b][st] = timers[b][st] /\ requested'[b][st] = requested[b][st]
      BY <2>1, <2>2, <2>5
    <3> QED
      BY <1>K, <2>1, <2>4, <3>1
  <2>6. CASE c = b /\ sc = st
    <3>1. h \in Starting(b, st)
      BY <2>2, <2>3, <2>6 DEF Starting, Continues
    <3>2. timers'[b][st] = timers[b][st] + 1 /\ requested'[b][st] = TRUE
      BY <2>1, <2>2, <2>6
    <3>3. ASSUME <<b, st>> \notin overlapped
          PROVE  timers[b][st] + startCh[b][st] <= 1 /\ timers[b][st] = 0 /\ startCh[b][st] = 0
      BY <1>2, <1>3, <3>1, <3>3 DEF StartedOnceOf, Scheduled
    <3>4. ASSUME <<b, st>> \notin overlapped
          PROVE  Starting(b, st)' = {}
      BY <1>2, <1>4, <2>4, <3>1, <3>4 DEF StartedOnceOf
    <3>5. ASSUME <<b, st>> \notin overlapped
          PROVE  timers'[b][st] + startCh'[b][st] <= 1
      BY <1>3, <2>1, <3>2, <3>3, <3>5
    <3> QED
      BY <2>1, <3>2, <3>4, <3>5 DEF StartedOnceOf
  <2> QED
    BY <2>5, <2>6
<1>8. ASSUME NEW x \in Benches, Fires(x)
      PROVE  StartedOnceOf(b, st)'
  <2>1. PICK sx \in Stages :
            /\ timers[x][sx] > 0
            /\ timers' = [timers EXCEPT ![x][sx] = @ - 1]
            /\ startCh' = [startCh EXCEPT ![x][sx] = @ + 1]
            /\ UNCHANGED <<connCore, requested, overlapped>>
    BY <1>8 DEF Fires
  <2>2. \A g \in Conns : StartsThen(g, b, st) => g \in Starting(b, st)
    BY <2>1 DEF connCore, StartsThen, Starting, Continues
  <2>3. CASE x # b \/ sx # st
    <3>1. timers'[b][st] = timers[b][st] /\ startCh'[b][st] = startCh[b][st]
      BY <2>1, <2>3
    <3> QED
      BY <1>K, <2>1, <2>2, <3>1
  <2>4. CASE x = b /\ sx = st
    <3>1. timers'[b][st] = timers[b][st] - 1 /\ startCh'[b][st] = startCh[b][st] + 1
      BY <2>1, <2>4
    <3>2. timers'[b][st] + startCh'[b][st] = timers[b][st] + startCh[b][st]
      BY <1>3, <3>1
    <3>3. requested[b][st]
      BY <1>2, <2>1, <2>4 DEF StartedOnceOf, Scheduled
    <3>4. Starting(b, st)' \subseteq Starting(b, st)
      BY <1>4, <2>2
    <3> QED
      BY <1>2, <2>1, <3>2, <3>3, <3>4 DEF StartedOnceOf
  <2> QED
    BY <2>3, <2>4
<1>9. ASSUME ~ \E h \in Conns : Looks(h)
      PROVE  StartedOnceOf(b, st)'
  BY <1>5, <1>7, <1>8, <1>9, StartsChange
<1> QED
  BY <1>6, <1>9

(* A stage that is scheduled, and one that runs, was asked for.            *)
LEMMA ScheduledAskedKept ==
    ASSUME CoreTypes, ConnInv, MadeInv, ScheduledAsked, NotAhead, StepForm
    PROVE  ScheduledAsked' /\ NotAhead'
<1> USE DEF CoreTypes, BenchTypes
<1>A. \A i \in Nat : AskedFor(i) => AskedThen(i)
  BY AskedStays DEF ConnInv
<1>B. \A st \in Stages : StartOf[st] \in Nat
  BY DEF StartOf, Stages
<1>1. ASSUME NEW b \in Benches, NEW st \in Stages, Scheduled(b, st)'
      PROVE  AskedThen(StartOf[st])
  <2>1. CASE Scheduled(b, st)
    BY <1>A, <1>B, <2>1 DEF ScheduledAsked
  <2>2. CASE ~Scheduled(b, st)
    <3>1. ~ UNCHANGED <<timers, startCh>>
      BY <1>1, <2>2 DEF Scheduled
    <3>2. ASSUME NEW x \in Benches, Fires(x) PROVE Scheduled(b, st)
      <4>1. PICK sx \in Stages : /\ timers[x][sx] > 0
                                 /\ timers' = [timers EXCEPT ![x][sx] = @ - 1]
                                 /\ startCh' = [startCh EXCEPT ![x][sx] = @ + 1]
        BY <3>2 DEF Fires
      <4> QED
        BY <1>1, <4>1 DEF Scheduled
    <3>3. PICK h \in Conns : Schedules(h)
      BY <2>2, <3>1, <3>2, StartsChange DEF Looks
    <3>4. /\ hbench[h] \in Benches /\ Script[inbox[h]].stage \in Stages
          /\ inbox[h] \in {2, 4, 7} /\ StartOf[Script[inbox[h]].stage] = inbox[h]
      BY <3>3, StartsOf
    <3>5. Script[inbox[h]].stage = st
      BY <1>1, <2>2, <3>3, <3>4 DEF Schedules, Scheduled
    <3>6. AskedFor(inbox[h])
      BY <3>4 DEF ConnInv, Written
    <3> QED
      BY <1>A, <3>4, <3>5, <3>6
  <2> QED
    BY <2>1, <2>2
<1>2. ScheduledAsked'
  BY <1>1 DEF ScheduledAsked, AskedFor, AskedThen
<1>3. \A st \in Stages : \A c \in Benches : startCh[c][st] > 0 => AskedThen(StartOf[st])
  BY <1>A, <1>B DEF ScheduledAsked, Scheduled
<1>4. ASSUME NEW b \in Benches
      PROVE  /\ rpc'[b] = "prepare" => AskedThen(2)
             /\ rpc'[b] = "running" => AskedThen(4)
             /\ rpc'[b] = "cleanup" => AskedThen(7)
  <2>1. CASE rpc'[b] = rpc[b] \/ rpc'[b] \notin {"prepare", "running", "cleanup"}
    BY <1>A, <2>1 DEF NotAhead
  <2>2. CASE rpc'[b] # rpc[b] /\ rpc'[b] \in {"prepare", "running", "cleanup"}
    <3>1. Moves(b)
      <4>1. ASSUME NEW x \in Benches, x # b,
                   Attaches(x) \/ Moves(x) \/ Collects(x) \/ Reports(x)
            PROVE  FALSE
        BY <2>2, <4>1 DEF Attaches, Moves, Collects, Reports
      <4>2. ~ (Attaches(b) \/ Collects(b) \/ Reports(b))
        BY <2>2 DEF Attaches, Collects, Reports
      <4>3. \A h \in Conns : ~Makes(h)
        BY <2>2 DEF Makes
      <4> QED
        BY <2>2, <4>1, <4>2, <4>3 DEF StepForm, benchCore, Opens, Loses, Asks, Reads, Enters,
           Leaves, Takes, Looks, Responds, Schedules, Fires
    <3>2. \E st \in Stages :
              /\ startCh[rbench[b]][st] > 0
              /\ rpc'[b] = "prepare" => st = "prepare"
              /\ rpc'[b] = "running" => st = "benchmark"
              /\ rpc'[b] = "cleanup" => st = "cleanup"
      BY <2>2, <3>1 DEF Moves, Stages
    <3>3. rbench[b] \in Benches
      BY <3>1, WorksOn DEF Moves
    <3> QED
      BY <1>3, <3>2, <3>3 DEF StartOf
  <2> QED
    BY <2>1, <2>2
<1> QED
  BY <1>2, <1>4 DEF NotAhead, AskedFor, AskedThen

(* Together: what is said of starts is kept.                               *)
LEMMA StartInvKept ==
    ASSUME CoreTypes, ConnInv, MadeInv, StartInv, StepForm
    PROVE  StartInv'
  BY StartedOnceKept, ScheduledAskedKept DEF StartInv

-----------------------------------------------------------------------------
(* Goroutines.  One that is alone on its benchmark reports a stage once;   *)
(* results are there before the benchmark stage is reported done.          *)
AloneThen(b) == \A x \in Benches \ {b} : rbench'[x] # b

(* Nobody leaves a benchmark: one that is alone was alone before.          *)
LEMMA AloneBefore ==
    ASSUME CoreTypes, MadeInv, StepForm, NEW b \in Benches, AloneThen(b)
    PROVE  Alone(b)
<1> USE DEF CoreTypes, BenchTypes
<1>1. SUFFICES ASSUME NEW x \in Benches, x # b, rbench[x] = b
               PROVE  rbench'[x] = rbench[x]
  BY DEF Alone, AloneThen
<1>2. rbench[x] # 0
  BY <1>1, Bounds
<1>3. rpc[x] # "spawned"
  BY <1>2 DEF MadeInv, Attached
<1>4. ASSUME NEW y \in Benches, Attaches(y)
      PROVE  rbench'[x] = rbench[x]
  BY <1>3, <1>4 DEF Attaches
<1> QED
  BY <1>4, RunnersMove DEF Makes

(* Results do not go back to nothing.                                      *)
LEMMA ResultsStay ==
    ASSUME CoreTypes, StepForm
    PROVE  \A b \in Benches : results[b] # "nil" => results'[b] # "nil"
<1> USE DEF CoreTypes, BenchTypes
<1>1. ASSUME NEW x \in Benches, Collects(x)
      PROVE  \A b \in Benches : results[b] # "nil" => results'[b] # "nil"
  BY <1>1 DEF Collects
<1>2. ASSUME ~ \E x \in Benches : Collects(x)
      PROVE  UNCHANGED results
  BY <1>2 DEF StepForm, benchCore, Opens, Loses, Asks, Reads, Enters, Leaves, Takes, Looks,
     Responds, Makes, Schedules, Fires, Attaches, Moves, Reports
<1> QED
  BY <1>1, <1>2

(* Stages are reported by reports only.                                    *)
LEMMA DoneChange ==
    ASSUME StepForm
    PROVE  UNCHANGED doneCh \/ \E b \in Benches : Reports(b)
  BY DEF StepForm, benchCore, Opens, Loses, Asks, Reads, Enters, Leaves, Takes, Looks,
     Responds, Makes, Schedules, Fires, Attaches, Moves, Collects

(* A benchmark's own goroutine works on its benchmark if it is alone: what *)
(* it found is what the others do not work on.                             *)
LEMMA CollectedKept ==
    ASSUME CoreTypes, MadeInv, RunnerInv, StepForm
    PROVE  Collected'
<1> USE DEF CoreTypes, BenchTypes
<1>1. \A b \in Benches : results[b] # "nil" => results'[b] # "nil"
  BY ResultsStay
<1>2. ASSUME NEW b \in Benches, doneCh'[b]["benchmark"] > 0
      PROVE  results'[b] # "nil"
  <2>1. CASE UNCHANGED doneCh
    BY <1>1, <1>2, <2>1 DEF RunnerInv, Collected
  <2>2. ASSUME NEW x \in Benches, Reports(x)
        PROVE  results'[b] # "nil"
    <3>1. PICK st \in Stages :
              /\ st = "benchmark" => rpc[x] = "report"
              /\ doneCh' = [doneCh EXCEPT ![rbench[x]][st] = @ + 1]
      BY <2>2 DEF Reports
    <3>2. CASE rbench[x] = b /\ st = "benchmark"
      BY <1>1, <3>1, <3>2 DEF RunnerInv, Collected
    <3>3. CASE ~ (rbench[x] = b /\ st = "benchmark")
      <4>1. doneCh'[b]["benchmark"] = doneCh[b]["benchmark"]
        BY <3>1, <3>3 DEF Stages
      <4> QED
        BY <1>1, <1>2, <4>1 DEF RunnerInv, Collected
    <3> QED
      BY <3>2, <3>3
  <2> QED
    BY <2>1, <2>2, DoneChange
<1>3. ASSUME NEW b \in Benches, rpc'[b] = "report"
      PROVE  results'[rbench'[b]] # "nil"
  <2>1. ASSUME NEW x \in Benches, Collects(x)
        PROVE  results'[rbench'[b]] # "nil"
    <3>1. UNCHANGED rbench
      BY <2>1 DEF Collects
    <3>2. CASE x = b
      <4>1. rbench[b] \in Benches
        BY <2>1, <3>2, WorksOn DEF Collects
      <4>2. PICK v \in {"full", "torn"} : results' = [results EXCEPT ![rbench[b]] = v]
        BY <2>1, <3>2 DEF Collects
      <4> QED
        BY <3>1, <4>1, <4>2
    <3>3. CASE x # b
      <4>1. rpc[b] = "report"
        BY <1>3, <2>1, <3>3 DEF Collects
      <4>2. rbench[b] \in Benches
        BY <4>1, WorksOn
      <4> QED
        BY <1>1, <3>1, <4>1, <4>2 DEF RunnerInv, Collected
    <3> QED
      BY <3>2, <3>3
  <2>2. ASSUME rpc[b] = "report", rbench'[b] = rbench[b]
        PROVE  results'[rbench'[b]] # "nil"
    <3>1. rbench[b] \in Benches
      BY <2>2, WorksOn
    <3> QED
      BY <1>1, <2>2, <3>1 DEF RunnerInv, Collected
  <2>3. ASSUME ~ \E x \in Benches : Collects(x)
        PROVE  rpc[b] = "report" /\ rbench'[b] = rbench[b]
    <3>1. ASSUME NEW x \in Benches, Attaches(x) \/ Moves(x) \/ Reports(x)
          PROVE  rpc[b] = "report" /\ rbench'[b] = rbench[b]
      <4>1. x # b
        BY <1>3, <3>1 DEF Attaches, Moves, Reports
      <4> QED
        BY <1>3, <3>1, <4>1 DEF Attaches, Moves, Reports
    <3>2. ASSUME NEW h \in Conns, Makes(h)
          PROVE  rpc[b] = "report" /\ rbench'[b] = rbench[b]
      BY <1>3, <3>2 DEF Makes
    <3>3. ASSUME UNCHANGED <<rpc, rbench>>
          PROVE  rpc[b] = "report" /\ rbench'[b] = rbench[b]
      BY <1>3, <3>3
    <3> QED
      BY <2>3, <3>1, <3>2, <3>3 DEF StepForm, benchCore, Opens, Loses, Asks, Reads, Enters,
         Leaves, Takes, Looks, Responds, Schedules, Fires
  <2> QED
    BY <2>1, <2>2, <2>3
<1> QED
  BY <1>2, <1>3 DEF Collected

(* What a goroutine that is alone has reported, by where it is.            *)
LEMMA DoneOnceKept ==
    ASSUME CoreTypes, MadeInv, RunnerInv, StepForm, NEW b \in Benches, AloneThen(b)
    PROVE  DoneOnce(b)'
<1> USE DEF CoreTypes, BenchTypes
<1>1. Alone(b) /\ DoneOnce(b)
  BY AloneBefore DEF RunnerInv
<1>D. \A st \in Stages : doneCh[b][st] \in Nat
  OBVIOUS
<1>2. ASSUME doneCh'[b] = doneCh[b],
             \/ rpc'[b] = rpc[b]
             \/ /\ rpc[b] \notin {"sort", "sorting", "waitCleanup", "cleanup", "finished"}
                /\ rpc'[b] \in {"finished", "sort", "sorting", "waitCleanup", "cleanup"}
                /\ \/ rpc[b] \notin {"none", "spawned", "waitPrepare", "prepare"}
                   \/ rpc'[b] = "finished"
             \/ /\ rpc[b] \in {"none", "spawned", "waitPrepare"}
                /\ rpc'[b] \in {"spawned", "waitPrepare", "prepare"}
             \/ rpc[b] \in {"waitStart", "running"} /\ rpc'[b] \in {"running", "report"}
             \/ rpc[b] \in {"sort", "sorting", "waitCleanup"}
                /\ rpc'[b] \in {"sorting", "waitCleanup", "cleanup", "finished"}
      PROVE  DoneOnce(b)'
  BY <1>1, <1>2 DEF DoneOnce
<1>3. ASSUME NEW x \in Benches, Attaches(x) \/ Moves(x) \/ Collects(x)
      PROVE  DoneOnce(b)'
  <2>1. doneCh'[b] = doneCh[b]
    BY <1>3 DEF Attaches, Moves, Collects
  <2>2. CASE x # b
    <3>1. rpc'[b] = rpc[b]
      BY <1>3, <2>2 DEF Attaches, Moves, Collects
    <3> QED
      BY <1>2, <2>1, <3>1
  <2>3. CASE x = b
    <3>1. \/ rpc[b] = "spawned" /\ rpc'[b] = "waitPrepare"
          \/ rpc[b] = "waitPrepare" /\ rpc'[b] = "prepare"
          \/ rpc[b] = "waitStart" /\ rpc'[b] = "running"
          \/ rpc[b] = "waitCleanup" /\ rpc'[b] = "cleanup"
          \/ rpc[b] \in {"waitPrepare", "waitCleanup"} /\ rpc'[b] = "finished"
          \/ rpc[b] = "running" /\ rpc'[b] = "report"
          \/ rpc[b] = "sort" /\ rpc'[b] = "sorting"
          \/ rpc[b] = "sorting" /\ rpc'[b] = "waitCleanup"
      BY <1>3, <2>3 DEF Attaches, Moves, Collects
    <3> QED
      BY <1>2, <2>1, <3>1
  <2> QED
    BY <2>2, <2>3
<1>4. ASSUME NEW h \in Conns, Makes(h)
      PROVE  DoneOnce(b)'
  <2>1. doneCh'[b] = doneCh[b]
    BY <1>4 DEF Makes
  <2>2. CASE h = b
    <3>1. rpc[b] = "none" /\ rpc'[b] = "spawned"
      BY <1>4, <2>2 DEF Makes, MadeInv, Fresh, Made
    <3> QED
      BY <1>2, <2>1, <3>1
  <2>3. CASE h # b
    <3>1. rpc'[b] = rpc[b]
      BY <1>4, <2>3 DEF Makes
    <3> QED
      BY <1>2, <2>1, <3>1
  <2> QED
    BY <2>2, <2>3
<1>5. ASSUME NEW x \in Benches, Reports(x)
      PROVE  DoneOnce(b)'
  <2>1. PICK st \in Stages :
            /\ \/ /\ st = "prepare" /\ rpc[x] = "prepare"
                  /\ \E to \in {"waitStart", "finished"} : rpc' = [rpc EXCEPT ![x] = to]
               \/ st = "benchmark" /\ rpc[x] = "report" /\ rpc' = [rpc EXCEPT ![x] = "sort"]
               \/ st = "cleanup" /\ rpc[x] = "cleanup" /\ rpc' = [rpc EXCEPT ![x] = "finished"]
            /\ doneCh' = [doneCh EXCEPT ![rbench[x]][st] = @ + 1]
    BY <1>5 DEF Reports
  <2>2. UNCHANGED rbench
    BY <1>5 DEF Reports
  <2>3. CASE x # b
    <3>1. rbench[x] # b
      BY <1>1, <2>3 DEF Alone
    <3>2. doneCh'[b] = doneCh[b] /\ rpc'[b] = rpc[b]
      BY <2>1, <2>3, <3>1
    <3> QED
      BY <1>2, <3>2
  <2>4. CASE x = b
    <3>1. \A s \in Stages :
              doneCh'[b][s] \in {doneCh[b][s], IF s = st THEN doneCh[b][s] + 1 ELSE doneCh[b][s]}
      BY <2>1, <2>4
    <3>2. CASE st = "prepare"
      <4>1. rpc[b] = "prepare" /\ rpc'[b] \in {"waitStart", "finished"}
        BY <2>1, <2>4, <3>2
      <4>2. /\ doneCh[b]["prepare"] = 0 /\ doneCh[b]["benchmark"] = 0 /\ doneCh[b]["cleanup"] = 0
        BY <1>1, <4>1 DEF DoneOnce
      <4> QED
        BY <3>1, <3>2, <4>1, <4>2 DEF DoneOnce, Stages
    <3>3. CASE st = "benchmark"
      <4>1. rpc[b] = "report" /\ rpc'[b] = "sort"
        BY <2>1, <2>4, <3>3
      <4>2. doneCh[b]["prepare"] <= 1 /\ doneCh[b]["benchmark"] = 0 /\ doneCh[b]["cleanup"] = 0
        BY <1>1, <4>1 DEF DoneOnce, Stages
      <4> QED
        BY <3>1, <3>3, <4>1, <4>2 DEF DoneOnce, Stages
    <3>4. CASE st = "cleanup"
      <4>1. rpc[b] = "cleanup" /\ rpc'[b] = "finished"
        BY <2>1, <2>4, <3>4
      <4>2. doneCh[b]["prepare"] <= 1 /\ doneCh[b]["benchmark"] <= 1 /\ doneCh[b]["cleanup"] = 0
        BY <1>1, <4>1 DEF DoneOnce, Stages
      <4> QED
        BY <3>1, <3>4, <4>1, <4>2 DEF DoneOnce, Stages
    <3> QED
      BY <3>2, <3>3, <3>4 DEF Stages
  <2> QED
    BY <2>3, <2>4
<1>6. ASSUME UNCHANGED <<rpc, doneCh>>
      PROVE  DoneOnce(b)'
  BY <1>1, <1>6 DEF DoneOnce
<1> QED
  BY <1>3, <1>4, <1>5, <1>6 DEF StepForm, benchCore, Opens, Loses, Asks, Reads, Enters, Leaves,
     Takes, Looks, Responds, Schedules, Fires

(* Together: what is said of goroutines is kept.                           *)
LEMMA RunnerInvKept ==
    ASSUME CoreTypes, MadeInv, RunnerInv, StepForm
    PROVE  RunnerInv'
<1>1. \A b \in Benches : Alone(b)' => DoneOnce(b)'
  BY DoneOnceKept DEF Alone, AloneThen
<1> QED
  BY <1>1, CollectedKept DEF RunnerInv

-----------------------------------------------------------------------------
(* Operations.  What is told and what is sent.                             *)
OpsThen(b) == b # 0 /\ results'[b] # "nil"

(* A reply to the coordinator that was told has operations.                *)
LEMMA OpsInvKept ==
    ASSUME CoreTypes, ConnInv, OpsInv, StepForm
    PROVE  OpsInv'
<1> USE DEF CoreTypes, ServerTypes, ConnTypes
<1>0. Ended = 10 /\ Len(Script) = 9 /\ Conns = 1 .. MaxConns /\ Benches = Conns /\ MaxConns \in Nat
  BY Bounds
<1>1. \A b \in 0 .. MaxConns : OpsOf(b) => OpsThen(b)
  BY <1>0, ResultsStay DEF OpsOf, OpsThen
<1>2. \A s \in Servers : told[s] # 0 => OpsThen(told[s])
  BY <1>1 DEF OpsInv
<1>N. ASSUME NEW s \in Servers, NEW r \in Reply, step'[s] = step[s], told'[s] = told[s],
             Tells(s, r)
      PROVE  r # NoReply /\ ~r.err =>
                 /\ step'[s] = 5 /\ r.finished => OpsThen(r.bench)
                 /\ step'[s] = 6 /\ r.bench = told'[s] => r.ops # "nil"
  <2>1. r.bench \in 0 .. MaxConns
    BY DEF Reply
  <2> QED
    BY <1>1, <1>N, <2>1 DEF Tells
<1>K. ASSUME UNCHANGED <<step, told>>,
             \A s \in Servers : sconn'[s] # 0 =>
                 \/ reply'[sconn'[s]] = NoReply
                 \/ sconn'[s] = sconn[s] /\ reply'[sconn[s]] = reply[sconn[s]]
      PROVE  OpsInv'
  <2>1. ASSUME NEW s \in Servers, sconn'[s] # 0, reply'[sconn'[s]] # NoReply,
               ~reply'[sconn'[s]].err
        PROVE  /\ step[s] = 5 /\ reply'[sconn'[s]].finished => OpsThen(reply'[sconn'[s]].bench)
               /\ step[s] = 6 /\ reply'[sconn'[s]].bench = told[s] =>
                      reply'[sconn'[s]].ops # "nil"
    <3>1. sconn'[s] = sconn[s] /\ reply'[sconn[s]] = reply[sconn[s]]
      BY <1>K, <2>1
    <3>2. reply[sconn[s]] \in Reply /\ Tells(s, reply[sconn[s]])
      BY <2>1, <3>1, ServedConn DEF OpsInv
    <3> QED
      BY <1>K, <1>N, <2>1, <3>1, <3>2
  <2> QED
    BY <1>2, <1>K, <2>1 DEF OpsInv, Tells, OpsOf, OpsThen
<1>3. CASE UNCHANGED <<step, told, sconn, reply>>
  BY <1>K, <1>3
<1>4. ASSUME NEW s \in Servers, Opens(s)
      PROVE  OpsInv'
  <2>1. PICK h \in Conns : /\ hpc[h] = "unused" /\ sconn' = [sconn EXCEPT ![s] = h]
                           /\ UNCHANGED <<step, told, reply>>
    BY <1>4 DEF Opens
  <2>2. reply[h] = NoReply
    BY <2>1 DEF ConnInv, HandlerAtWork
  <2> QED
    BY <1>K, <2>1, <2>2
<1>S. ASSUME NEW s \in Servers, sconn'[s] = 0 \/ reply'[sconn'[s]] = NoReply,
             told'[s] # 0 => OpsThen(told'[s]),
             \A t \in Servers : t # s =>
                 /\ step'[t] = step[t] /\ told'[t] = told[t] /\ sconn'[t] = sconn[t]
                 /\ sconn[t] # 0 => reply'[sconn[t]] = reply[sconn[t]]
      PROVE  OpsInv'
  <2>1. ASSUME NEW t \in Servers, sconn'[t] # 0, reply'[sconn'[t]] # NoReply,
               ~reply'[sconn'[t]].err
        PROVE  /\ step'[t] = 5 /\ reply'[sconn'[t]].finished => OpsThen(reply'[sconn'[t]].bench)
               /\ step'[t] = 6 /\ reply'[sconn'[t]].bench = told'[t] =>
                      reply'[sconn'[t]].ops # "nil"
    <3>1. t # s /\ sconn'[t] = sconn[t] /\ reply'[sconn[t]] = reply[sconn[t]]
      BY <1>S, <2>1
    <3>2. reply[sconn[t]] \in Reply /\ Tells(t, reply[sconn[t]])
      BY <2>1, <3>1, ServedConn DEF OpsInv
    <3> QED
      BY <1>S, <1>N, <2>1, <3>1, <3>2
  <2>2. \A t \in Servers : told'[t] # 0 => OpsThen(told'[t])
    BY <1>2, <1>S
  <2> QED
    BY <2>1, <2>2 DEF OpsInv, Tells, OpsOf, OpsThen
<1>5. ASSUME NEW s \in Servers, Loses(s)
      PROVE  OpsInv'
  <2>1. /\ step' \in {step, [step EXCEPT ![s] = Ended]}
        /\ sconn' = [sconn EXCEPT ![s] = 0] /\ UNCHANGED <<reply, told>>
    BY <1>5 DEF Loses
  <2> QED
    BY <1>2, <1>S, <2>1
<1>6. ASSUME NEW s \in Servers, Asks(s)
      PROVE  OpsInv'
  <2>1. reply[sconn[s]] = NoReply /\ UNCHANGED <<reply, told>>
    BY <1>6 DEF Asks
  <2>2. \/ UNCHANGED <<step, sconn>>
        \/ step' = [step EXCEPT ![s] = Ended] /\ sconn' = [sconn EXCEPT ![s] = 0]
    BY <1>6 DEF Asks
  <2> QED
    BY <1>2, <1>S, <2>1, <2>2
<1>7. ASSUME NEW s \in Servers, Reads(s)
      PROVE  OpsInv'
  <2> DEFINE h == sconn[s]
             r == reply[h]
  <2>1. /\ h # 0 /\ r # NoReply
        /\ reply' = [reply EXCEPT ![h] = NoReply]
        /\ step' = [step EXCEPT ![s] = NextStep(s, r)]
        /\ sconn' \in {sconn, [sconn EXCEPT ![s] = 0]}
    BY <1>7 DEF Reads
  <2>2. \/ UNCHANGED told
        \/ step[s] = 5 /\ ~r.err /\ r.finished /\ told' = [told EXCEPT ![s] = r.bench]
    BY <1>7 DEF Reads
  <2>3. h \in Conns /\ r \in Reply /\ Tells(s, r)
    BY <2>1, ServedConn DEF OpsInv
  <2>4. told'[s] # 0 => OpsThen(told'[s])
    <3>1. CASE UNCHANGED told
      BY <1>2, <3>1
    <3>2. CASE step[s] = 5 /\ ~r.err /\ r.finished /\ told' = [told EXCEPT ![s] = r.bench]
      <4>1. OpsOf(r.bench) /\ r.bench \in 0 .. MaxConns
        BY <2>1, <2>3, <3>2 DEF Tells, Reply
      <4> QED
        BY <1>1, <3>2, <4>1
    <3> QED
      BY <2>2, <3>1, <3>2
  <2>5. sconn'[s] = 0 \/ reply'[sconn'[s]] = NoReply
    BY <2>1, <2>3
  <2>6. ASSUME NEW t \in Servers, t # s
        PROVE  /\ step'[t] = step[t] /\ told'[t] = told[t] /\ sconn'[t] = sconn[t]
               /\ sconn[t] # 0 => reply'[sconn[t]] = reply[sconn[t]]
    <3>1. sconn[t] # 0 => sconn[t] # h
      BY <2>1, <2>6 DEF ConnInv, Owned
    <3>2. step'[t] = step[t] /\ told'[t] = told[t] /\ sconn'[t] = sconn[t]
      BY <2>1, <2>2, <2>6
    <3>3. sconn[t] # 0 => reply'[sconn[t]] = reply[sconn[t]]
      BY <2>1, <3>1, ServedConn
    <3> QED
      BY <3>2, <3>3
  <2> QED
    BY <1>S, <2>4, <2>5, <2>6
<1>8. ASSUME NEW h \in Conns, Leaves(h)
      PROVE  OpsInv'
  <2>1. reply' \in {reply, [reply EXCEPT ![h] = NoReply]} /\ UNCHANGED <<step, sconn, told>>
    BY <1>8 DEF Leaves
  <2> QED
    BY <1>K, <2>1, ServedConn
<1>A. ASSUME NEW h \in Conns, NEW r \in Reply, AnswersAt(h, r),
             ~r.err => /\ inbox[h] = 5 /\ r.finished => OpsOf(r.bench)
                       /\ inbox[h] = 6 =>
                              r.bench # 0 /\ (OpsOf(r.bench) => r.ops # "nil")
      PROVE  OpsInv'
  <2>1. ASSUME NEW s \in Servers, sconn[s] # 0, reply'[sconn[s]] # NoReply,
               ~reply'[sconn[s]].err
        PROVE  /\ step[s] = 5 /\ reply'[sconn[s]].finished => OpsThen(reply'[sconn[s]].bench)
               /\ step[s] = 6 /\ reply'[sconn[s]].bench = told[s] =>
                      reply'[sconn[s]].ops # "nil"
    <3>1. CASE sconn[s] # h
      <4>1. reply[sconn[s]] \in Reply /\ Tells(s, reply[sconn[s]])
        BY <2>1, ServedConn DEF OpsInv
      <4>2. reply'[sconn[s]] = reply[sconn[s]]
        BY <1>A, <2>1, <3>1, ServedConn DEF AnswersAt
      <4>3. step'[s] = step[s] /\ told'[s] = told[s]
        BY <1>A DEF AnswersAt
      <4> QED
        BY <1>N, <2>1, <4>1, <4>2, <4>3
    <3>2. CASE sconn[s] = h
      <4>1. reply'[h] = r /\ inbox[h] = step[s]
        BY <1>A, <2>1, <3>2 DEF AnswersAt, ConnInv, InStep
      <4>2. r.bench \in 0 .. MaxConns
        BY DEF Reply
      <4>3. step[s] = 5 /\ r.finished => OpsThen(r.bench)
        BY <1>1, <1>A, <2>1, <3>2, <4>1, <4>2
      <4>4. step[s] = 6 /\ r.bench = told[s] => r.ops # "nil"
        <5>1. ASSUME step[s] = 6, r.bench = told[s] PROVE r.ops # "nil"
          BY <1>A, <2>1, <3>2, <4>1, <5>1 DEF OpsInv
        <5> QED
          BY <5>1
      <4> QED
        BY <3>2, <4>1, <4>3, <4>4
    <3> QED
      BY <3>1, <3>2
  <2> QED
    BY <1>2, <1>A, <2>1 DEF AnswersAt, OpsInv, Tells, OpsOf, OpsThen
<1>9. ASSUME NEW h \in Conns, Responds(h)
      PROVE  OpsInv'
  <2>1. PICK r \in Reply :
            /\ Answers(h, r)
            /\ ~r.err /\ inbox[h] = 5 /\ r.finished => OpsOf(r.bench)
            /\ ~r.err /\ inbox[h] = 6 => r.bench # 0 /\ r.ops = results[r.bench]
    BY <1>9 DEF Responds
  <2>2. AnswersAt(h, r)
    BY <2>1, Answered
  <2>3. ~r.err /\ inbox[h] = 6 => r.bench # 0 /\ (OpsOf(r.bench) => r.ops # "nil")
    BY <2>1 DEF OpsOf
  <2> QED
    BY <1>A, <2>1, <2>2, <2>3
<1>10. ASSUME NEW h \in Conns, Makes(h) \/ Schedules(h)
      PROVE  OpsInv'
  <2>1. PICK b \in 0 .. MaxConns : Answers(h, ReplyOk(b)) /\ inbox[h] \notin {5, 6}
    <3>1. h \in 0 .. MaxConns /\ hbench[h] \in 0 .. MaxConns
      BY <1>0
    <3>2. CASE Makes(h)
      <4>1. Answers(h, ReplyOk(h)) /\ inbox[h] \notin {5, 6}
        BY <3>2 DEF Makes
      <4> QED
        BY <3>1, <4>1
    <3>3. CASE Schedules(h)
      <4>1. Answers(h, ReplyOk(hbench[h])) /\ inbox[h] \notin {5, 6}
        BY <3>3 DEF Schedules
      <4> QED
        BY <3>1, <4>1
    <3> QED
      BY <1>10, <3>2, <3>3
  <2>2. ReplyOk(b) \in Reply /\ AnswersAt(h, ReplyOk(b))
    BY <2>1, Answered, Replies
  <2> QED
    BY <1>A, <2>1, <2>2
<1>11. ASSUME NEW h \in Conns, Enters(h) \/ Takes(h) \/ Looks(h)
      PROVE  UNCHANGED <<step, told, sconn, reply>>
  BY <1>11 DEF Enters, Takes, Looks
<1>12. ASSUME NEW b \in Benches,
              Fires(b) \/ Attaches(b) \/ Moves(b) \/ Collects(b) \/ Reports(b)
      PROVE  UNCHANGED <<step, told, sconn, reply>>
  BY <1>12 DEF Fires, Attaches, Moves, Collects, Reports, connCore
<1> QED
  BY <1>3, <1>4, <1>5, <1>6, <1>7, <1>8, <1>9, <1>10, <1>11, <1>12 DEF StepForm, connCore

-----------------------------------------------------------------------------
(* The invariant holds at the start ...                                    *)
LEMMA ClientInvInit == Init => ClientInv
<1> SUFFICES ASSUME Init PROVE ClientInv
  OBVIOUS
<1> USE DEF Init
<1>0. MaxConns \in Nat \ {0} /\ Conns = 1 .. MaxConns /\ Benches = Conns /\ Len(Script) = 9
      /\ Ended = 10
  BY Bounds
<1>1. ServerTypes
  BY <1>0 DEF ServerTypes
<1>2. ConnTypes
  <2>1. NoReply \in Reply
    <3>1. 0 \in 0 .. MaxConns
      BY <1>0
    <3> QED
      BY <3>1, Replies
  <2> QED
    BY <1>0, <2>1 DEF ConnTypes, HandlerPlaces
<1>3. BenchTypes
  BY <1>0 DEF BenchTypes, RunnerPlaces
<1>4. RestTypes
  BY DEF RestTypes
<1>5. ConnInv
  BY <1>0 DEF ConnInv, Owned, HandlerAtWork, InStep, Written, AskedFor
<1>6. MadeInv
  BY <1>0 DEF MadeInv, MadeBefore, Attached, Fresh, Made
<1>7. StartInv
  <2>1. StartedOnce
    BY <1>0 DEF StartedOnce, Scheduled, Starting, Continues
  <2> QED
    BY <1>0, <2>1 DEF StartInv, ScheduledAsked, Scheduled, NotAhead
<1>8. RunnerInv
  <2>1. \A b \in Benches : DoneOnce(b)
    BY DEF DoneOnce, Stages
  <2>2. Collected
    BY DEF Collected, Stages
  <2> QED
    BY <2>1, <2>2 DEF RunnerInv
<1>9. OpsInv
  BY DEF OpsInv
<1> QED
  BY <1>1, <1>2, <1>3, <1>4, <1>5, <1>6, <1>7, <1>8, <1>9, TypesInParts DEF ClientInv, CoreTypes

(* ... and is kept by every step.                                          *)
LEMMA ClientInvNext == ClientInv /\ [Next]_vars => ClientInv'
<1> SUFFICES ASSUME ClientInv, [Next]_vars PROVE ClientInv'
  OBVIOUS
<1>0. CoreTypes /\ RestTypes /\ ConnInv /\ MadeInv /\ StartInv /\ RunnerInv /\ OpsInv
  BY TypesInParts DEF ClientInv
<1>1. StepForm
  <2>1. CASE UNCHANGED vars
    BY <2>1 DEF vars, servers, conns, benches, runners, history, StepForm, connCore, benchCore
  <2> QED
    BY <2>1, NextStepForm
<1>2. RestTypes'
  <2>1. CASE UNCHANGED vars
    BY <1>0, <2>1 DEF vars, servers, conns, benches, runners, history, RestTypes
  <2> QED
    BY <2>1, RestKept
<1>3. CoreTypes'
  BY <1>0, <1>1, ServerTypesKept, ConnTypesKept, BenchTypesKept DEF CoreTypes
<1>4. ClientTypeOK'
  BY <1>2, <1>3, TypesInPartsNext
<1>5. ConnInv' /\ MadeInv'
  BY <1>0, <1>1, ConnInvKept, MadeInvKept
<1>6. StartInv'
  BY <1>0, <1>1, StartInvKept
<1>7. RunnerInv' /\ OpsInv'
  BY <1>0, <1>1, RunnerInvKept, OpsInvKept
<1> QED
  BY <1>4, <1>5, <1>6, <1>7 DEF ClientInv

(* The invariant of a benchmark client holds in every reachable state, for *)
(* any number of coordinators, connections and faults.                     *)
THEOREM ClientInvariant == Spec => []ClientInv
<1>1. Init => ClientInv
  BY ClientInvInit
<1>2. ClientInv /\ [Next]_vars => ClientInv'
  BY ClientInvNext
<1> QED
  BY <1>1, <1>2, PTL DEF Spec

(* Every variable keeps its type; in particular a handler that looks into  *)
(* a benchmark has found one.                                              *)
THEOREM ClientTypeCorrect == Spec => []ClientTypeOK
<1>1. ClientInv => ClientTypeOK
  BY DEF ClientInv
<1> QED
  BY <1>1, ClientInvariant, PTL

(* However often requests are repeated, a start channel is closed twice    *)
(* only if two handlers overlapped between their look at startRequested    *)
(* and its update, and a done channel only if another benchmark's          *)
(* goroutine works on the benchmark (cli/benchclient.go:216-229,           *)
(* cli/benchmark.go:84-90).                                                *)
THEOREM RepeatsHarmless == Spec => []DoubleCloseNeedsOverlap
<1>1. ASSUME ClientInv PROVE DoubleCloseNeedsOverlap
  <2> USE <1>1
  <2>1. CoreTypes
    BY TypesInParts DEF ClientInv
  <2>2. ASSUME NEW b \in Benches, NEW st \in Stages, startCh[b][st] > 1
        PROVE  <<b, st>> \in overlapped
    <3>1. timers[b][st] \in Nat /\ startCh[b][st] \in Nat
      BY <2>1 DEF CoreTypes, BenchTypes
    <3>2. ~ (timers[b][st] + startCh[b][st] <= 1)
      BY <2>2, <3>1
    <3> QED
      BY <3>2 DEF ClientInv, StartInv, StartedOnce
  <2>3. ASSUME NEW b \in Benches, NEW st \in Stages, doneCh[b][st] > 1
        PROVE  \E x \in Benches \ {b} : rbench[x] = b
    <3>1. doneCh[b][st] \in Nat
      BY <2>1 DEF CoreTypes, BenchTypes
    <3>2. ~ DoneOnce(b)
      BY <2>3, <3>1 DEF DoneOnce
    <3> QED
      BY <3>2 DEF ClientInv, RunnerInv, Alone
  <2> QED
    BY <2>2, <2>3 DEF DoubleCloseNeedsOverlap
<1> QED
  BY <1>1, ClientInvariant, PTL

(* The client is never in a stage that no coordinator had asked for,       *)
(* whichever benchmark its goroutine works on (waitForStage,               *)
(* cli/benchmark.go:301-316).                                              *)
THEOREM StagesAskedFor == Spec => []NotAhead
<1>1. ClientInv => NotAhead
  BY DEF ClientInv, StartInv
<1> QED
  BY <1>1, ClientInvariant, PTL

(* A coordinator that was told its benchmark finished gets operations from *)
(* that benchmark, however often it asks (cli/benchmark.go:405-416,        *)
(* cli/benchclient.go:278-290).                                            *)
THEOREM Downloads == Spec => []OpsDownloaded
<1>1. ASSUME ClientInv, NEW s \in Servers, Replied(s, "send_ops"),
             reply[sconn[s]].bench = told[s]
      PROVE  reply[sconn[s]].ops # "nil"
  <2>1. CoreTypes
    BY <1>1, TypesInParts DEF ClientInv
  <2>2. step[s] \in 1 .. Len(Script)
    <3>1. step[s] \in 1 .. Ended
      BY <2>1 DEF CoreTypes, ServerTypes
    <3>2. step[s] < Ended
      BY <1>1 DEF Replied
    <3> QED
      BY <3>1, <3>2, Bounds
  <2>3. step[s] = 6
    BY <1>1, <2>2, OpPlaces DEF Replied
  <2>4. Tells(s, reply[sconn[s]])
    BY <1>1 DEF ClientInv, OpsInv, Replied
  <2> QED
    BY <1>1, <2>3, <2>4 DEF Tells, Replied
<1>2. ClientInv => OpsDownloaded
  BY <1>1 DEF OpsDownloaded
<1> QED
  BY <1>2, ClientInvariant, PTL
====

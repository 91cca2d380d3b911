----------------------------- MODULE Collector -----------------------------
(***************************************************************************)
(* bench.Collector (pkg/bench/ops.go): benchmark threads send every        *)
(* operation they finish into the buffered channel rcv, one goroutine      *)
(* drains the channel into the slice ops, and Close closes the channel,    *)
(* waits for that goroutine and returns the slice.                         *)
(*                                                                         *)
(* This module is the collector alone, with the contract it asks of its    *)
(* users: nobody sends once Close was called (a Go send on a closed        *)
(* channel panics).  BenchRun shows that the benchmarks keep the contract. *)
(***************************************************************************)
EXTENDS Naturals, Sequences

CONSTANTS
    Workers,    \* the threads, 0 .. Concurrency-1 in the code
    ChanCap     \* capacity of the channel rcv (1000 in NewCollector)

ASSUME ChanCapAssumption == ChanCap \in Nat \ {0}

(* What the properties tell apart of an Operation: its type, its thread,   *)
(* how many the thread issued before it, and how many objects it handled.  *)
OperationTypes == {"put", "get", "delete", "list", "retention"}
Operation == [type : OperationTypes, thread : Workers, num : Nat, objPerOp : Nat]

VARIABLES
    rcv,        \* contents of the channel
    rcvClosed,  \* close(c.rcv) was executed
    hold,       \* <<op>> while the drain goroutine holds op and wants opsMu
    drained,    \* the drain goroutine left its range loop: rcvWg.Done
    ops,        \* c.ops
    closePc,    \* where Close is: not called, in rcvWg.Wait, returned
    sent        \* history: all operations sent, in the order of the sends

collectorVars == <<rcv, rcvClosed, hold, drained, ops, closePc, sent>>

NewCollector ==
    /\ rcv = <<>>
    /\ rcvClosed = FALSE
    /\ hold = <<>>
    /\ drained = FALSE
    /\ ops = <<>>
    /\ closePc = "open"
    /\ sent = <<>>

(* Mutant of Send: an unbuffered hand-over that ignores the capacity.      *)
SendUnbounded(op) ==
    /\ ~rcvClosed
    /\ rcv' = Append(rcv, op)
    /\ sent' = Append(sent, op)
    /\ UNCHANGED <<rcvClosed, hold, drained, ops, closePc>>

(* A benchmark thread executes c.Receiver() <- op: it blocks while the     *)
(* buffer is full.                                                         *)
Send(op) ==
    /\ ~rcvClosed
    /\ Len(rcv) < ChanCap
    /\ rcv' = Append(rcv, op)
    /\ sent' = Append(sent, op)
    /\ UNCHANGED <<rcvClosed, hold, drained, ops, closePc>>

(* Mutant of DrainReceive: takes the next operation before the one it      *)
(* holds is appended.                                                      *)
DrainReceiveOverwrites ==
    /\ ~drained
    /\ rcv # <<>>
    /\ hold' = <<Head(rcv)>>
    /\ rcv' = Tail(rcv)
    /\ UNCHANGED <<rcvClosed, drained, ops, closePc, sent>>

(* The drain goroutine takes the next operation off the channel ...        *)
DrainReceive ==
    /\ ~drained
    /\ hold = <<>>
    /\ rcv # <<>>
    /\ hold' = <<Head(rcv)>>
    /\ rcv' = Tail(rcv)
    /\ UNCHANGED <<rcvClosed, drained, ops, closePc, sent>>

(* ... and appends it to ops under opsMu.                                  *)
DrainAppend ==
    /\ hold # <<>>
    /\ ops' = ops \o hold
    /\ hold' = <<>>
    /\ UNCHANGED <<rcv, rcvClosed, drained, closePc, sent>>

(* Mutant of DrainExit: leaves as soon as the channel is closed.           *)
DrainExitEarly ==
    /\ ~drained
    /\ hold = <<>>
    /\ rcvClosed
    /\ drained' = TRUE
    /\ UNCHANGED <<rcv, rcvClosed, hold, ops, closePc, sent>>

(* range over a closed channel ends only when the buffer is empty.         *)
DrainExit ==
    /\ ~drained
    /\ hold = <<>>
    /\ rcv = <<>>
    /\ rcvClosed
    /\ drained' = TRUE
    /\ UNCHANGED <<rcv, rcvClosed, hold, ops, closePc, sent>>

CloseRcv ==
    /\ closePc = "open"
    /\ rcvClosed' = TRUE
    /\ closePc' = "rcvWgWait"
    /\ UNCHANGED <<rcv, hold, drained, ops, sent>>

CloseReturn ==
    /\ closePc = "rcvWgWait"
    /\ drained
    /\ closePc' = "returned"
    /\ UNCHANGED <<rcv, rcvClosed, hold, drained, ops, sent>>

(* The slice that Close returned is the collector's own: its caller may    *)
(* rearrange it, two neighbours at a time.                                 *)
Swap(s, i) == [s EXCEPT ![i] = s[i + 1], ![i + 1] = s[i]]

CallerSwaps ==
    /\ closePc = "returned"
    /\ \E i \in 1 .. Len(ops) - 1 : ops' = Swap(ops, i)
    /\ UNCHANGED <<rcv, rcvClosed, hold, drained, closePc, sent>>

Drain == DrainReceive \/ DrainAppend \/ DrainExit

(* Some thread sends some operation: the one that sent' ends with.         *)
SendAny ==
    /\ sent' # <<>>
    /\ LET op == sent'[Len(sent')]
       IN  op \in Operation /\ Send(op)

CollectorNext ==
    \/ SendAny
    \/ Drain
    \/ CloseRcv
    \/ CloseReturn
    \/ CallerSwaps

(* The drain goroutine and the goroutine in Close keep running; threads    *)
(* need not send anything, and nobody is obliged to call Close.            *)
CollectorFairness == WF_collectorVars(Drain) /\ WF_collectorVars(CloseReturn)

CollectorSafety == NewCollector /\ [][CollectorNext]_collectorVars

CollectorSpec == CollectorSafety /\ CollectorFairness
-----------------------------------------------------------------------------
CollectorTypeOK ==
    /\ rcv \in Seq(Operation)
    /\ Len(rcv) <= ChanCap
    /\ rcvClosed \in BOOLEAN
    /\ hold \in Seq(Operation)
    /\ Len(hold) <= 1
    /\ drained \in BOOLEAN
    /\ ops \in Seq(Operation)
    /\ closePc \in {"open", "rcvWgWait", "returned"}
    /\ sent \in Seq(Operation)

(* Nothing is lost, duplicated or reordered on the way through the channel *)
(* and the drain goroutine: as long as the slice is the collector's, the   *)
(* operations sent so far are the slice, then what the goroutine holds,    *)
(* then the buffer.                                                        *)
Conservation == closePc # "returned" => sent = ops \o hold \o rcv

(* Where Close stands tells what is left to drain.                         *)
CloseProgress ==
    /\ rcvClosed <=> closePc # "open"
    /\ drained => rcvClosed /\ rcv = <<>> /\ hold = <<>>
    /\ closePc = "returned" => drained

CollectorInv ==
    CollectorTypeOK /\ Conservation /\ CloseProgress

(* The slice Close hands to the analysis holds every operation that was    *)
(* reported, in the order it was reported.                                 *)
CloseReturnsAll ==
    [][closePc # "returned" /\ closePc' = "returned" => ops' = sent']_collectorVars
=============================================================================

-------------------------- MODULE CollectorProofs --------------------------
(***************************************************************************)
(* The collector loses nothing, for every number of threads, channel       *)
(* capacity and operation.                                                 *)
(***************************************************************************)
EXTENDS Collector, SequenceTheorems, TLAPS

(* What the drain goroutine takes off the channel and what stays make up   *)
(* the channel.                                                            *)
LEMMA HeadTail ==
    ASSUME NEW S, NEW s \in Seq(S), s # <<>>
    PROVE  /\ <<Head(s)>> \in Seq(S)
           /\ Tail(s) \in Seq(S)
           /\ Len(Tail(s)) = Len(s) - 1
           /\ <<Head(s)>> \o Tail(s) = s
<1>1. /\ Head(s) \in S
      /\ Tail(s) \in Seq(S)
      /\ Len(s) \in Nat \ {0}
      /\ Len(Tail(s)) = Len(s) - 1
      /\ \A i \in 1 .. Len(s) - 1 : Tail(s)[i] = s[i + 1]
      /\ Head(s) = s[1]
  OBVIOUS
<1>2. <<Head(s)>> \in Seq(S)
  BY <1>1
<1>3. <<Head(s)>> \o Tail(s) = s
  <2> DEFINE t == <<Head(s)>> \o Tail(s)
  <2>1. t \in Seq(S) /\ Len(t) = Len(s)
    BY <1>1, <1>2
  <2>2. \A i \in 1 .. Len(s) : t[i] = s[i]
    BY <1>1, <1>2
  <2> QED BY <2>1, <2>2
<1> QED BY <1>1, <1>2, <1>3

(* Appending to the channel appends to the whole.                          *)
LEMMA AppendConcat ==
    ASSUME NEW S, NEW x \in S, NEW a \in Seq(S), NEW b \in Seq(S)
    PROVE  Append(a \o b, x) = a \o Append(b, x)
<1>1. Append(a \o b, x) = a \o b \o <<x>> /\ Append(b, x) = b \o <<x>>
  BY AppendIsConcat
<1>2. a \o b \o <<x>> = a \o (b \o <<x>>)
  OBVIOUS
<1> QED BY <1>1, <1>2, Zenon

(* Concatenation is associative.                                           *)
LEMMA ConcatAssoc ==
    ASSUME NEW S, NEW a \in Seq(S), NEW b \in Seq(S), NEW c \in Seq(S)
    PROVE  a \o b \o c = a \o (b \o c)
OBVIOUS

(* The empty sequence is neutral.                                          *)
LEMMA ConcatEmpty ==
    ASSUME NEW S, NEW a \in Seq(S)
    PROVE  a \o <<>> = a /\ <<>> \o a = a
OBVIOUS
-----------------------------------------------------------------------------
(* A new collector satisfies the invariant.                                *)
LEMMA CollectorInitInv == NewCollector => CollectorInv
<1> SUFFICES ASSUME NewCollector PROVE CollectorInv
  OBVIOUS
<1>0. <<>> \in Seq(Operation) /\ Len(<<>>) = 0 /\ 0 <= ChanCap
  BY ChanCapAssumption
<1>1. CollectorTypeOK
  <2>1. /\ rcv \in Seq(Operation) /\ Len(rcv) <= ChanCap
        /\ ops \in Seq(Operation) /\ sent \in Seq(Operation)
    BY <1>0, Zenon DEF NewCollector
  <2>2. hold \in Seq(Operation) /\ Len(hold) <= 1
    BY <1>0 DEF NewCollector
  <2> QED BY <2>1, <2>2 DEF NewCollector, CollectorTypeOK
<1>2. Conservation
  BY ConcatEmpty DEF NewCollector, Conservation
<1>3. CloseProgress
  BY DEF NewCollector, CloseProgress
<1> QED BY <1>1, <1>2, <1>3 DEF CollectorInv

(* A thread's send lengthens the channel and the history alike.            *)
LEMMA SendInv ==
    ASSUME CollectorInv, NEW op \in Operation, Send(op)
    PROVE  CollectorInv'
<1> USE DEF CollectorInv
<1>1. CollectorTypeOK'
  BY ChanCapAssumption DEF CollectorTypeOK, Send
<1>2. Conservation'
  <2>1. /\ ops \o hold \in Seq(Operation)
        /\ rcv \in Seq(Operation)
        /\ op \in Operation
    BY DEF CollectorTypeOK
  <2>2. Append(ops \o hold \o rcv, op) = ops \o hold \o Append(rcv, op)
    BY <2>1, AppendConcat, Zenon
  <2> QED BY <2>2 DEF Conservation, Send
<1>3. CloseProgress'
  BY DEF CloseProgress, Send
<1> QED BY <1>1, <1>2, <1>3

(* The drain goroutine moves operations, it never drops one.               *)
LEMMA DrainInv ==
    ASSUME CollectorInv, Drain
    PROVE  CollectorInv'
<1> USE DEF CollectorInv
<1>1. CASE DrainReceive
  <2>1. /\ <<Head(rcv)>> \in Seq(Operation)
        /\ Tail(rcv) \in Seq(Operation)
        /\ Len(Tail(rcv)) = Len(rcv) - 1
        /\ <<Head(rcv)>> \o Tail(rcv) = rcv
    BY <1>1, HeadTail DEF CollectorTypeOK, DrainReceive
  <2>2. CollectorTypeOK'
    BY <1>1, <2>1, ChanCapAssumption DEF CollectorTypeOK, DrainReceive
  <2>3. Conservation'
    <3>1. ops \in Seq(Operation) /\ rcv \in Seq(Operation)
      BY DEF CollectorTypeOK
    <3>2. ops \o hold \o rcv = ops \o rcv
      BY <1>1, <3>1, ConcatEmpty DEF DrainReceive
    <3>3. ops \o <<Head(rcv)>> \o Tail(rcv) = ops \o (<<Head(rcv)>> \o Tail(rcv))
      BY <3>1, <2>1, ConcatAssoc
    <3> QED BY <1>1, <2>1, <3>2, <3>3 DEF Conservation, DrainReceive
  <2>4. CloseProgress'
    BY <1>1 DEF CloseProgress, DrainReceive
  <2> QED BY <2>2, <2>3, <2>4
<1>2. CASE DrainAppend
  <2>1. CollectorTypeOK'
    BY <1>2 DEF CollectorTypeOK, DrainAppend
  <2>2. Conservation'
    <3>1. ops \o hold \in Seq(Operation)
      BY DEF CollectorTypeOK
    <3>2. ops \o hold \o <<>> = ops \o hold
      BY <3>1, ConcatEmpty
    <3> QED BY <1>2, <3>2 DEF Conservation, DrainAppend
  <2>3. CloseProgress'
    BY <1>2 DEF CloseProgress, DrainAppend
  <2> QED BY <2>1, <2>2, <2>3
<1>3. CASE DrainExit
  BY <1>3 DEF DrainExit, CollectorTypeOK, Conservation, CloseProgress
<1> QED BY <1>1, <1>2, <1>3 DEF Drain

(* Both halves of Close preserve the invariant.                            *)
LEMMA CloseInv ==
    ASSUME CollectorInv, CloseRcv \/ CloseReturn
    PROVE  CollectorInv'
<1>1. CollectorTypeOK'
  BY DEF CollectorInv, CollectorTypeOK, CloseRcv, CloseReturn
<1>2. Conservation'
  BY DEF CollectorInv, Conservation, CloseRcv, CloseReturn
<1>3. CloseProgress'
  BY DEF CollectorInv, CollectorTypeOK, CloseProgress, CloseRcv, CloseReturn
<1> QED BY <1>1, <1>2, <1>3 DEF CollectorInv

(* Exchanging two neighbours keeps a sequence a sequence of the same       *)
(* length.                                                                 *)
LEMMA SwapType ==
    ASSUME NEW S, NEW s \in Seq(S), NEW i \in 1 .. Len(s) - 1
    PROVE  Swap(s, i) \in Seq(S) /\ Len(Swap(s, i)) = Len(s)
<1>1. Len(s) \in Nat /\ i \in 1 .. Len(s) /\ i + 1 \in 1 .. Len(s)
  OBVIOUS
<1>2. s[i] \in S /\ s[i + 1] \in S
  BY <1>1
<1> QED BY <1>1, <1>2 DEF Swap

(* The caller rearranges the slice only when Close has returned it.        *)
LEMMA CallerInv ==
    ASSUME CollectorInv, CallerSwaps
    PROVE  CollectorInv'
<1>1. ops' \in Seq(Operation)
  <2>1. PICK i \in 1 .. Len(ops) - 1 : ops' = Swap(ops, i)
    BY DEF CallerSwaps
  <2>2. ops \in Seq(Operation)
    BY DEF CollectorInv, CollectorTypeOK
  <2> QED BY <2>1, <2>2, SwapType
<1>2. CollectorTypeOK'
  BY <1>1 DEF CollectorInv, CollectorTypeOK, CallerSwaps
<1>3. Conservation' /\ CloseProgress'
  BY DEF CollectorInv, Conservation, CloseProgress, CallerSwaps
<1> QED BY <1>2, <1>3 DEF CollectorInv

(* Every step of the collector preserves the invariant.                    *)
LEMMA CollectorStepInv == CollectorInv /\ [CollectorNext]_collectorVars => CollectorInv'
<1> SUFFICES ASSUME CollectorInv, [CollectorNext]_collectorVars PROVE CollectorInv'
  OBVIOUS
<1>1. CASE SendAny
  BY <1>1, SendInv DEF SendAny
<1>2. CASE Drain
  BY <1>2, DrainInv
<1>3. CASE CloseRcv \/ CloseReturn
  BY <1>3, CloseInv
<1>4. CASE CallerSwaps
  BY <1>4, CallerInv
<1>5. CASE UNCHANGED collectorVars
  BY <1>5 DEF collectorVars, CollectorInv, CollectorTypeOK, Conservation, CloseProgress
<1> QED BY <1>1, <1>2, <1>3, <1>4, <1>5 DEF CollectorNext

(* The inductive invariant of the collector: its types, the conservation   *)
(* of the operations and what the progress of Close tells.                 *)
THEOREM CollectorInvariant == CollectorSafety => []CollectorInv
BY CollectorInitInv, CollectorStepInv, PTL DEF CollectorSafety

(* When Close returns nothing is left on the way, so the slice is the      *)
(* history.                                                                *)
LEMMA ReturnStep ==
    ASSUME CollectorInv, [CollectorNext]_collectorVars
    PROVE  [ closePc # "returned" /\ closePc' = "returned" => ops' = sent' ]_collectorVars
<1> SUFFICES ASSUME closePc # "returned", closePc' = "returned" PROVE ops' = sent'
  OBVIOUS
<1>1. CloseReturn
  BY DEF CollectorNext, collectorVars, SendAny, Send, Drain, DrainReceive, DrainAppend,
         DrainExit, CloseRcv, CallerSwaps
<1>2. rcv = <<>> /\ hold = <<>> /\ ops \in Seq(Operation)
  BY <1>1 DEF CloseReturn, CollectorInv, CloseProgress, CollectorTypeOK
<1>3. ops \o <<>> \o <<>> = ops
  BY <1>2, ConcatEmpty
<1> QED BY <1>1, <1>2, <1>3 DEF CloseReturn, CollectorInv, Conservation

(* Close returns every operation that was ever sent, in order; what its    *)
(* caller does with the slice comes after.                                 *)
THEOREM CollectorReturnsAll == CollectorSafety => CloseReturnsAll
BY CollectorInvariant, ReturnStep, PTL DEF CollectorSafety, CloseReturnsAll
=============================================================================

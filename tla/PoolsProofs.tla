---------------------------- MODULE PoolsProofs ----------------------------
(***************************************************************************)
(* Proofs about the mixed and the versioned benchmark and the choice of    *)
(* hosts, for every number of threads, hosts and objects, every list of    *)
(* operations and any number of failures: the variables keep their types,  *)
(* the hosts' counts are right and no host is passed over for long, what a *)
(* thread works on exists and is nobody else's, the pool runs out only     *)
(* when it is overdrawn, and Cleanup leaves nothing but what failed.       *)
(***************************************************************************)
EXTENDS Pools, FiniteSetTheorems, SequenceTheorems, WellFoundedInduction, TLAPS

USE DEF threadVars, prepareVars, storeVars, config, hostVars, vars, NoHost, NoOp

-----------------------------------------------------------------------------
(* The inductive invariant.                                                *)

(* Where the goroutine of the benchmark is tells how many clients it holds *)
(* and what the threads may be doing.                                      *)
Starting == {"prepare", "bucket", "clear", "cleared", "created", "versions", "enabled"}
MineInv ==
    Len(mine) = CASE main \in {"bucket", "cleared", "versions"} -> 1
                  [] main = "clear" -> 2
                  [] OTHER -> 0

(* A thread holds a client, an object and a new object just while its      *)
(* operation is on its way.                                                *)
Idle(w) == op[w] = NoOp /\ obj[w] = NoObject /\ new[w] = NoObject
Busy(w) ==
    /\ op[w] # NoOp
    /\ host[w] \in Host
    /\ IF op[w] # "PUT" \/ versioned THEN obj[w] \in Object ELSE obj[w] = NoObject
    /\ IF op[w] = "PUT" THEN new[w] \in Object ELSE new[w] = NoObject
ThreadAt(w) ==
    /\ main \in Starting => pc[w] = "idle"
    /\ main = "upload" => pc[w] \in {"next", "sent", "left"}
    /\ main \in {"cleanup", "done"} => pc[w] = "left"
    /\ main \in {"run", "panic"} => pc[w] # "idle"
    /\ main = "failed" => pc[w] \in {"idle", "left"}
    /\ pc[w] \in {"idle", "next", "left"} => Idle(w)
    /\ pc[w] \in {"idle", "next", "take"} => host[w] = NoHost
    /\ main = "upload" /\ ~groupErr /\ pc[w] = "left" => host[w] = NoHost
    /\ pc[w] = "take" => op[w] # NoOp /\ obj[w] = NoObject /\ new[w] = NoObject
    /\ pc[w] = "sent" /\ main = "upload" =>
           host[w] \in Host /\ op[w] = NoOp /\ obj[w] = NoObject /\ new[w] \in Object
    /\ pc[w] \in {"sent", "reply"} /\ main # "upload" => Busy(w)
ThreadInv == \A w \in Workers : ThreadAt(w)

(* Every object is numbered when it is named, so a new one is none of      *)
(* those there are.                                                        *)
NumberInv ==
    /\ \A o \in pool \cup bucket \cup lost : o.num <= made
    /\ \A w \in Workers : obj[w].num <= made /\ new[w].num <= made

(* Nobody has what another has, and what is in the pool is in the bucket.  *)
OwnInv ==
    /\ main # "done" => pool \subseteq bucket
    /\ \A w \in Workers : obj[w] # NoObject => obj[w] \notin pool
    /\ \A w, v \in Workers : w # v /\ obj[w] # NoObject => obj[w] # obj[v]
    /\ \A w \in Workers : obj[w] # NoObject /\ op[w] # "DELETE" => obj[w] \in bucket
    /\ \A w \in Workers : new[w] # NoObject => new[w] \notin pool
    /\ \A w, v \in Workers : new[w] # NoObject => new[w] # obj[v]
    /\ \A w, v \in Workers : w # v /\ new[w] # NoObject => new[w] # new[v]

(* What the bucket has is in the pool, or is what a thread works on, or    *)
(* belongs to a request that failed; Cleanup leaves only the last.         *)
Owned(o) ==
    \/ o \in pool \cup lost
    \/ \E w \in Workers : o = obj[w] /\ (op[w] = "DELETE" => pc[w] = "sent")
    \/ \E w \in Workers : o = new[w] /\ pc[w] = "reply"
BucketInv ==
    /\ main \in Starting => pool = {} /\ bucket = {}
    /\ main \in {"upload", "run", "cleanup", "panic"} /\ ~groupErr => \A o \in bucket : Owned(o)
    /\ main \in {"run", "cleanup", "panic", "done"} => ~groupErr
    /\ main = "done" => bucket \subseteq lost \ pool
    /\ \A w \in Workers : main \in {"run", "panic"} /\ pc[w] = "reply" =>
           /\ op[w] = "PUT" /\ ok[w] => new[w] \in bucket
           /\ op[w] = "PUT" /\ ~ok[w] => new[w] \in lost
           /\ op[w] = "DELETE" /\ ~ok[w] => obj[w] \in lost

(* The least loaded host waits at most once for each of the others: a host *)
(* that was preferred to h has more clients than h, or ended a request     *)
(* after h did.                                                            *)
Later(h) ==
    {g \in Host : g # h /\ (running[g] > running[h] \/ lastFinished[g] > lastFinished[h])}
TurnInv ==
    hostSelect = "weighed" =>
        /\ \A h, g \in Host : lastFinished[h] = lastFinished[g] => h = g
        /\ \A h \in Host : passed[h] <= Cardinality(Later(h))

(* The clients of a host that are in use.                                  *)
InUse(h) ==
    Cardinality({w \in Workers : host[w] = h}) + Cardinality({i \in 1 .. Len(mine) : mine[i] = h})
CountInv == hostSelect = "weighed" => \A h \in Host : running[h] = InUse(h)

(* The pool has what was created and uploaded, without what was deleted    *)
(* and what the threads hold.                                              *)
Holders == {w \in Workers : obj[w] # NoObject}
Uploading == {w \in Workers : new[w] # NoObject}
Doing(type) == {w \in Workers : op[w] = type}
Balance ==
    Cardinality(pool) + Cardinality(Holders) + issued["DELETE"] - Cardinality(Doing("DELETE"))
    = create + issued["PUT"] - issued["failed"] - Cardinality(Doing("PUT"))
PoolInv ==
    /\ main \in Starting => ~groupErr /\ todo = 0
    /\ main \in Starting \cup {"upload"} =>
           \A t \in {"GET", "PUT", "DELETE", "STAT", "failed"} : issued[t] = 0
    /\ main = "upload" /\ ~done /\ ~groupErr =>
           /\ todo + Cardinality(pool) + Cardinality(Uploading) = create
           /\ \A w \in Workers : pc[w] = "left" => todo = 0
    /\ main \in {"run", "panic"} /\ (~done \/ \E w \in Workers : op[w] # NoOp) => Balance
    /\ main = "panic" => pool = {} /\ \E w \in Workers : pc[w] = "take" /\ NeedsObject(w)

PoolsInv ==
    /\ PoolTypeOK /\ MineInv /\ ThreadInv /\ NumberInv /\ OwnInv /\ BucketInv
    /\ CountInv /\ TurnInv /\ PoolInv /\ IsFiniteSet(pool)
-----------------------------------------------------------------------------
(* A set of numbers that is not empty has a least element.                 *)
LEMMA LeastNumber ==
    ASSUME NEW S \in SUBSET Nat, S # {}
    PROVE  \E x \in S : \A y \in S : x <= y
<1>1. PICK x \in S : \A y \in S : ~ (<<y, x>> \in OpToRel(<, Nat))
  BY NatLessThanWellFounded, WFMin
<1>2. \A y \in S : ~ (y < x)
  BY <1>1 DEF OpToRel
<1> QED
  BY <1>2

(* Some host has the fewest clients, and one of those is the earliest.     *)
LEMMA LeastHost ==
    ASSUME NEW count \in [Host -> Nat]
    PROVE  \E h \in Host : \A g \in Host : count[h] <= count[g]
<1>1. {count[h] : h \in Host} # {} /\ {count[h] : h \in Host} \in SUBSET Nat
  <2>1. 1 \in Host
    BY HostsAssumption DEF Host
  <2> QED
    BY <2>1
<1>2. PICK x \in {count[h] : h \in Host} : \A y \in {count[h] : h \in Host} : x <= y
  BY <1>1, LeastNumber
<1> QED
  BY <1>2

(* The host that is found.                                                 *)
LEMMA FindIsEarliest ==
    ASSUME HostTypeOK
    PROVE  /\ find \in Least(running)
           /\ \A g \in Least(running) : lastFinished[find] <= lastFinished[g]
<1> DEFINE S == Least(running)
<1>1. S # {}
  BY LeastHost DEF Least, HostTypeOK
<1>2. \E h \in S : \A g \in S : lastFinished[h] <= lastFinished[g]
  <2>1. lastFinished \in [Host -> Nat]
    <3>1. Host \subseteq Nat
      BY HostsAssumption DEF Host
    <3> QED
      BY <3>1 DEF HostTypeOK
  <2>2. {lastFinished[h] : h \in S} # {} /\ {lastFinished[h] : h \in S} \in SUBSET Nat
    BY <1>1, <2>1 DEF Least
  <2>3. PICK x \in {lastFinished[h] : h \in S} : \A y \in {lastFinished[h] : h \in S} : x <= y
    BY <2>2, LeastNumber
  <2> QED
    BY <2>3
<1>3. Earliest(S) \in S /\ \A g \in S : lastFinished[Earliest(S)] <= lastFinished[g]
  BY <1>2, Zenon DEF Earliest
<1> QED
  BY <1>3 DEF find

LEMMA ChosenIsHost == ASSUME HostTypeOK PROVE Chosen \in Host
<1>1. CASE hostSelect = "roundrobin"
  BY <1>1, HostsAssumption DEF Chosen, HostTypeOK, Host
<1>2. CASE hostSelect # "roundrobin"
  BY <1>2, FindIsEarliest DEF Chosen, Least
<1> QED
  BY <1>1, <1>2

(* The counts and the times of the hosts keep their types: a count that    *)
(* falls was above 0.                                                      *)
LEMMA HandOutTypes == ASSUME HostTypeOK, NEW h \in Host, HandOut(h) PROVE HostTypeOK'
<1>1. CASE hostSelect = "roundrobin"
  <2>1. current' \in 0 .. Hosts - 1
    BY <1>1, HostsAssumption DEF HandOut, HostTypeOK
  <2> QED
    BY <1>1, <2>1 DEF HandOut, HostTypeOK
<1>2. CASE hostSelect # "roundrobin"
  <2>1. running' \in [Host -> Nat]
    BY <1>2 DEF HandOut, HostTypeOK
  <2>2. passed' \in [Host -> Nat]
    <3>1. \A g \in Host : passed[g] \in Nat /\ passed[g] + 1 \in Nat
      BY DEF HostTypeOK
    <3> QED
      BY <1>2, <3>1 DEF HandOut
  <2> QED
    BY <1>2, <2>1, <2>2 DEF HandOut, HostTypeOK
<1> QED
  BY <1>1, <1>2

LEMMA FinishedRange ==
    ASSUME HostTypeOK, NEW h \in Host
    PROVE  FinishedNow(h) \in [Host -> Host]
<1> SUFFICES ASSUME NEW g \in Host, g # h, lastFinished[g] > lastFinished[h]
             PROVE  lastFinished[g] - 1 \in Host
  BY HostsAssumption DEF FinishedNow, HostTypeOK, Host
<1>1. lastFinished[g] \in 1 .. Hosts /\ lastFinished[h] \in 1 .. Hosts
  BY DEF HostTypeOK, Host
<1> QED
  BY <1>1, HostsAssumption DEF Host

LEMMA GiveBackTypes ==
    ASSUME HostTypeOK, NEW h \in Host, GiveBack(h),
           hostSelect = "weighed" => running[h] > 0
    PROVE  HostTypeOK'
<1>1. CASE hostSelect = "roundrobin"
  BY <1>1 DEF GiveBack, HostTypeOK
<1>2. CASE hostSelect # "roundrobin"
  <2>1. running' \in [Host -> Nat] /\ passed' \in [Host -> Nat]
    BY <1>2 DEF GiveBack, HostTypeOK
  <2>2. lastFinished' \in [Host -> Host]
    BY <1>2, FinishedRange DEF GiveBack
  <2> QED
    BY <1>2, <2>1, <2>2 DEF GiveBack, HostTypeOK
<1> QED
  BY <1>1, <1>2

(* The hosts that are preferred to a host later are fewer than the hosts.  *)
LEMMA LaterFinite ==
    ASSUME NEW h \in Host
    PROVE  /\ IsFiniteSet(Later(h)) /\ Cardinality(Later(h)) \in Nat
           /\ Cardinality(Later(h)) < Hosts
<1>1. IsFiniteSet(Host) /\ Cardinality(Host) = Hosts
  BY HostsAssumption, FS_Interval DEF Host
<1>2. IsFiniteSet(Host \ {h}) /\ Cardinality(Host \ {h}) = Hosts - 1
  BY <1>1, FS_RemoveElement
<1>3. Later(h) \in SUBSET (Host \ {h})
  BY DEF Later
<1>4. IsFiniteSet(Later(h)) /\ Cardinality(Later(h)) <= Hosts - 1
  BY <1>2, <1>3, FS_Subset
<1>5. Cardinality(Later(h)) \in Nat
  BY <1>4, FS_CardinalityType
<1> QED
  BY <1>4, <1>5, HostsAssumption

LEMMA LaterFiniteNext ==
    ASSUME NEW h \in Host
    PROVE  IsFiniteSet(Later(h)') /\ Cardinality(Later(h)') \in Nat
<1>1. IsFiniteSet(Host)
  BY HostsAssumption, FS_Interval DEF Host
<1>2. Later(h)' \in SUBSET Host
  BY DEF Later
<1> QED
  BY <1>1, <1>2, FS_Subset, FS_CardinalityType

(* Handing out a client keeps every host's turn: the one that is preferred *)
(* to another comes later than it from now on.                             *)
LEMMA HandOutTurns ==
    ASSUME HostTypeOK, TurnInv, NEW h \in Host, HandOut(h)
    PROVE  TurnInv'
<1> SUFFICES ASSUME hostSelect = "weighed" PROVE TurnInv'
  BY DEF TurnInv, HandOut
<1>1. h \in Least(running) /\ \A g \in Least(running) : lastFinished[h] <= lastFinished[g]
  BY FindIsEarliest DEF HandOut, Chosen
<1>2. /\ running' = [running EXCEPT ![h] = @ + 1]
      /\ passed' = [g \in Host |-> IF g = h THEN 0
                                   ELSE IF g \in Least(running) THEN passed[g] + 1
                                   ELSE passed[g]]
      /\ UNCHANGED <<hostSelect, lastFinished>>
  BY DEF HandOut
<1>3. ASSUME NEW x \in Host PROVE passed'[x] <= Cardinality(Later(x)')
  <2>1. CASE x = h
    BY <1>2, <2>1, LaterFiniteNext
  <2>2. CASE x # h
    <3>1. Later(x) \in SUBSET (Later(x)')
      BY <1>2, <2>2 DEF Later, HostTypeOK
    <3>2. IsFiniteSet(Later(x)) /\ Cardinality(Later(x)) \in Nat
      BY LaterFinite
    <3>3. IsFiniteSet(Later(x)') /\ Cardinality(Later(x)') \in Nat
      BY LaterFiniteNext
    <3>4. CASE x \in Least(running)
      <4>1. h \notin Later(x)
        <5>1. running[h] \in Nat /\ running[x] \in Nat
          BY DEF HostTypeOK
        <5>2. lastFinished[h] \in 1 .. Hosts /\ lastFinished[x] \in 1 .. Hosts
          BY DEF HostTypeOK, Host
        <5>3. running[h] <= running[x] /\ lastFinished[h] <= lastFinished[x]
          BY <1>1, <3>4 DEF Least
        <5> QED
          BY <5>1, <5>2, <5>3, HostsAssumption DEF Later
      <4>2. Later(x) \cup {h} \in SUBSET (Later(x)')
        <5>1. running'[h] > running'[x]
          BY <1>1, <1>2, <2>2, <3>4 DEF Least, HostTypeOK
        <5> QED
          BY <2>2, <3>1, <5>1 DEF Later
      <4>3. Cardinality(Later(x) \cup {h}) = Cardinality(Later(x)) + 1
        BY <3>2, <4>1, FS_AddElement
      <4>4. Cardinality(Later(x) \cup {h}) <= Cardinality(Later(x)')
        BY <3>3, <4>2, FS_Subset
      <4> QED
        BY <1>2, <2>2, <3>2, <3>3, <3>4, <4>3, <4>4 DEF TurnInv, HostTypeOK
    <3>5. CASE x \notin Least(running)
      <4>1. Cardinality(Later(x)) <= Cardinality(Later(x)')
        BY <3>1, <3>3, FS_Subset
      <4> QED
        BY <1>2, <2>2, <3>2, <3>3, <3>5, <4>1 DEF TurnInv, HostTypeOK
    <3> QED
      BY <3>4, <3>5
  <2> QED
    BY <2>1, <2>2
<1> QED
  BY <1>2, <1>3 DEF TurnInv

(* The host that ended a request comes later than all others; their order  *)
(* among themselves stays.                                                 *)
LEMMA FinishedOrder ==
    ASSUME HostTypeOK, NEW h \in Host, lastFinished' = FinishedNow(h),
           \A f, g \in Host : lastFinished[f] = lastFinished[g] => f = g
    PROVE  /\ \A g \in Host : g # h => lastFinished'[h] > lastFinished'[g]
           /\ \A f, g \in Host : f # h /\ g # h =>
                  (lastFinished'[f] > lastFinished'[g] <=> lastFinished[f] > lastFinished[g])
           /\ \A f, g \in Host : lastFinished'[f] = lastFinished'[g] => f = g
<1>1. \A g \in Host : lastFinished[g] \in 1 .. Hosts /\ Hosts \in Nat
  BY HostsAssumption DEF HostTypeOK, Host
<1>2. lastFinished'[h] = Hosts
  BY DEF FinishedNow
<1>3. \A g \in Host : g # h =>
          \/ lastFinished[g] > lastFinished[h] /\ lastFinished'[g] = lastFinished[g] - 1
          \/ lastFinished[g] < lastFinished[h] /\ lastFinished'[g] = lastFinished[g]
  BY <1>1 DEF FinishedNow
<1>4. \A g \in Host : g # h => lastFinished'[h] > lastFinished'[g]
  BY <1>1, <1>2, <1>3
<1>5. ASSUME NEW f \in Host, NEW g \in Host, f # h, g # h
      PROVE  /\ lastFinished'[f] > lastFinished'[g] <=> lastFinished[f] > lastFinished[g]
             /\ lastFinished'[f] = lastFinished'[g] => f = g
  BY <1>1, <1>3, <1>5
<1>6. ASSUME NEW f \in Host, NEW g \in Host, lastFinished'[f] = lastFinished'[g]
      PROVE  f = g
  <2>1. \A x \in Host : lastFinished'[x] \in Int
    BY <1>1, <1>2, <1>3
  <2> QED
    BY <1>4, <1>5, <1>6, <2>1
<1> QED
  BY <1>4, <1>5, <1>6

LEMMA GiveBackTurns ==
    ASSUME HostTypeOK, TurnInv, NEW h \in Host, GiveBack(h)
    PROVE  TurnInv'
<1> SUFFICES ASSUME hostSelect = "weighed" PROVE TurnInv'
  BY DEF TurnInv, GiveBack
<1>1. /\ lastFinished' = FinishedNow(h)
      /\ running' = [running EXCEPT ![h] = @ - 1]
      /\ passed' = [passed EXCEPT ![h] = 0]
      /\ UNCHANGED hostSelect
  BY DEF GiveBack
<1>2. /\ \A g \in Host : g # h => lastFinished'[h] > lastFinished'[g]
      /\ \A f, g \in Host : f # h /\ g # h =>
             (lastFinished'[f] > lastFinished'[g] <=> lastFinished[f] > lastFinished[g])
      /\ \A f, g \in Host : lastFinished'[f] = lastFinished'[g] => f = g
  BY <1>1, FinishedOrder DEF TurnInv
<1>3. ASSUME NEW x \in Host PROVE passed'[x] <= Cardinality(Later(x)')
  <2>1. CASE x = h
    BY <1>1, <2>1, LaterFiniteNext DEF HostTypeOK
  <2>2. CASE x # h
    <3>1. Later(x) \in SUBSET (Later(x)')
      BY <1>1, <1>2, <2>2 DEF Later, HostTypeOK
    <3>2. Cardinality(Later(x)) <= Cardinality(Later(x)')
      BY <3>1, LaterFiniteNext, FS_Subset
    <3> QED
      BY <1>1, <2>2, <3>2, LaterFinite, LaterFiniteNext DEF TurnInv, HostTypeOK
  <2> QED
    BY <2>1, <2>2
<1> QED
  BY <1>1, <1>2, <1>3 DEF TurnInv
-----------------------------------------------------------------------------
(* The clients in use.                                                     *)
UsedBy(h) == {w \in Workers : host[w] = h}
MineOf(h) == {i \in 1 .. Len(mine) : mine[i] = h}
HostTypes ==
    /\ HostTypeOK
    /\ mine \in Seq(Host)
    /\ host \in [Workers -> Host \cup {NoHost}]

LEMMA UsedByFinite ==
    ASSUME NEW h
    PROVE  /\ IsFiniteSet(UsedBy(h)) /\ Cardinality(UsedBy(h)) \in Nat
           /\ IsFiniteSet(UsedBy(h)') /\ Cardinality(UsedBy(h)') \in Nat
<1>1. UsedBy(h) \in SUBSET Workers /\ UsedBy(h)' \in SUBSET Workers
  BY DEF UsedBy
<1> QED
  BY <1>1, PoolWorkersAssumption, FS_Subset, FS_CardinalityType

LEMMA MineOfFinite ==
    ASSUME mine \in Seq(Host), NEW h
    PROVE  IsFiniteSet(MineOf(h)) /\ Cardinality(MineOf(h)) \in Nat
<1>1. IsFiniteSet(1 .. Len(mine))
  BY FS_Interval
<1>2. MineOf(h) \in SUBSET (1 .. Len(mine))
  BY DEF MineOf
<1> QED
  BY <1>1, <1>2, FS_Subset, FS_CardinalityType

(* A thread that takes a client of a host, or gives it back, is the only   *)
(* one whose client changes.                                               *)
LEMMA ThreadTakes ==
    ASSUME HostTypes, NEW w \in Workers, NEW h \in Host, host[w] = NoHost,
           host' = [host EXCEPT ![w] = h]
    PROVE  \A g \in Host : Cardinality(UsedBy(g)') =
               Cardinality(UsedBy(g)) + (IF g = h THEN 1 ELSE 0)
<1> SUFFICES ASSUME NEW g \in Host
             PROVE  Cardinality(UsedBy(g)') = Cardinality(UsedBy(g)) + (IF g = h THEN 1 ELSE 0)
  OBVIOUS
<1>1. g # NoHost
  BY DEF Host
<1>2. CASE g = h
  <2>1. UsedBy(g)' = UsedBy(g) \cup {w} /\ w \notin UsedBy(g)
    BY <1>1, <1>2 DEF UsedBy, HostTypes
  <2> QED
    BY <1>2, <2>1, UsedByFinite, FS_AddElement
<1>3. CASE g # h
  <2>1. UsedBy(g)' = UsedBy(g)
    BY <1>1, <1>3 DEF UsedBy, HostTypes
  <2> QED
    BY <1>3, <2>1, UsedByFinite
<1> QED
  BY <1>2, <1>3

LEMMA ThreadGivesBack ==
    ASSUME HostTypes, NEW w \in Workers, NEW h \in Host, host[w] = h,
           host' = [host EXCEPT ![w] = NoHost]
    PROVE  \A g \in Host : Cardinality(UsedBy(g)') =
               Cardinality(UsedBy(g)) - (IF g = h THEN 1 ELSE 0)
<1> SUFFICES ASSUME NEW g \in Host
             PROVE  Cardinality(UsedBy(g)') = Cardinality(UsedBy(g)) - (IF g = h THEN 1 ELSE 0)
  OBVIOUS
<1>1. g # NoHost
  BY DEF Host
<1>2. CASE g = h
  <2>1. UsedBy(g)' = UsedBy(g) \ {w} /\ w \in UsedBy(g)
    BY <1>1, <1>2 DEF UsedBy, HostTypes
  <2> QED
    BY <1>2, <2>1, UsedByFinite, FS_RemoveElement
<1>3. CASE g # h
  <2>1. UsedBy(g)' = UsedBy(g)
    BY <1>1, <1>3 DEF UsedBy, HostTypes
  <2> QED
    BY <1>3, <2>1, UsedByFinite
<1> QED
  BY <1>2, <1>3

(* The clients of the goroutine of the benchmark are a stack.              *)
LEMMA MainTakes ==
    ASSUME HostTypes, NEW h \in Host, mine' = Append(mine, h)
    PROVE  /\ mine' \in Seq(Host)
           /\ \A g \in Host : Cardinality(MineOf(g)') =
                  Cardinality(MineOf(g)) + (IF g = h THEN 1 ELSE 0)
<1>1. /\ mine' \in Seq(Host) /\ Len(mine') = Len(mine) + 1 /\ Len(mine) \in Nat
      /\ mine'[Len(mine) + 1] = h
      /\ \A i \in 1 .. Len(mine) : mine'[i] = mine[i]
  BY DEF HostTypes
<1>2. ASSUME NEW g \in Host
      PROVE  Cardinality(MineOf(g)') = Cardinality(MineOf(g)) + (IF g = h THEN 1 ELSE 0)
  <2>1. IsFiniteSet(MineOf(g)) /\ Cardinality(MineOf(g)) \in Nat
    BY MineOfFinite DEF HostTypes
  <2>2. CASE g = h
    <3>1. MineOf(g)' = MineOf(g) \cup {Len(mine) + 1} /\ Len(mine) + 1 \notin MineOf(g)
      BY <1>1, <2>2 DEF MineOf
    <3> QED
      BY <2>1, <2>2, <3>1, FS_AddElement
  <2>3. CASE g # h
    <3>1. MineOf(g)' = MineOf(g)
      BY <1>1, <2>3 DEF MineOf
    <3> QED
      BY <2>1, <2>3, <3>1
  <2> QED
    BY <2>2, <2>3
<1> QED
  BY <1>1, <1>2

LEMMA MainGivesBack ==
    ASSUME HostTypes, mine # <<>>, mine' = Front(mine)
    PROVE  /\ Last(mine) \in Host
           /\ mine' \in Seq(Host) /\ Len(mine') = Len(mine) - 1
           /\ Cardinality(MineOf(Last(mine))) > 0
           /\ \A g \in Host : Cardinality(MineOf(g)') =
                  Cardinality(MineOf(g)) - (IF g = Last(mine) THEN 1 ELSE 0)
<1> DEFINE n == Len(mine)
<1>1. n \in Nat \ {0} /\ \A i \in 1 .. n : mine[i] \in Host
  BY DEF HostTypes
<1>2. /\ mine' \in Seq(Host) /\ Len(mine') = n - 1
      /\ \A i \in 1 .. n - 1 : mine'[i] = mine[i]
  <2>1. mine' = SubSeq(mine, 1, n - 1)
    BY DEF Front
  <2> HIDE DEF n
  <2>2. \A i \in 1 .. n - 1 : mine[i] \in Host
    BY <1>1
  <2>3. /\ SubSeq(mine, 1, n - 1) \in Seq(Host)
        /\ Len(SubSeq(mine, 1, n - 1)) = IF 1 <= n - 1 THEN (n - 1) - 1 + 1 ELSE 0
        /\ \A i \in 1 .. (n - 1) - 1 + 1 : SubSeq(mine, 1, n - 1)[i] = mine[1 + i - 1]
    BY <1>1, <2>2, SubSeqProperties
  <2> QED
    BY <1>1, <2>1, <2>3
<1>3. Last(mine) = mine[n]
  BY DEF Last
<1>4. n \in MineOf(Last(mine))
  BY <1>1, <1>3 DEF MineOf
<1>5. ASSUME NEW g \in Host
      PROVE  Cardinality(MineOf(g)') = Cardinality(MineOf(g)) - (IF g = Last(mine) THEN 1 ELSE 0)
  <2>1. IsFiniteSet(MineOf(g)) /\ Cardinality(MineOf(g)) \in Nat
    BY MineOfFinite DEF HostTypes
  <2>2. CASE g = Last(mine)
    <3>1. MineOf(g)' = MineOf(g) \ {n} /\ n \in MineOf(g)
      BY <1>1, <1>2, <1>3, <2>2 DEF MineOf
    <3> QED
      BY <2>1, <2>2, <3>1, FS_RemoveElement
  <2>3. CASE g # Last(mine)
    <3>1. MineOf(g)' = MineOf(g)
      BY <1>1, <1>2, <1>3, <2>3 DEF MineOf
    <3> QED
      BY <2>1, <2>3, <3>1
  <2> QED
    BY <2>2, <2>3
<1>6. Cardinality(MineOf(Last(mine))) > 0
  BY <1>4, MineOfFinite, FS_EmptySet DEF HostTypes
<1> QED
  BY <1>1, <1>2, <1>3, <1>5, <1>6

(* What a step may do to the hosts and their clients: nothing, or hand one *)
(* client out to the goroutine of the benchmark or to a thread that has    *)
(* none, or take one back.                                                 *)
HostStep ==
    \/ UNCHANGED <<hostVars, mine, host>>
    \/ HandOut(Chosen) /\ mine' = Append(mine, Chosen) /\ UNCHANGED host
    \/ mine # <<>> /\ GiveBack(Last(mine)) /\ mine' = Front(mine) /\ UNCHANGED host
    \/ \E w \in Workers : /\ host[w] = NoHost /\ HandOut(Chosen)
                          /\ host' = [host EXCEPT ![w] = Chosen] /\ UNCHANGED mine
    \/ \E w \in Workers : /\ host[w] \in Host /\ GiveBack(host[w])
                          /\ host' = [host EXCEPT ![w] = NoHost] /\ UNCHANGED mine

LEMMA InUseParts ==
    ASSUME HostTypes, NEW h \in Host
    PROVE  /\ InUse(h) = Cardinality(UsedBy(h)) + Cardinality(MineOf(h))
           /\ Cardinality(UsedBy(h)) \in Nat /\ Cardinality(MineOf(h)) \in Nat
  BY UsedByFinite, MineOfFinite DEF InUse, UsedBy, MineOf, HostTypes

(* A count that goes up or down with a host's clients stays right.         *)
LEMMA HandOutCounts ==
    ASSUME HostTypes, CountInv, NEW h \in Host, HandOut(h),
           \A g \in Host : InUse(g)' = InUse(g) + (IF g = h THEN 1 ELSE 0)
    PROVE  CountInv'
<1> SUFFICES ASSUME hostSelect = "weighed", NEW g \in Host PROVE running'[g] = InUse(g)'
  BY DEF CountInv, HandOut
<1>1. running' = [running EXCEPT ![h] = @ + 1] /\ running \in [Host -> Nat]
  BY DEF HandOut, HostTypes, HostTypeOK
<1> QED
  BY <1>1 DEF CountInv

LEMMA GiveBackCounts ==
    ASSUME HostTypes, CountInv, NEW h \in Host, GiveBack(h),
           \A g \in Host : InUse(g)' = InUse(g) - (IF g = h THEN 1 ELSE 0)
    PROVE  CountInv'
<1> SUFFICES ASSUME hostSelect = "weighed", NEW g \in Host PROVE running'[g] = InUse(g)'
  BY DEF CountInv, GiveBack
<1>1. running' = [running EXCEPT ![h] = @ - 1] /\ running \in [Host -> Nat]
  BY DEF GiveBack, HostTypes, HostTypeOK
<1> QED
  BY <1>1 DEF CountInv

(* Every such step keeps the counts right and the turns.                   *)
LEMMA HostStepKeeps ==
    ASSUME HostTypes, CountInv, TurnInv, HostStep
    PROVE  HostTypes' /\ CountInv' /\ TurnInv'
<1>0. Chosen \in Host /\ NoHost \notin Host
  BY ChosenIsHost DEF HostTypes, Host
<1>1. CASE UNCHANGED <<hostVars, mine, host>>
  BY <1>1 DEF HostTypes, HostTypeOK, CountInv, TurnInv, InUse, Later
<1>2. CASE HandOut(Chosen) /\ mine' = Append(mine, Chosen) /\ UNCHANGED host
  <2>1. HostTypes'
    BY <1>0, <1>2, HandOutTypes, MainTakes DEF HostTypes
  <2>2. ASSUME NEW g \in Host PROVE InUse(g)' = InUse(g) + (IF g = Chosen THEN 1 ELSE 0)
    <3>1. UsedBy(g)' = UsedBy(g)
      BY <1>2 DEF UsedBy
    <3>2. Cardinality(MineOf(g)') = Cardinality(MineOf(g)) + (IF g = Chosen THEN 1 ELSE 0)
      BY <1>0, <1>2, MainTakes
    <3>3. InUse(g)' = Cardinality(UsedBy(g)') + Cardinality(MineOf(g)')
      BY DEF InUse, UsedBy, MineOf
    <3> QED
      BY <3>1, <3>2, <3>3, InUseParts
  <2>3. CountInv'
    BY <1>0, <1>2, <2>2, HandOutCounts
  <2>4. TurnInv'
    BY <1>0, <1>2, HandOutTurns DEF HostTypes
  <2> QED
    BY <2>1, <2>3, <2>4
<1>3. CASE mine # <<>> /\ GiveBack(Last(mine)) /\ mine' = Front(mine) /\ UNCHANGED host
  <2>0. Last(mine) \in Host /\ mine' \in Seq(Host) /\ Cardinality(MineOf(Last(mine))) > 0
    BY <1>3, MainGivesBack
  <2>1. HostTypes'
    <3>1. hostSelect = "weighed" => running[Last(mine)] > 0
      BY <2>0, InUseParts DEF CountInv
    <3> QED
      BY <1>3, <2>0, <3>1, GiveBackTypes DEF HostTypes
  <2>2. ASSUME NEW g \in Host PROVE InUse(g)' = InUse(g) - (IF g = Last(mine) THEN 1 ELSE 0)
    <3>1. UsedBy(g)' = UsedBy(g)
      BY <1>3 DEF UsedBy
    <3>2. Cardinality(MineOf(g)') = Cardinality(MineOf(g)) - (IF g = Last(mine) THEN 1 ELSE 0)
      BY <1>3, MainGivesBack
    <3>3. InUse(g)' = Cardinality(UsedBy(g)') + Cardinality(MineOf(g)')
      BY DEF InUse, UsedBy, MineOf
    <3> QED
      BY <3>1, <3>2, <3>3, InUseParts
  <2>3. CountInv'
    BY <1>3, <2>0, <2>2, GiveBackCounts
  <2>4. TurnInv'
    BY <1>3, <2>0, GiveBackTurns DEF HostTypes
  <2> QED
    BY <2>1, <2>3, <2>4
<1>4. ASSUME NEW w \in Workers, host[w] = NoHost, HandOut(Chosen),
             host' = [host EXCEPT ![w] = Chosen], UNCHANGED mine
      PROVE  HostTypes' /\ CountInv' /\ TurnInv'
  <2>1. HostTypes'
    BY <1>0, <1>4, HandOutTypes DEF HostTypes
  <2>2. ASSUME NEW g \in Host PROVE InUse(g)' = InUse(g) + (IF g = Chosen THEN 1 ELSE 0)
    <3>1. MineOf(g)' = MineOf(g)
      BY <1>4 DEF MineOf
    <3>2. Cardinality(UsedBy(g)') = Cardinality(UsedBy(g)) + (IF g = Chosen THEN 1 ELSE 0)
      BY <1>0, <1>4, ThreadTakes
    <3>3. InUse(g)' = Cardinality(UsedBy(g)') + Cardinality(MineOf(g)')
      BY DEF InUse, UsedBy, MineOf
    <3> QED
      BY <3>1, <3>2, <3>3, InUseParts
  <2>3. CountInv'
    BY <1>0, <1>4, <2>2, HandOutCounts
  <2>4. TurnInv'
    BY <1>0, <1>4, HandOutTurns DEF HostTypes
  <2> QED
    BY <2>1, <2>3, <2>4
<1>5. ASSUME NEW w \in Workers, host[w] \in Host, GiveBack(host[w]),
             host' = [host EXCEPT ![w] = NoHost], UNCHANGED mine
      PROVE  HostTypes' /\ CountInv' /\ TurnInv'
  <2>1. HostTypes'
    <3>1. w \in UsedBy(host[w])
      BY DEF UsedBy
    <3>2. Cardinality(UsedBy(host[w])) > 0
      BY <3>1, UsedByFinite, FS_EmptySet
    <3>3. hostSelect = "weighed" => running[host[w]] > 0
      BY <1>5, <3>2, InUseParts DEF CountInv
    <3> QED
      BY <1>5, <3>3, GiveBackTypes DEF HostTypes
  <2>2. ASSUME NEW g \in Host PROVE InUse(g)' = InUse(g) - (IF g = host[w] THEN 1 ELSE 0)
    <3>1. MineOf(g)' = MineOf(g)
      BY <1>5 DEF MineOf
    <3>2. Cardinality(UsedBy(g)') = Cardinality(UsedBy(g)) - (IF g = host[w] THEN 1 ELSE 0)
      BY <1>5, ThreadGivesBack
    <3>3. InUse(g)' = Cardinality(UsedBy(g)') + Cardinality(MineOf(g)')
      BY DEF InUse, UsedBy, MineOf
    <3> QED
      BY <3>1, <3>2, <3>3, InUseParts
  <2>3. CountInv'
    BY <1>5, <2>2, GiveBackCounts
  <2>4. TurnInv'
    BY <1>5, GiveBackTurns DEF HostTypes
  <2> QED
    BY <2>1, <2>3, <2>4
<1> QED
  BY <1>1, <1>2, <1>3, <1>4, <1>5 DEF HostStep
-----------------------------------------------------------------------------
(* Every step of the benchmark is one of these: a thread that takes a      *)
(* client has none, one that gives a client back has it.                   *)
LEMMA MineLength ==
    ASSUME HostTypes, MineInv
    PROVE  /\ main \in {"clear", "cleared", "bucket", "versions"} => mine # <<>>
  BY DEF MineInv

LEMMA MainHostStep == ASSUME HostTypes, MineInv, Main PROVE HostStep
<1>1. ASSUME NEW a, NEW b, Borrow(a, b) PROVE HostStep
  BY <1>1 DEF Borrow, HostStep
<1>2. ASSUME NEW a \in {"clear", "cleared", "bucket", "versions"}, NEW b, Return(a, b)
      PROVE  HostStep
  BY <1>2, MineLength DEF Return, HostStep
<1>3. CASE CreateEmptyBucket
  BY <1>1, <1>2, <1>3 DEF CreateEmptyBucket
<1>4. CASE EnableVersioning
  BY <1>1, <1>2, <1>4 DEF EnableVersioning
<1>5. CASE PrepareRefuses \/ PrepareSpawns \/ PrepareReturns \/ StartReturns \/ Cleanup
  <2>1. UNCHANGED <<hostVars, mine, host>>
    BY <1>5 DEF PrepareRefuses, PrepareSpawns, PrepareReturns, StartReturns, Cleanup
  <2> QED
    BY <2>1 DEF HostStep
<1> QED
  BY <1>3, <1>4, <1>5 DEF Main

LEMMA ThreadHostStep ==
    ASSUME HostTypes, ThreadInv, NEW w \in Workers, PrepareThread(w) \/ Thread(w)
    PROVE  HostStep
<1>1. CASE UploadBegins(w)
  <2>1. host[w] = NoHost
    BY <1>1 DEF UploadBegins, ThreadInv, ThreadAt
  <2> QED
    BY <1>1, <2>1 DEF UploadBegins, HostStep
<1>2. CASE UploadStops(w) \/ UploadFails(w) \/ Leave(w) \/ getOp(w) \/ RanOut(w) \/ Serve(w)
  <2>1. UNCHANGED <<hostVars, mine, host>>
    BY <1>2 DEF UploadStops, UploadFails, Leave, getOp, RanOut, Serve
  <2> QED
    BY <2>1 DEF HostStep
<1>3. CASE UploadEnds(w)
  <2>1. host[w] \in Host
    BY <1>3 DEF UploadEnds, ThreadInv, ThreadAt
  <2> QED
    BY <1>3, <2>1 DEF UploadEnds, HostStep
<1>4. ASSUME NEW t, Takes(w, t) PROVE HostStep
  <2>1. host[w] = NoHost
    BY <1>4 DEF Takes, ThreadInv, ThreadAt
  <2> QED
    BY <1>4, <2>1 DEF Takes, HostStep
<1>5. ASSUME NEW t, Ends(w, t) PROVE HostStep
  <2>1. host[w] \in Host
    BY <1>5 DEF Ends, ThreadInv, ThreadAt, Busy
  <2> QED
    BY <1>5, <2>1 DEF Ends, HostStep
<1>6. CASE GetTakes(w) \/ StatTakes(w) \/ DeleteTakes(w) \/ MixedPutTakes(w) \/ newVersion(w)
  BY <1>4, <1>6 DEF GetTakes, StatTakes, DeleteTakes, MixedPutTakes, newVersion
<1>7. CASE GetEnds(w) \/ StatEnds(w) \/ DeleteEnds(w) \/ MixedPutEnds(w) \/ VersionedPutEnds(w)
  BY <1>5, <1>7 DEF GetEnds, StatEnds, DeleteEnds, MixedPutEnds, VersionedPutEnds
<1> QED
  BY <1>1, <1>2, <1>3, <1>6, <1>7 DEF PrepareThread, Thread, Mixed, Versioned

LEMMA NextHostStep == ASSUME HostTypes, MineInv, ThreadInv, Next PROVE HostStep
<1>1. CASE Cancel
  BY <1>1 DEF Cancel, HostStep
<1> QED
  BY <1>1, MainHostStep, ThreadHostStep DEF Next
-----------------------------------------------------------------------------
(* What a step does to the threads and the objects.  All operations begin  *)
(* and end alike: one that needs an object takes it out of the pool, an    *)
(* upload names a new one; at the end the object is given back unless it   *)
(* was deleted, and what was uploaded joins the pool.                      *)
AsideMain == <<config, done, todo, groupErr, pc, op, obj, new, ok, host, issued, storeVars>>
BeforeUpload == main \in Starting /\ main' \in Starting \cup {"failed"} /\ UNCHANGED AsideMain

TakesObject(w) ==
    /\ main = "run" /\ pc[w] = "take"
    /\ op[w] # "PUT" \/ versioned
    /\ \E o \in pool : obj' = [obj EXCEPT ![w] = o] /\ pool' = pool \ {o}
    /\ IF op[w] = "PUT"
       THEN /\ made' = made + 1
            /\ \E n \in Object : n.num = made + 1 /\ new' = [new EXCEPT ![w] = n]
       ELSE UNCHANGED <<new, made>>
    /\ pc' = [pc EXCEPT ![w] = "sent"]
    /\ host' = [host EXCEPT ![w] = Chosen]
    /\ UNCHANGED <<config, main, done, todo, groupErr, op, ok, issued, bucket, lost>>

NamesObject(w) ==
    /\ main = "run" /\ pc[w] = "take"
    /\ op[w] = "PUT" /\ ~versioned
    /\ made' = made + 1
    /\ \E n \in Object : n.num = made + 1 /\ new' = [new EXCEPT ![w] = n]
    /\ pc' = [pc EXCEPT ![w] = "sent"]
    /\ host' = [host EXCEPT ![w] = Chosen]
    /\ UNCHANGED <<config, main, done, todo, groupErr, op, obj, ok, issued, pool, bucket, lost>>

GivenBack(w) ==
    (IF op[w] = "PUT" /\ ok[w] THEN {new[w]} ELSE {})
        \cup (IF obj[w] # NoObject /\ op[w] # "DELETE" THEN {obj[w]} ELSE {})
Finishes(w) ==
    /\ main = "run" /\ pc[w] = "reply"
    /\ pool' = pool \cup GivenBack(w)
    /\ issued' = IF op[w] = "PUT" THEN [issued EXCEPT !["failed"] = @ + IF ok[w] THEN 0 ELSE 1]
                 ELSE issued
    /\ obj' = [obj EXCEPT ![w] = NoObject]
    /\ new' = [new EXCEPT ![w] = NoObject]
    /\ op' = [op EXCEPT ![w] = NoOp]
    /\ ok' = [ok EXCEPT ![w] = FALSE]
    /\ pc' = [pc EXCEPT ![w] = "next"]
    /\ host' = [host EXCEPT ![w] = NoHost]
    /\ UNCHANGED <<config, main, done, todo, groupErr, made, bucket, lost>>

(* The types of what the threads and the server have.                      *)
ObjTypes ==
    /\ versioned \in BOOLEAN /\ create \in Creates /\ ops \in OpLists
    /\ done \in BOOLEAN /\ groupErr \in BOOLEAN
    /\ todo \in Nat /\ made \in Nat
    /\ pc \in [Workers -> {"idle", "next", "take", "sent", "reply", "left"}]
    /\ op \in [Workers -> {"GET", "PUT", "DELETE", "STAT", NoOp}]
    /\ obj \in [Workers -> Object \cup {NoObject}]
    /\ new \in [Workers -> Object \cup {NoObject}]
    /\ ok \in [Workers -> BOOLEAN]
    /\ issued \in [{"GET", "PUT", "DELETE", "STAT", "failed"} -> Nat]
    /\ pool \subseteq Object /\ bucket \subseteq Object /\ lost \subseteq Object
Mains == Starting \cup {"upload", "run", "cleanup", "done", "failed", "panic"}

LEMMA TypesInParts == PoolTypeOK <=> HostTypes /\ ObjTypes /\ main \in Mains
  BY DEF PoolTypeOK, HostTypes, ObjTypes, Mains, Starting

LEMMA TypesInPartsNext == PoolTypeOK' <=> HostTypes' /\ ObjTypes' /\ main' \in Mains
  BY DEF PoolTypeOK, HostTypes, ObjTypes, Mains, Starting

(* A new object: NoObject has number 0.                                    *)
LEMMA FreshObject ==
    ASSUME made \in Nat, NEW w \in Workers, NEW stage \in {"prepare", "start"}
    PROVE  Fresh(stage, w) \in Object /\ Fresh(stage, w).num = made + 1
  BY DEF Fresh, Object

LEMMA VersionObject ==
    ASSUME made \in Nat, NEW o \in Object
    PROVE  [num |-> made + 1, name |-> o.name, prefix |-> o.prefix] \in Object
  BY DEF Object

LEMMA StartTakes ==
    ASSUME ObjTypes, NEW w \in Workers,
           GetTakes(w) \/ StatTakes(w) \/ DeleteTakes(w) \/ newVersion(w)
    PROVE  TakesObject(w)
<1>1. ASSUME Read(w) \/ randomObjRead(w)
      PROVE  \E o \in pool : obj' = [obj EXCEPT ![w] = o] /\ pool' = pool \ {o}
  BY <1>1 DEF Read, randomObj, randomObjRead
<1>2. CASE GetTakes(w) \/ StatTakes(w) \/ DeleteTakes(w)
  <2>1. Read(w) /\ op[w] \in {"GET", "STAT", "DELETE"}
    BY <1>2 DEF GetTakes, StatTakes, DeleteTakes, deleteRandomObj, Takes
  <2>2. /\ main = "run" /\ pc[w] = "take"
        /\ pc' = [pc EXCEPT ![w] = "sent"]
        /\ host' = [host EXCEPT ![w] = Chosen]
        /\ UNCHANGED <<config, main, done, todo, groupErr, op, ok, issued, bucket, lost, new, made>>
    BY <1>2 DEF GetTakes, StatTakes, DeleteTakes, Takes
  <2> QED
    BY <1>1, <2>1, <2>2 DEF TakesObject
<1>3. CASE newVersion(w)
  <2>1. /\ op[w] = "PUT" /\ versioned /\ randomObjRead(w)
        /\ new' = [new EXCEPT ![w] = [num |-> made + 1, name |-> obj'[w].name,
                                      prefix |-> obj'[w].prefix]]
        /\ made' = made + 1
    BY <1>3 DEF newVersion, Takes
  <2>2. /\ main = "run" /\ pc[w] = "take"
        /\ pc' = [pc EXCEPT ![w] = "sent"]
        /\ host' = [host EXCEPT ![w] = Chosen]
        /\ UNCHANGED <<config, main, done, todo, groupErr, op, ok, issued, bucket, lost>>
    BY <1>3 DEF newVersion, Takes
  <2>3. obj'[w] \in Object
    BY <1>1, <2>1 DEF ObjTypes
  <2>4. \E n \in Object : n.num = made + 1 /\ new' = [new EXCEPT ![w] = n]
    BY <2>1, <2>3, VersionObject DEF ObjTypes
  <2> QED
    BY <1>1, <2>1, <2>2, <2>4 DEF TakesObject
<1> QED
  BY <1>2, <1>3

LEMMA StartNames ==
    ASSUME ObjTypes, NEW w \in Workers, MixedPutTakes(w)
    PROVE  NamesObject(w)
<1>1. \E n \in Object : n.num = made + 1 /\ new' = [new EXCEPT ![w] = n]
  BY FreshObject DEF MixedPutTakes, ObjTypes
<1> QED
  BY <1>1 DEF MixedPutTakes, Takes, NamesObject

LEMMA StartFinishes ==
    ASSUME ObjTypes, ThreadInv, NEW w \in Workers,
           GetEnds(w) \/ StatEnds(w) \/ DeleteEnds(w) \/ MixedPutEnds(w) \/ VersionedPutEnds(w)
    PROVE  Finishes(w)
<1>1. /\ main = "run" /\ pc[w] = "reply"
      /\ obj' = [obj EXCEPT ![w] = NoObject]
      /\ new' = [new EXCEPT ![w] = NoObject]
      /\ op' = [op EXCEPT ![w] = NoOp]
      /\ ok' = [ok EXCEPT ![w] = FALSE]
      /\ pc' = [pc EXCEPT ![w] = "next"]
      /\ host' = [host EXCEPT ![w] = NoHost]
      /\ UNCHANGED <<config, main, done, todo, groupErr, made, bucket, lost>>
  BY DEF GetEnds, StatEnds, DeleteEnds, MixedPutEnds, VersionedPutEnds, Ends
<1>2. IF op[w] # "PUT" \/ versioned THEN obj[w] \in Object ELSE obj[w] = NoObject
  BY <1>1 DEF ThreadInv, ThreadAt, Busy
<1>3. NoObject \notin Object
  BY DEF NoObject, Object
<1>4. /\ pool' = pool \cup GivenBack(w)
      /\ issued' = IF op[w] = "PUT" THEN [issued EXCEPT !["failed"] = @ + IF ok[w] THEN 0 ELSE 1]
                   ELSE issued
  <2>1. CASE GetEnds(w) \/ StatEnds(w)
    BY <1>2, <1>3, <2>1 DEF GetEnds, StatEnds, Ends, GivenBack
  <2>2. CASE DeleteEnds(w)
    BY <2>2 DEF DeleteEnds, Ends, GivenBack
  <2>3. CASE MixedPutEnds(w)
    BY <1>2, <2>3 DEF MixedPutEnds, Ends, GivenBack, Added, CountFailed
  <2>4. CASE VersionedPutEnds(w)
    BY <1>2, <1>3, <2>4 DEF VersionedPutEnds, Ends, GivenBack, Added, CountFailed
  <2> QED
    BY <2>1, <2>2, <2>3, <2>4
<1> QED
  BY <1>1, <1>4 DEF Finishes

LEMMA PrepareMains == ASSUME PrepareRefuses \/ CreateEmptyBucket \/ EnableVersioning PROVE BeforeUpload
<1>1. ASSUME NEW a \in Starting, NEW b \in Starting \cup {"failed"}, Borrow(a, b) \/ Return(a, b)
      PROVE  BeforeUpload
  BY <1>1 DEF Borrow, Return, BeforeUpload, AsideMain
<1>2. CASE PrepareRefuses
  BY <1>2 DEF PrepareRefuses, BeforeUpload, AsideMain, Starting
<1> USE DEF Starting
<1>3. CASE CreateEmptyBucket
  BY <1>1, <1>3 DEF CreateEmptyBucket
<1>4. CASE EnableVersioning
  BY <1>1, <1>4 DEF EnableVersioning
<1> QED
  BY <1>2, <1>3, <1>4
-----------------------------------------------------------------------------
(* The steps of the benchmark, apart from the hosts.                       *)
StepForm ==
    \/ BeforeUpload \/ PrepareSpawns \/ PrepareReturns
    \/ StartReturns \/ Cleanup \/ Cancel
    \/ \E w \in Workers :
           \/ UploadBegins(w) \/ UploadStops(w) \/ UploadEnds(w) \/ UploadFails(w)
           \/ Leave(w) \/ getOp(w) \/ RanOut(w) \/ Serve(w)
           \/ TakesObject(w) \/ NamesObject(w) \/ Finishes(w)

LEMMA NextStepForm == ASSUME ObjTypes, ThreadInv, Next PROVE StepForm
<1>1. CASE Main
  <2>1. CASE PrepareRefuses \/ CreateEmptyBucket \/ EnableVersioning
    BY <2>1, PrepareMains DEF StepForm
  <2> QED
    BY <1>1, <2>1 DEF Main, StepForm
<1>2. CASE Cancel
  BY <1>2 DEF StepForm
<1>3. ASSUME NEW w \in Workers, PrepareThread(w) PROVE StepForm
  BY <1>3 DEF PrepareThread, StepForm
<1>4. ASSUME NEW w \in Workers, Thread(w) PROVE StepForm
  <2>1. CASE GetTakes(w) \/ StatTakes(w) \/ DeleteTakes(w) \/ newVersion(w)
    BY <2>1, StartTakes DEF StepForm
  <2>2. CASE MixedPutTakes(w)
    BY <2>2, StartNames DEF StepForm
  <2>3. CASE GetEnds(w) \/ StatEnds(w) \/ DeleteEnds(w) \/ MixedPutEnds(w) \/ VersionedPutEnds(w)
    BY <2>3, StartFinishes DEF StepForm
  <2>4. CASE Leave(w) \/ getOp(w) \/ RanOut(w) \/ Serve(w)
    BY <2>4 DEF StepForm
  <2> QED
    BY <1>4, <2>1, <2>2, <2>3, <2>4 DEF Thread, Mixed, Versioned
<1> QED
  BY <1>1, <1>2, <1>3, <1>4 DEF Next

(* The goroutine of the benchmark is somewhere.                            *)
LEMMA MainsKept ==
    ASSUME main \in Mains, StepForm
    PROVE  (main \in Mains)'
<1> USE DEF Mains, Starting
<1>1. CASE BeforeUpload
  BY <1>1 DEF BeforeUpload, AsideMain
<1>2. CASE PrepareSpawns
  BY <1>2 DEF PrepareSpawns
<1>3. CASE PrepareReturns
  BY <1>3 DEF PrepareReturns
<1>4. CASE StartReturns
  BY <1>4 DEF StartReturns
<1>5. CASE Cleanup
  BY <1>5 DEF Cleanup
<1>6. CASE Cancel
  BY <1>6 DEF Cancel
<1>7. ASSUME NEW w \in Workers, UploadBegins(w) PROVE (main \in Mains)'
  BY <1>7 DEF UploadBegins
<1>8. ASSUME NEW w \in Workers, UploadStops(w) PROVE (main \in Mains)'
  BY <1>8 DEF UploadStops
<1>9. ASSUME NEW w \in Workers, UploadEnds(w) PROVE (main \in Mains)'
  BY <1>9 DEF UploadEnds
<1>10. ASSUME NEW w \in Workers, UploadFails(w) PROVE (main \in Mains)'
  BY <1>10 DEF UploadFails
<1>11. ASSUME NEW w \in Workers, Leave(w) PROVE (main \in Mains)'
  BY <1>11 DEF Leave
<1>12. ASSUME NEW w \in Workers, getOp(w) PROVE (main \in Mains)'
  BY <1>12 DEF getOp
<1>13. ASSUME NEW w \in Workers, RanOut(w) PROVE (main \in Mains)'
  BY <1>13 DEF RanOut
<1>14. ASSUME NEW w \in Workers, Serve(w) PROVE (main \in Mains)'
  BY <1>14 DEF Serve
<1>15. ASSUME NEW w \in Workers, TakesObject(w) PROVE (main \in Mains)'
  BY <1>15 DEF TakesObject
<1>16. ASSUME NEW w \in Workers, NamesObject(w) PROVE (main \in Mains)'
  BY <1>16 DEF NamesObject
<1>17. ASSUME NEW w \in Workers, Finishes(w) PROVE (main \in Mains)'
  BY <1>17 DEF Finishes
<1> QED
  BY <1>1, <1>2, <1>3, <1>4, <1>5, <1>6, <1>7, <1>8, <1>9, <1>10, <1>11, <1>12, <1>13, <1>14, <1>15, <1>16, <1>17 DEF StepForm

(* The next operation of the list is one of the four.                      *)
LEMMA IssuedOp ==
    ASSUME ObjTypes
    PROVE  ops[(Total % Len(ops)) + 1] \in {"GET", "PUT", "DELETE", "STAT"}
<1>1. ops \in Seq({"GET", "PUT", "DELETE", "STAT"}) /\ ops # <<>>
  BY OpListsAssumption DEF ObjTypes
<1>2. Len(ops) \in Nat \ {0}
  BY <1>1
<1>3. Total \in Nat
  BY DEF Total, ObjTypes
<1>4. (Total % Len(ops)) + 1 \in 1 .. Len(ops)
  BY <1>2, <1>3
<1> QED
  BY <1>1, <1>4, ElementOfSeq

(* Every step keeps the types.                                             *)
LEMMA ObjTypesKept ==
    ASSUME ObjTypes, ThreadInv, StepForm
    PROVE  ObjTypes'
<1> USE DEF ObjTypes
<1>1. CASE BeforeUpload
  BY <1>1 DEF BeforeUpload, AsideMain
<1>2. CASE PrepareSpawns
  <2>1. todo' \in Nat
    BY <1>2, CreatesAssumption DEF PrepareSpawns
  <2> QED
    BY <1>2, <2>1 DEF PrepareSpawns
<1>3. CASE PrepareReturns
  BY <1>3 DEF PrepareReturns
<1>4. CASE StartReturns
  BY <1>4 DEF StartReturns
<1>5. CASE Cleanup
  BY <1>5 DEF Cleanup
<1>6. CASE Cancel
  BY <1>6 DEF Cancel
<1>7. ASSUME NEW w \in Workers, UploadBegins(w) PROVE ObjTypes'
  <2>1. Fresh("prepare", w) \in Object
    BY FreshObject
  <2>2. todo' \in Nat /\ made' \in Nat
    BY <1>7 DEF UploadBegins
  <2> QED
    BY <1>7, <2>1, <2>2 DEF UploadBegins
<1>8. ASSUME NEW w \in Workers, UploadStops(w) PROVE ObjTypes'
  <2>1. todo' \in Nat
    BY <1>8 DEF UploadStops
  <2> QED
    BY <1>8, <2>1 DEF UploadStops
<1>9. ASSUME NEW w \in Workers, UploadEnds(w) PROVE ObjTypes'
  <2>1. new[w] \in Object
    BY <1>9 DEF UploadEnds, ThreadInv, ThreadAt
  <2> QED
    BY <1>9, <2>1 DEF UploadEnds
<1>10. ASSUME NEW w \in Workers, UploadFails(w) PROVE ObjTypes'
  <2>1. new[w] \in Object
    BY <1>10 DEF UploadFails, ThreadInv, ThreadAt
  <2>2. bucket' \subseteq Object
    BY <1>10, <2>1 DEF UploadFails
  <2> QED
    BY <1>10, <2>2 DEF UploadFails
<1>11. ASSUME NEW w \in Workers, Leave(w) PROVE ObjTypes'
  BY <1>11 DEF Leave
<1>12. ASSUME NEW w \in Workers, getOp(w) PROVE ObjTypes'
  <2> DEFINE t == ops[(Total % Len(ops)) + 1]
  <2>1. t \in {"GET", "PUT", "DELETE", "STAT"}
    BY IssuedOp
  <2> HIDE DEF t
  <2>2. issued' = [issued EXCEPT ![t] = @ + 1] /\ op' = [op EXCEPT ![w] = t]
    BY <1>12 DEF getOp, t
  <2>3. issued' \in [{"GET", "PUT", "DELETE", "STAT", "failed"} -> Nat]
    BY <2>1, <2>2
  <2> QED
    BY <1>12, <2>1, <2>2, <2>3 DEF getOp
<1>13. ASSUME NEW w \in Workers, RanOut(w) PROVE ObjTypes'
  BY <1>13 DEF RanOut
<1>14. ASSUME NEW w \in Workers, Serve(w) PROVE ObjTypes'
  <2>1. Busy(w)
    BY <1>14 DEF Serve, ThreadInv, ThreadAt
  <2>2. op[w] = "PUT" => new[w] \in Object
    BY <2>1 DEF Busy
  <2>3. op[w] # "PUT" => obj[w] \in Object
    BY <2>1 DEF Busy
  <2>4. Effect(w) \subseteq Object
    BY <2>2 DEF Effect
  <2>5. bucket' \subseteq Object
    BY <1>14, <2>4 DEF Serve
  <2>6. lost' \subseteq Object
    BY <1>14, <2>2, <2>3 DEF Serve
  <2>7. ok' \in [Workers -> BOOLEAN]
    BY <1>14 DEF Serve
  <2> QED
    BY <1>14, <2>5, <2>6, <2>7 DEF Serve
<1>15. ASSUME NEW w \in Workers, TakesObject(w) PROVE ObjTypes'
  <2>1. obj' \in [Workers -> Object \cup {NoObject}] /\ pool' \subseteq Object
    BY <1>15 DEF TakesObject
  <2>2. new' \in [Workers -> Object \cup {NoObject}] /\ made' \in Nat
    BY <1>15 DEF TakesObject
  <2> QED
    BY <1>15, <2>1, <2>2 DEF TakesObject
<1>16. ASSUME NEW w \in Workers, NamesObject(w) PROVE ObjTypes'
  <2>1. new' \in [Workers -> Object \cup {NoObject}] /\ made' \in Nat
    BY <1>16 DEF NamesObject
  <2> QED
    BY <1>16, <2>1 DEF NamesObject
<1>17. ASSUME NEW w \in Workers, Finishes(w) PROVE ObjTypes'
  <2>1. Busy(w)
    BY <1>17 DEF Finishes, ThreadInv, ThreadAt
  <2>2. GivenBack(w) \subseteq Object
    BY <2>1 DEF GivenBack, Busy
  <2>3. issued' \in [{"GET", "PUT", "DELETE", "STAT", "failed"} -> Nat]
    BY <1>17 DEF Finishes
  <2> QED
    BY <1>17, <2>2, <2>3 DEF Finishes
<1> QED
  BY <1>1, <1>2, <1>3, <1>4, <1>5, <1>6, <1>7, <1>8, <1>9, <1>10, <1>11, <1>12, <1>13, <1>14, <1>15, <1>16, <1>17 DEF StepForm
-----------------------------------------------------------------------------
(* Every step keeps the threads where the main goroutine has them.         *)
LEMMA ThreadInvKept ==
    ASSUME HostTypes, ObjTypes, main \in Mains, ThreadInv, StepForm
    PROVE  ThreadInv'
<1> USE DEF ThreadInv, ThreadAt, ObjTypes, Idle, Busy
<1>0. Chosen \in Host /\ host \in [Workers -> Host \cup {NoHost}]
  BY ChosenIsHost DEF HostTypes
<1>1. CASE BeforeUpload
  BY <1>1, <1>0 DEF BeforeUpload, Starting, AsideMain
<1>2. CASE PrepareSpawns
  BY <1>2, <1>0 DEF PrepareSpawns, Starting
<1>3. CASE PrepareReturns
  <2> SUFFICES ASSUME NEW v \in Workers PROVE ThreadAt(v)'
    BY DEF ThreadInv
  <2>1. pc[v] = "left" /\ ThreadAt(v) /\ main = "upload"
    BY <1>3 DEF PrepareReturns, ThreadInv
  <2>2. Idle(v)'
    BY <1>3, <2>1 DEF PrepareReturns, ThreadAt
  <2>3. CASE groupErr
    BY <1>3, <2>2, <2>3 DEF PrepareReturns, ThreadAt, Starting
  <2>4. CASE ~groupErr
    <3>1. main' = "run" /\ pc'[v] = "next" /\ UNCHANGED host
      BY <1>3, <2>4 DEF PrepareReturns
    <3>2. host[v] = NoHost
      BY <2>1, <2>4 DEF ThreadAt
    <3> QED
      BY <2>2, <3>1, <3>2 DEF ThreadAt, Starting
  <2> QED
    BY <2>3, <2>4
<1>4. CASE StartReturns
  <2> SUFFICES ASSUME NEW v \in Workers PROVE ThreadAt(v)'
    BY DEF ThreadInv
  <2>1. main' = "cleanup" /\ pc'[v] = "left" /\ Idle(v)'
    BY <1>4 DEF StartReturns, ThreadInv, ThreadAt
  <2> QED
    BY <2>1 DEF ThreadAt, Starting
<1>5. CASE Cleanup
  <2> SUFFICES ASSUME NEW v \in Workers PROVE ThreadAt(v)'
    BY DEF ThreadInv
  <2>1. main' = "done" /\ pc'[v] = "left" /\ Idle(v)'
    BY <1>5 DEF Cleanup, ThreadInv, ThreadAt
  <2> QED
    BY <2>1 DEF ThreadAt, Starting
<1>6. CASE Cancel
  BY <1>6, <1>0 DEF Cancel
<1>7. ASSUME NEW w \in Workers, UploadBegins(w) PROVE ThreadInv'
  <2> SUFFICES ASSUME NEW v \in Workers PROVE ThreadAt(v)'
    BY DEF ThreadInv
  <2>1. ThreadAt(v) /\ main = "upload" /\ main' = "upload" /\ pc[w] = "next"
    BY <1>7 DEF ThreadInv, UploadBegins
  <2>2. CASE v # w
    BY <1>7, <2>1, <2>2 DEF UploadBegins, ThreadAt
  <2>3. CASE v = w
    <3>1. Fresh("prepare", w) \in Object
      BY FreshObject
    <3>2. host'[v] \in Host /\ new'[v] \in Object /\ pc'[v] = "sent" /\ UNCHANGED <<op, obj>>
      BY <1>7, <1>0, <2>3, <3>1 DEF UploadBegins
    <3> QED
      BY <2>1, <2>3, <3>2 DEF ThreadAt
  <2> QED
    BY <2>2, <2>3
<1>8. ASSUME NEW w \in Workers, UploadStops(w) PROVE ThreadInv'
  BY <1>8, <1>0 DEF UploadStops
<1>9. ASSUME NEW w \in Workers, UploadEnds(w) PROVE ThreadInv'
  BY <1>9, <1>0 DEF UploadEnds
<1>10. ASSUME NEW w \in Workers, UploadFails(w) PROVE ThreadInv'
  BY <1>10, <1>0 DEF UploadFails
<1>11. ASSUME NEW w \in Workers, Leave(w) PROVE ThreadInv'
  BY <1>11, <1>0 DEF Leave
<1>12. ASSUME NEW w \in Workers, getOp(w) PROVE ThreadInv'
  <2> SUFFICES ASSUME NEW v \in Workers PROVE ThreadAt(v)'
    BY DEF ThreadInv
  <2>1. ThreadAt(v) /\ main = "run" /\ main' = "run" /\ pc[w] = "next"
    BY <1>12 DEF ThreadInv, getOp
  <2>2. CASE v # w
    BY <1>12, <2>1, <2>2 DEF getOp, ThreadAt
  <2>3. CASE v = w
    <3>1. ops[(Total % Len(ops)) + 1] # NoOp
      BY IssuedOp
    <3>2. op'[v] # NoOp /\ pc'[v] = "take" /\ UNCHANGED <<obj, new, host>>
      BY <1>12, <2>3, <3>1 DEF getOp
    <3> QED
      BY <2>1, <2>3, <3>2 DEF ThreadAt
  <2> QED
    BY <2>2, <2>3
<1>13. ASSUME NEW w \in Workers, RanOut(w) PROVE ThreadInv'
  <2> SUFFICES ASSUME NEW v \in Workers PROVE ThreadAt(v)'
    BY DEF ThreadInv
  <2>1. main = "run" /\ main' = "panic" /\ UNCHANGED threadVars /\ UNCHANGED versioned
    BY <1>13 DEF RanOut
  <2>2. ThreadAt(v)
    BY DEF ThreadInv
  <2> QED
    BY <2>1, <2>2 DEF ThreadAt, Starting
<1>14. ASSUME NEW w \in Workers, Serve(w) PROVE ThreadInv'
  BY <1>14, <1>0 DEF Serve
<1>15. ASSUME NEW w \in Workers, TakesObject(w) PROVE ThreadInv'
  BY <1>15, <1>0 DEF TakesObject
<1>16. ASSUME NEW w \in Workers, NamesObject(w) PROVE ThreadInv'
  BY <1>16, <1>0 DEF NamesObject
<1>17. ASSUME NEW w \in Workers, Finishes(w) PROVE ThreadInv'
  BY <1>17, <1>0 DEF Finishes
<1> QED
  BY <1>1, <1>2, <1>3, <1>4, <1>5, <1>6, <1>7, <1>8, <1>9, <1>10, <1>11, <1>12, <1>13, <1>14, <1>15, <1>16, <1>17 DEF StepForm

(* The goroutine of the benchmark holds as many clients as it should.      *)
LEMMA MineInvKept == ASSUME HostTypes, MineInv, main \in Mains, Next PROVE MineInv'
<1>1. ASSUME NEW a, NEW b, Borrow(a, b) PROVE Len(mine') = Len(mine) + 1 /\ main = a /\ main' = b
  BY <1>1, ChosenIsHost DEF Borrow, HostTypes
<1>2. ASSUME NEW a, NEW b, Return(a, b), mine # <<>>
      PROVE  Len(mine') = Len(mine) - 1 /\ main = a /\ main' = b
  BY <1>2, MainGivesBack DEF Return
<1>3. CASE CreateEmptyBucket
  BY <1>1, <1>2, <1>3, MineLength DEF CreateEmptyBucket, MineInv, Return
<1>4. CASE EnableVersioning
  BY <1>1, <1>2, <1>4, MineLength DEF EnableVersioning, MineInv, Return
<1>5. CASE UNCHANGED <<main, mine>>
  BY <1>5 DEF MineInv
<1>6. CASE PrepareRefuses \/ PrepareSpawns \/ PrepareReturns \/ StartReturns \/ Cleanup
  BY <1>6 DEF PrepareRefuses, PrepareSpawns, PrepareReturns, StartReturns, Cleanup, MineInv
<1>7. CASE Cancel
  BY <1>5, <1>7 DEF Cancel
<1>8. ASSUME NEW w \in Workers, RanOut(w) PROVE MineInv'
  BY <1>8 DEF RanOut, MineInv
<1>9. ASSUME NEW w \in Workers, PrepareThread(w) PROVE UNCHANGED <<main, mine>>
  BY <1>9 DEF PrepareThread, UploadBegins, UploadStops, UploadEnds, UploadFails
<1>10. ASSUME NEW w \in Workers, Thread(w), ~RanOut(w) PROVE UNCHANGED <<main, mine>>
  BY <1>10 DEF Thread, Leave, getOp, Serve, GetTakes, StatTakes, DeleteTakes, GetEnds, StatEnds,
               DeleteEnds, Mixed, Versioned, MixedPutTakes, MixedPutEnds, newVersion,
               VersionedPutEnds, Takes, Ends
<1> QED
  BY <1>3, <1>4, <1>5, <1>6, <1>7, <1>8, <1>9, <1>10 DEF Next, Main
-----------------------------------------------------------------------------
(* An object with the next number is none of those there are.              *)
LEMMA NewIsNew ==
    ASSUME ObjTypes, NumberInv, NEW n, n.num = made + 1
    PROVE  /\ n # NoObject /\ n \notin pool \cup bucket \cup lost
           /\ \A v \in Workers : n # obj[v] /\ n # new[v]
<1>1. made \in Nat /\ NoObject.num = 0
  BY DEF ObjTypes, NoObject
<1>2. ~ (n.num <= made)
  BY <1>1
<1> QED
  BY <1>1, <1>2 DEF NumberInv

LEMMA NumbersAreNat ==
    ASSUME ObjTypes
    PROVE  /\ made \in Nat
           /\ \A o \in Object \cup {NoObject} : o.num \in Nat
           /\ NoObject.num = 0 /\ NoObject \notin Object
           /\ \A w \in Workers : obj[w] \in Object \cup {NoObject} /\ new[w] \in Object \cup {NoObject}
           /\ pool \cup bucket \cup lost \subseteq Object
  BY DEF ObjTypes, Object, NoObject

(* Every step keeps the numbers below the number of objects made.          *)
LEMMA NumberInvKept ==
    ASSUME ObjTypes, ThreadInv, NumberInv, StepForm
    PROVE  NumberInv'
<1> USE DEF NumberInv
<1>0. /\ made \in Nat /\ NoObject.num = 0
      /\ \A o \in pool \cup bucket \cup lost : o.num \in Nat
      /\ \A w \in Workers : obj[w].num \in Nat /\ new[w].num \in Nat
  BY NumbersAreNat
<1>1. CASE BeforeUpload
  BY <1>1 DEF BeforeUpload, AsideMain
<1>2. CASE PrepareSpawns
  BY <1>2 DEF PrepareSpawns
<1>3. CASE PrepareReturns
  BY <1>3 DEF PrepareReturns
<1>4. CASE StartReturns
  BY <1>4 DEF StartReturns
<1>5. CASE Cleanup
  BY <1>5 DEF Cleanup
<1>6. CASE Cancel
  BY <1>6 DEF Cancel
<1>7. ASSUME NEW w \in Workers, UploadBegins(w) PROVE NumberInv'
  <2>1. made' = made + 1 /\ Fresh("prepare", w).num = made + 1
    BY <1>7, <1>0, FreshObject DEF UploadBegins
  <2>2. new' = [new EXCEPT ![w] = Fresh("prepare", w)] /\ UNCHANGED <<obj, pool, bucket, lost>>
    BY <1>7 DEF UploadBegins
  <2> QED
    BY <1>0, <2>1, <2>2 DEF ObjTypes
<1>8. ASSUME NEW w \in Workers, UploadStops(w) PROVE NumberInv'
  BY <1>8 DEF UploadStops
<1>9. ASSUME NEW w \in Workers, UploadEnds(w) PROVE NumberInv'
  <2>1. pool' = pool \cup {new[w]} /\ bucket' = bucket \cup {new[w]}
        /\ new' = [new EXCEPT ![w] = NoObject] /\ UNCHANGED <<obj, lost, made>>
    BY <1>9 DEF UploadEnds
  <2> QED
    BY <1>0, <2>1 DEF ObjTypes
<1>10. ASSUME NEW w \in Workers, UploadFails(w) PROVE NumberInv'
  <2>1. bucket' \subseteq bucket \cup {new[w]}
        /\ new' = [new EXCEPT ![w] = NoObject] /\ UNCHANGED <<obj, lost, made, pool>>
    BY <1>10 DEF UploadFails
  <2> QED
    BY <1>0, <2>1 DEF ObjTypes
<1>11. ASSUME NEW w \in Workers, Leave(w) PROVE NumberInv'
  BY <1>11 DEF Leave
<1>12. ASSUME NEW w \in Workers, getOp(w) PROVE NumberInv'
  BY <1>12 DEF getOp
<1>13. ASSUME NEW w \in Workers, RanOut(w) PROVE NumberInv'
  BY <1>13 DEF RanOut
<1>14. ASSUME NEW w \in Workers, Serve(w) PROVE NumberInv'
  <2>1. Effect(w) \subseteq bucket \cup {new[w]} /\ (op[w] # "PUT" => Effect(w) \subseteq bucket)
    BY DEF Effect
  <2>2. bucket' \subseteq bucket \cup {new[w]} /\ lost' \subseteq lost \cup {new[w], obj[w]}
        /\ UNCHANGED <<obj, new, made, pool>>
    BY <1>14, <2>1 DEF Serve
  <2> QED
    BY <1>0, <2>2
<1>15. ASSUME NEW w \in Workers, TakesObject(w) PROVE NumberInv'
  <2>1. PICK o \in pool : obj' = [obj EXCEPT ![w] = o] /\ pool' = pool \ {o}
    BY <1>15 DEF TakesObject
  <2>2. UNCHANGED <<bucket, lost>>
    BY <1>15 DEF TakesObject
  <2>3. CASE op[w] = "PUT"
    <3>1. PICK n \in Object : n.num = made + 1 /\ new' = [new EXCEPT ![w] = n]
      BY <1>15, <2>3 DEF TakesObject
    <3>2. made' = made + 1
      BY <1>15, <2>3 DEF TakesObject
    <3> QED
      BY <1>0, <2>1, <2>2, <3>1, <3>2 DEF ObjTypes
  <2>4. CASE op[w] # "PUT"
    <3>1. UNCHANGED <<new, made>>
      BY <1>15, <2>4 DEF TakesObject
    <3> QED
      BY <1>0, <2>1, <2>2, <3>1 DEF ObjTypes
  <2> QED
    BY <2>3, <2>4
<1>16. ASSUME NEW w \in Workers, NamesObject(w) PROVE NumberInv'
  <2>1. PICK n \in Object : n.num = made + 1 /\ new' = [new EXCEPT ![w] = n]
    BY <1>16 DEF NamesObject
  <2>2. made' = made + 1 /\ UNCHANGED <<obj, pool, bucket, lost>>
    BY <1>16 DEF NamesObject
  <2> QED
    BY <1>0, <2>1, <2>2 DEF ObjTypes
<1>17. ASSUME NEW w \in Workers, Finishes(w) PROVE NumberInv'
  <2>1. pool' \subseteq pool \cup {obj[w], new[w]}
    BY <1>17 DEF Finishes, GivenBack
  <2>2. /\ obj' = [obj EXCEPT ![w] = NoObject] /\ new' = [new EXCEPT ![w] = NoObject]
        /\ UNCHANGED <<bucket, lost, made>>
    BY <1>17 DEF Finishes
  <2> QED
    BY <1>0, <2>1, <2>2 DEF ObjTypes
<1> QED
  BY <1>1, <1>2, <1>3, <1>4, <1>5, <1>6, <1>7, <1>8, <1>9, <1>10, <1>11, <1>12, <1>13, <1>14, <1>15, <1>16, <1>17 DEF StepForm

(* Every step keeps what the threads have their own.                       *)
LEMMA OwnInvKept ==
    ASSUME ObjTypes, ThreadInv, NumberInv, BucketInv, OwnInv, StepForm
    PROVE  OwnInv'
<1> USE DEF OwnInv
<1>1. CASE BeforeUpload
  BY <1>1 DEF BeforeUpload, AsideMain, Starting
<1>2. CASE PrepareSpawns
  BY <1>2 DEF PrepareSpawns
<1>3. CASE PrepareReturns
  BY <1>3 DEF PrepareReturns
<1>4. CASE StartReturns
  BY <1>4 DEF StartReturns
<1>5. CASE Cleanup
  <2>1. main' = "done" /\ UNCHANGED <<op, obj, new, pool>>
    BY <1>5 DEF Cleanup
  <2>2. \A v \in Workers : obj[v] = NoObject
    BY <1>5 DEF Cleanup, ThreadInv, ThreadAt, Idle
  <2> QED
    BY <2>1, <2>2
<1>6. CASE Cancel
  BY <1>6 DEF Cancel
<1>7. ASSUME NEW w \in Workers, UploadBegins(w) PROVE OwnInv'
  <2> DEFINE n == Fresh("prepare", w)
  <2>1. n \in Object /\ n.num = made + 1
    BY FreshObject DEF ObjTypes
  <2> HIDE DEF n
  <2>2. n # NoObject /\ n \notin pool /\ \A v \in Workers : n # obj[v] /\ n # new[v]
    BY <2>1, NewIsNew
  <2>3. new' = [new EXCEPT ![w] = n] /\ UNCHANGED <<op, obj, pool, bucket, main>>
    BY <1>7 DEF UploadBegins, n
  <2> QED
    BY <2>2, <2>3 DEF ObjTypes
<1>8. ASSUME NEW w \in Workers, UploadStops(w) PROVE OwnInv'
  BY <1>8 DEF UploadStops
<1>9. ASSUME NEW w \in Workers, UploadEnds(w) PROVE OwnInv'
  <2>1. /\ pool' = pool \cup {new[w]} /\ bucket' = bucket \cup {new[w]}
        /\ new' = [new EXCEPT ![w] = NoObject] /\ UNCHANGED <<op, obj, main>>
    BY <1>9 DEF UploadEnds
  <2>2. new[w] \in Object /\ new[w] # NoObject
    BY <1>9, NumbersAreNat DEF UploadEnds, ThreadInv, ThreadAt
  <2> QED
    BY <2>1, <2>2 DEF ObjTypes
<1>10. ASSUME NEW w \in Workers, UploadFails(w) PROVE OwnInv'
  <2>1. /\ bucket \subseteq bucket' /\ new' = [new EXCEPT ![w] = NoObject]
        /\ UNCHANGED <<op, obj, pool, main>>
    BY <1>10 DEF UploadFails
  <2> QED
    BY <2>1 DEF ObjTypes
<1>11. ASSUME NEW w \in Workers, Leave(w) PROVE OwnInv'
  BY <1>11 DEF Leave
<1>12. ASSUME NEW w \in Workers, getOp(w) PROVE OwnInv'
  <2>1. obj[w] = NoObject
    BY <1>12 DEF getOp, ThreadInv, ThreadAt, Idle
  <2>2. UNCHANGED <<main, obj, new, pool, bucket>>
    BY <1>12 DEF getOp
  <2>3. \A v \in Workers : v # w => op'[v] = op[v]
    BY <1>12 DEF getOp, ObjTypes
  <2> QED
    BY <2>1, <2>2, <2>3
<1>13. ASSUME NEW w \in Workers, RanOut(w) PROVE OwnInv'
  BY <1>13 DEF RanOut
<1>14. ASSUME NEW w \in Workers, Serve(w) PROVE OwnInv'
  <2>1. UNCHANGED <<main, op, obj, new, pool>> /\ main = "run" /\ bucket' \in {bucket, Effect(w)}
    BY <1>14 DEF Serve
  <2>2. CASE op[w] # "DELETE"
    <3>1. bucket \subseteq bucket'
      BY <2>1, <2>2 DEF Effect
    <3> QED
      BY <2>1, <3>1
  <2>3. CASE op[w] = "DELETE"
    <3>1. bucket \ {obj[w]} \subseteq bucket'
      BY <2>1, <2>3 DEF Effect
    <3>2. obj[w] \in Object /\ obj[w] # NoObject
      BY <1>14, <2>3, NumbersAreNat DEF Serve, ThreadInv, ThreadAt, Busy
    <3>3. pool' \subseteq bucket'
      BY <2>1, <3>1, <3>2
    <3>4. ASSUME NEW v \in Workers, obj[v] # NoObject, op[v] # "DELETE" PROVE obj[v] \in bucket'
      BY <2>3, <3>1, <3>2, <3>4
    <3> QED
      BY <2>1, <3>3, <3>4
  <2> QED
    BY <2>2, <2>3
<1>15. ASSUME NEW w \in Workers, TakesObject(w) PROVE OwnInv'
  <2>1. PICK o \in pool : obj' = [obj EXCEPT ![w] = o] /\ pool' = pool \ {o}
    BY <1>15 DEF TakesObject
  <2>2. UNCHANGED <<op, bucket, main>> /\ main = "run" /\ o \in bucket /\ o # NoObject
    BY <1>15, <2>1, NumbersAreNat DEF TakesObject
  <2>3. obj[w] = NoObject /\ new[w] = NoObject
    BY <1>15 DEF TakesObject, ThreadInv, ThreadAt
  <2>4. /\ pool' \subseteq bucket'
        /\ \A v \in Workers : obj'[v] # NoObject => obj'[v] \notin pool'
        /\ \A v \in Workers : obj'[v] # NoObject /\ op'[v] # "DELETE" => obj'[v] \in bucket'
    BY <2>1, <2>2 DEF ObjTypes
  <2>5. \A u, v \in Workers : u # v /\ obj'[u] # NoObject => obj'[u] # obj'[v]
    BY <2>1, <2>2 DEF ObjTypes
  <2>6. CASE op[w] = "PUT"
    <3>1. PICK n \in Object : n.num = made + 1 /\ new' = [new EXCEPT ![w] = n]
      BY <1>15, <2>6 DEF TakesObject
    <3>2. n # NoObject /\ n \notin pool /\ \A v \in Workers : n # obj[v] /\ n # new[v]
      BY <3>1, NewIsNew
    <3>3. \A v \in Workers : new'[v] # NoObject => new'[v] \notin pool'
      BY <2>1, <3>1, <3>2 DEF ObjTypes
    <3>4. \A u, v \in Workers : new'[u] # NoObject => new'[u] # obj'[v]
      BY <2>1, <3>1, <3>2 DEF ObjTypes
    <3>5. \A u, v \in Workers : u # v /\ new'[u] # NoObject => new'[u] # new'[v]
      BY <3>1, <3>2 DEF ObjTypes
    <3> QED
      BY <2>4, <2>5, <3>3, <3>4, <3>5
  <2>7. CASE op[w] # "PUT"
    <3>1. UNCHANGED new
      BY <1>15, <2>7 DEF TakesObject
    <3>2. \A v \in Workers : new'[v] # NoObject => new'[v] \notin pool'
      BY <2>1, <3>1
    <3>3. \A u, v \in Workers : new'[u] # NoObject => new'[u] # obj'[v]
      BY <2>1, <3>1 DEF ObjTypes
    <3> QED
      BY <2>4, <2>5, <3>1, <3>2, <3>3
  <2> QED
    BY <2>6, <2>7
<1>16. ASSUME NEW w \in Workers, NamesObject(w) PROVE OwnInv'
  <2>1. PICK n \in Object : n.num = made + 1 /\ new' = [new EXCEPT ![w] = n]
    BY <1>16 DEF NamesObject
  <2>2. UNCHANGED <<op, obj, pool, bucket, main>>
    BY <1>16 DEF NamesObject
  <2>3. n # NoObject /\ n \notin pool /\ \A v \in Workers : n # obj[v] /\ n # new[v]
    BY <2>1, NewIsNew
  <2> QED
    BY <2>1, <2>2, <2>3 DEF ObjTypes
<1>17. ASSUME NEW w \in Workers, Finishes(w) PROVE OwnInv'
  <2>1. /\ pool' = pool \cup GivenBack(w)
        /\ obj' = [obj EXCEPT ![w] = NoObject] /\ new' = [new EXCEPT ![w] = NoObject]
        /\ op' = [op EXCEPT ![w] = NoOp]
        /\ UNCHANGED <<bucket, main>> /\ main = "run"
    BY <1>17 DEF Finishes
  <2>2. NoObject \notin GivenBack(w) /\ GivenBack(w) \subseteq {obj[w], new[w]}
    <3>1. op[w] = "PUT" => new[w] # NoObject
      BY <1>17, NumbersAreNat DEF Finishes, ThreadInv, ThreadAt, Busy
    <3> QED
      BY <3>1 DEF GivenBack
  <2>3. GivenBack(w) \subseteq bucket
    <3>1. op[w] = "PUT" /\ ok[w] => new[w] \in bucket
      BY <1>17 DEF Finishes, BucketInv
    <3> QED
      BY <3>1 DEF GivenBack
  <2>4. \A v \in Workers : v # w => obj'[v] = obj[v] /\ new'[v] = new[v] /\ op'[v] = op[v]
    BY <2>1 DEF ObjTypes
  <2>5. obj'[w] = NoObject /\ new'[w] = NoObject
    BY <2>1 DEF ObjTypes
  <2>6. \A v \in Workers : v # w /\ obj[v] # NoObject => obj[v] \notin GivenBack(w)
    BY <2>2
  <2>7. \A v \in Workers : v # w /\ new[v] # NoObject => new[v] \notin GivenBack(w)
    BY <2>2
  <2>8. /\ \A v \in Workers : obj'[v] # NoObject => obj'[v] \notin pool'
        /\ \A v \in Workers : new'[v] # NoObject => new'[v] \notin pool'
    BY <2>1, <2>4, <2>5, <2>6, <2>7
  <2>9. /\ pool' \subseteq bucket'
        /\ \A v \in Workers : obj'[v] # NoObject /\ op'[v] # "DELETE" => obj'[v] \in bucket'
    BY <2>1, <2>3, <2>4, <2>5
  <2>10. /\ \A u, v \in Workers : u # v /\ obj'[u] # NoObject => obj'[u] # obj'[v]
         /\ \A u, v \in Workers : new'[u] # NoObject => new'[u] # obj'[v]
         /\ \A u, v \in Workers : u # v /\ new'[u] # NoObject => new'[u] # new'[v]
    BY <2>4, <2>5
  <2> QED
    BY <2>8, <2>9, <2>10
<1> QED
  BY <1>1, <1>2, <1>3, <1>4, <1>5, <1>6, <1>7, <1>8, <1>9, <1>10, <1>11, <1>12, <1>13, <1>14, <1>15, <1>16, <1>17 DEF StepForm
-----------------------------------------------------------------------------
(* Every step keeps the objects of the bucket accounted for.               *)
LEMMA BucketInvKept ==
    ASSUME ObjTypes, ThreadInv, OwnInv, BucketInv, StepForm
    PROVE  BucketInv'
<1> USE DEF BucketInv
<1>0. NoObject \notin bucket /\ NoObject \notin pool
  BY NumbersAreNat
<1>1. CASE BeforeUpload
  BY <1>1 DEF BeforeUpload, AsideMain, Starting
<1>2. CASE PrepareSpawns
  <2>1. main \in Starting /\ main' = "upload" /\ UNCHANGED <<bucket, pool>>
    BY <1>2 DEF PrepareSpawns, Starting
  <2> QED
    BY <2>1 DEF Starting
<1>3. CASE PrepareReturns
  <2>1. main = "upload" /\ UNCHANGED <<groupErr, bucket, lost, pool, obj, new, op, ok>>
        /\ main' = (IF groupErr THEN "failed" ELSE "run")
    BY <1>3 DEF PrepareReturns
  <2>2. \A v \in Workers : pc[v] = "left" /\ pc'[v] # "reply" /\ obj[v] = NoObject /\ new[v] = NoObject
    BY <1>3 DEF PrepareReturns, ThreadInv, ThreadAt, Idle
  <2>3. \A o \in bucket : Owned(o) => Owned(o)'
    BY <1>0, <2>1, <2>2 DEF Owned
  <2> QED
    BY <2>1, <2>2, <2>3 DEF Starting
<1>4. CASE StartReturns
  <2>1. main = "run" /\ main' = "cleanup" /\ UNCHANGED <<groupErr, bucket, lost, pool, obj, new, op, ok, pc>>
    BY <1>4 DEF StartReturns
  <2> QED
    BY <2>1 DEF Starting, Owned
<1>5. CASE Cleanup
  <2>1. /\ main = "cleanup" /\ main' = "done" /\ UNCHANGED <<groupErr, lost, pool>>
        /\ bucket' = {o \in bucket : pool # {} /\ o.prefix \notin ObjectPrefixes(pool)}
    BY <1>5 DEF Cleanup
  <2>2. \A v \in Workers : obj[v] = NoObject /\ new[v] = NoObject
    BY <1>5 DEF Cleanup, ThreadInv, ThreadAt, Idle
  <2>3. ASSUME NEW o \in bucket' PROVE o \in lost \ pool
    <3>1. o \in bucket /\ o \notin pool
      BY <2>1, <2>3 DEF ObjectPrefixes
    <3>2. Owned(o)
      BY <2>1, <3>1
    <3> QED
      BY <1>0, <2>2, <3>1, <3>2 DEF Owned
  <2> QED
    BY <2>1, <2>3 DEF Starting
<1>6. CASE Cancel
  <2>1. UNCHANGED <<main, groupErr, bucket, lost, pool, obj, new, op, ok, pc>>
    BY <1>6 DEF Cancel
  <2> QED
    BY <2>1 DEF Owned
<1>7. ASSUME NEW w \in Workers, UploadBegins(w) PROVE BucketInv'
  <2>1. /\ main = "upload" /\ pc[w] = "next"
        /\ UNCHANGED <<main, groupErr, bucket, lost, pool, obj, op, ok>>
        /\ pc' = [pc EXCEPT ![w] = "sent"] /\ \A v \in Workers : v # w => new'[v] = new[v]
    BY <1>7 DEF UploadBegins, ObjTypes
  <2>2. ASSUME NEW o, Owned(o) PROVE Owned(o)'
    BY <2>1, <2>2 DEF Owned, ObjTypes
  <2> QED
    BY <2>1, <2>2 DEF Starting
<1>8. ASSUME NEW w \in Workers, UploadStops(w) PROVE BucketInv'
  <2>1. /\ main \in {"upload", "run"} /\ pc[w] = "next"
        /\ UNCHANGED <<main, groupErr, bucket, lost, pool, obj, new, op, ok>>
        /\ pc' = [pc EXCEPT ![w] = "left"]
    BY <1>8 DEF UploadStops
  <2>2. obj[w] = NoObject
    BY <2>1 DEF ThreadInv, ThreadAt, Idle
  <2>3. ASSUME NEW o \in bucket, Owned(o) PROVE Owned(o)'
    BY <1>0, <2>1, <2>2, <2>3 DEF Owned, ObjTypes
  <2> QED
    BY <2>1, <2>3 DEF Starting, ObjTypes
<1>9. ASSUME NEW w \in Workers, UploadEnds(w) PROVE BucketInv'
  <2>1. /\ main = "upload" /\ pc[w] = "sent"
        /\ UNCHANGED <<main, groupErr, lost, obj, op, ok>>
        /\ bucket' = bucket \cup {new[w]} /\ pool' = pool \cup {new[w]}
        /\ pc' = [pc EXCEPT ![w] = "next"] /\ new' = [new EXCEPT ![w] = NoObject]
    BY <1>9 DEF UploadEnds
  <2>2. obj[w] = NoObject
    BY <2>1 DEF ThreadInv, ThreadAt
  <2>3. ASSUME NEW o \in bucket, Owned(o) PROVE Owned(o)'
    BY <1>0, <2>1, <2>2, <2>3 DEF Owned, ObjTypes
  <2>4. \A o \in {new[w]} : Owned(o)'
    BY <2>1 DEF Owned
  <2> QED
    BY <2>1, <2>3, <2>4 DEF Starting
<1>10. ASSUME NEW w \in Workers, UploadFails(w) PROVE BucketInv'
  <2>1. main = "upload" /\ main' = "upload" /\ groupErr'
    BY <1>10 DEF UploadFails
  <2> QED
    BY <2>1 DEF Starting
<1>11. ASSUME NEW w \in Workers, Leave(w) PROVE BucketInv'
  <2>1. /\ main \in {"upload", "run"} /\ pc[w] = "next"
        /\ UNCHANGED <<main, groupErr, bucket, lost, pool, obj, new, op, ok>>
        /\ pc' = [pc EXCEPT ![w] = "left"]
    BY <1>11 DEF Leave
  <2>2. obj[w] = NoObject
    BY <2>1 DEF ThreadInv, ThreadAt, Idle
  <2>3. ASSUME NEW o \in bucket, Owned(o) PROVE Owned(o)'
    BY <1>0, <2>1, <2>2, <2>3 DEF Owned, ObjTypes
  <2> QED
    BY <2>1, <2>3 DEF Starting, ObjTypes
<1>12. ASSUME NEW w \in Workers, getOp(w) PROVE BucketInv'
  <2>1. /\ main = "run" /\ pc[w] = "next"
        /\ UNCHANGED <<main, groupErr, bucket, lost, pool, obj, new, ok>>
        /\ pc' = [pc EXCEPT ![w] = "take"] /\ \A v \in Workers : v # w => op'[v] = op[v]
    BY <1>12 DEF getOp, ObjTypes
  <2>2. obj[w] = NoObject
    BY <2>1 DEF ThreadInv, ThreadAt, Idle
  <2>3. ASSUME NEW o \in bucket, Owned(o) PROVE Owned(o)'
    BY <1>0, <2>1, <2>2, <2>3 DEF Owned, ObjTypes
  <2>4. \A v \in Workers : pc'[v] = "reply" => v # w /\ pc[v] = "reply"
    BY <2>1 DEF ObjTypes
  <2> QED
    BY <2>1, <2>3, <2>4 DEF Starting
<1>13. ASSUME NEW w \in Workers, RanOut(w) PROVE BucketInv'
  <2>1. main = "run" /\ main' = "panic" /\ UNCHANGED <<groupErr, bucket, lost, pool, obj, new, op, ok, pc>>
    BY <1>13 DEF RanOut
  <2> QED
    BY <2>1 DEF Starting, Owned
<1>14. ASSUME NEW w \in Workers, Serve(w) PROVE BucketInv'
  <2>1. /\ main = "run" /\ pc[w] = "sent"
        /\ UNCHANGED <<main, groupErr, pool, obj, new, op>>
        /\ bucket' \in {bucket, Effect(w)} /\ lost \subseteq lost'
        /\ pc' = [pc EXCEPT ![w] = "reply"]
        /\ \A v \in Workers : v # w => ok'[v] = ok[v]
        /\ IF ok'[w] THEN bucket' = Effect(w)
           ELSE (IF op[w] = "PUT" THEN new[w] ELSE obj[w]) \in lost'
    BY <1>14 DEF Serve, ObjTypes
  <2>2. Busy(w)
    BY <2>1 DEF ThreadInv, ThreadAt
  <2>3. ASSUME NEW o \in bucket' PROVE Owned(o)'
    <3>1. CASE o = obj[w] /\ op[w] = "DELETE"
      <4>1. ~ok'[w]
        BY <2>1, <2>3, <3>1 DEF Effect
      <4> QED
        BY <2>1, <3>1, <4>1 DEF Owned
    <3>2. CASE o = new[w] /\ op[w] = "PUT"
      BY <2>1, <3>2 DEF Owned, ObjTypes
    <3>3. CASE ~(o = obj[w] /\ op[w] = "DELETE") /\ ~(o = new[w] /\ op[w] = "PUT")
      <4>1. o \in bucket
        BY <2>1, <2>3, <3>3 DEF Effect
      <4>2. Owned(o)
        BY <2>1, <4>1
      <4> QED
        BY <2>1, <3>3, <4>2 DEF Owned, ObjTypes
    <3> QED
      BY <3>1, <3>2, <3>3
  <2>4. ASSUME NEW v \in Workers, pc'[v] = "reply"
        PROVE  /\ op[v] = "PUT" /\ ok'[v] => new[v] \in bucket'
               /\ op[v] = "PUT" /\ ~ok'[v] => new[v] \in lost'
               /\ op[v] = "DELETE" /\ ~ok'[v] => obj[v] \in lost'
    <3>1. CASE v = w
      BY <2>1, <3>1 DEF Effect
    <3>2. CASE v # w
      <4>1. pc[v] = "reply" /\ ok'[v] = ok[v]
        BY <2>1, <2>4, <3>2 DEF ObjTypes
      <4>2. op[v] = "PUT" => new[v] \in Object /\ new[v] # NoObject
        BY <2>1, <4>1, NumbersAreNat DEF ThreadInv, ThreadAt, Busy
      <4>3. op[v] = "PUT" => new[v] # obj[w]
        BY <4>2 DEF OwnInv
      <4>4. bucket \ {obj[w]} \subseteq bucket'
        BY <2>1 DEF Effect
      <4> QED
        BY <2>1, <4>1, <4>3, <4>4
    <3> QED
      BY <3>1, <3>2
  <2> QED
    BY <2>1, <2>3, <2>4 DEF Starting
<1>15. ASSUME NEW w \in Workers, TakesObject(w) PROVE BucketInv'
  <2>1. PICK x \in pool : obj' = [obj EXCEPT ![w] = x] /\ pool' = pool \ {x}
    BY <1>15 DEF TakesObject
  <2>2. /\ main = "run" /\ pc[w] = "take" /\ pc' = [pc EXCEPT ![w] = "sent"]
        /\ UNCHANGED <<main, groupErr, op, ok, bucket, lost>>
        /\ \A v \in Workers : v # w => new'[v] = new[v]
    BY <1>15 DEF TakesObject, ObjTypes
  <2>3. obj[w] = NoObject
    BY <2>2 DEF ThreadInv, ThreadAt
  <2>4. ASSUME NEW o \in bucket, Owned(o) PROVE Owned(o)'
    <3>1. CASE o = x
      BY <2>1, <2>2, <3>1 DEF Owned, ObjTypes
    <3>2. CASE o # x /\ o \in pool \cup lost
      BY <2>1, <2>2, <3>2 DEF Owned
    <3>3. CASE o \notin pool \cup lost
      BY <1>0, <2>1, <2>2, <2>3, <2>4, <3>3 DEF Owned, ObjTypes
    <3> QED
      BY <3>1, <3>2, <3>3
  <2>5. \A v \in Workers : pc'[v] = "reply" =>
            v # w /\ pc[v] = "reply" /\ obj'[v] = obj[v] /\ new'[v] = new[v]
    BY <2>1, <2>2 DEF ObjTypes
  <2> QED
    BY <2>2, <2>4, <2>5 DEF Starting
<1>16. ASSUME NEW w \in Workers, NamesObject(w) PROVE BucketInv'
  <2>1. /\ main = "run" /\ pc[w] = "take" /\ pc' = [pc EXCEPT ![w] = "sent"]
        /\ UNCHANGED <<main, groupErr, op, ok, obj, pool, bucket, lost>>
        /\ \A v \in Workers : v # w => new'[v] = new[v]
    BY <1>16 DEF NamesObject, ObjTypes
  <2>2. ASSUME NEW o \in bucket, Owned(o) PROVE Owned(o)'
    BY <2>1, <2>2 DEF Owned, ObjTypes
  <2>3. \A v \in Workers : pc'[v] = "reply" => v # w /\ pc[v] = "reply" /\ new'[v] = new[v]
    BY <2>1 DEF ObjTypes
  <2> QED
    BY <2>1, <2>2, <2>3 DEF Starting
<1>17. ASSUME NEW w \in Workers, Finishes(w) PROVE BucketInv'
  <2>1. /\ main = "run" /\ pc[w] = "reply" /\ pc' = [pc EXCEPT ![w] = "next"]
        /\ UNCHANGED <<main, groupErr, bucket, lost>>
        /\ pool' = pool \cup GivenBack(w)
    BY <1>17 DEF Finishes
  <2>2. \A v \in Workers : v # w =>
            op'[v] = op[v] /\ ok'[v] = ok[v] /\ obj'[v] = obj[v] /\ new'[v] = new[v] /\ pc'[v] = pc[v]
    BY <1>17 DEF Finishes, ObjTypes
  <2>3. Busy(w)
    BY <2>1 DEF ThreadInv, ThreadAt
  <2>4. ASSUME NEW o \in bucket, Owned(o) PROVE Owned(o)'
    <3>1. CASE o = obj[w] /\ op[w] # "DELETE"
      BY <1>0, <2>1, <3>1 DEF Owned, GivenBack
    <3>2. CASE o = new[w]
      <4>1. op[w] = "PUT"
        BY <1>0, <2>3, <3>2 DEF Busy
      <4>2. o \in pool' \cup lost
        BY <2>1, <3>2, <4>1 DEF GivenBack
      <4> QED
        BY <2>1, <4>2 DEF Owned
    <3>3. CASE o \in pool \cup lost
      BY <2>1, <3>3 DEF Owned
    <3>4. ASSUME NEW v \in Workers, v # w,
                 (o = obj[v] /\ (op[v] = "DELETE" => pc[v] = "sent")) \/ (o = new[v] /\ pc[v] = "reply")
          PROVE  Owned(o)'
      BY <2>2, <3>4 DEF Owned
    <3>5. o = obj[w] => ~(op[w] = "DELETE" => pc[w] = "sent") \/ op[w] # "DELETE"
      BY <2>1
    <3> QED
      BY <2>4, <3>1, <3>2, <3>3, <3>4, <3>5 DEF Owned
  <2>5. pc'[w] # "reply"
    BY <2>1 DEF ObjTypes
  <2> QED
    BY <2>1, <2>2, <2>4, <2>5 DEF Starting
<1> QED
  BY <1>1, <1>2, <1>3, <1>4, <1>5, <1>6, <1>7, <1>8, <1>9, <1>10, <1>11, <1>12, <1>13, <1>14, <1>15, <1>16, <1>17 DEF StepForm
-----------------------------------------------------------------------------
(* Counting the threads by what they have.                                 *)
LEMMA ThreadsCount ==
    ASSUME NEW S \in SUBSET Workers
    PROVE  IsFiniteSet(S) /\ Cardinality(S) \in Nat
  BY PoolWorkersAssumption, FS_Subset, FS_CardinalityType

LEMMA OneChanges ==
    ASSUME NEW F \in SUBSET Workers, NEW G \in SUBSET Workers, NEW w \in Workers,
           \A v \in Workers : v # w => (v \in F <=> v \in G)
    PROVE  Cardinality(G) =
               Cardinality(F) + (IF w \in G THEN 1 ELSE 0) - (IF w \in F THEN 1 ELSE 0)
<1>1. IsFiniteSet(F) /\ Cardinality(F) \in Nat
  BY ThreadsCount
<1>2. CASE w \in G /\ w \notin F
  <2>1. G = F \cup {w}
    BY <1>2
  <2> QED
    BY <1>1, <1>2, <2>1, FS_AddElement
<1>3. CASE w \notin G /\ w \in F
  <2>1. G = F \ {w}
    BY <1>3
  <2> QED
    BY <1>1, <1>3, <2>1, FS_RemoveElement
<1>4. CASE w \in G <=> w \in F
  <2>1. G = F
    BY <1>4
  <2> QED
    BY <1>1, <1>4, <2>1
<1> QED
  BY <1>2, <1>3, <1>4

LEMMA HoldersChange ==
    ASSUME ObjTypes, NEW w \in Workers, \A v \in Workers : v # w => obj'[v] = obj[v]
    PROVE  Cardinality(Holders') = Cardinality(Holders)
               + (IF obj'[w] # NoObject THEN 1 ELSE 0) - (IF obj[w] # NoObject THEN 1 ELSE 0)
<1>1. /\ Holders \in SUBSET Workers /\ Holders' \in SUBSET Workers
      /\ \A v \in Workers : v # w => (v \in Holders <=> v \in Holders')
      /\ w \in Holders' <=> obj'[w] # NoObject
      /\ w \in Holders <=> obj[w] # NoObject
  BY DEF Holders, ObjTypes
<1>2. Cardinality(Holders') = Cardinality(Holders)
          + (IF w \in Holders' THEN 1 ELSE 0) - (IF w \in Holders THEN 1 ELSE 0)
  BY <1>1, OneChanges
<1> QED
  BY <1>1, <1>2

LEMMA UploadingChange ==
    ASSUME ObjTypes, NEW w \in Workers, \A v \in Workers : v # w => new'[v] = new[v]
    PROVE  Cardinality(Uploading') = Cardinality(Uploading)
               + (IF new'[w] # NoObject THEN 1 ELSE 0) - (IF new[w] # NoObject THEN 1 ELSE 0)
<1>1. /\ Uploading \in SUBSET Workers /\ Uploading' \in SUBSET Workers
      /\ \A v \in Workers : v # w => (v \in Uploading <=> v \in Uploading')
      /\ w \in Uploading' <=> new'[w] # NoObject
      /\ w \in Uploading <=> new[w] # NoObject
  BY DEF Uploading, ObjTypes
<1>2. Cardinality(Uploading') = Cardinality(Uploading)
          + (IF w \in Uploading' THEN 1 ELSE 0) - (IF w \in Uploading THEN 1 ELSE 0)
  BY <1>1, OneChanges
<1> QED
  BY <1>1, <1>2

LEMMA DoingChange ==
    ASSUME ObjTypes, NEW w \in Workers, NEW t,
           \A v \in Workers : v # w => op'[v] = op[v]
    PROVE  Cardinality(Doing(t)') = Cardinality(Doing(t))
               + (IF op'[w] = t THEN 1 ELSE 0) - (IF op[w] = t THEN 1 ELSE 0)
<1>1. /\ Doing(t) \in SUBSET Workers /\ Doing(t)' \in SUBSET Workers
      /\ \A v \in Workers : v # w => (v \in Doing(t) <=> v \in Doing(t)')
      /\ w \in Doing(t)' <=> op'[w] = t
      /\ w \in Doing(t) <=> op[w] = t
  BY DEF Doing, ObjTypes
<1>2. Cardinality(Doing(t)') = Cardinality(Doing(t))
          + (IF w \in Doing(t)' THEN 1 ELSE 0) - (IF w \in Doing(t) THEN 1 ELSE 0)
  BY <1>1, OneChanges
<1> QED
  BY <1>1, <1>2

LEMMA CountsAreNat ==
    ASSUME ObjTypes, IsFiniteSet(pool)
    PROVE  /\ Cardinality(pool) \in Nat /\ Cardinality(Holders) \in Nat
           /\ Cardinality(Uploading) \in Nat
           /\ \A t : Cardinality(Doing(t)) \in Nat
           /\ create \in Nat /\ todo \in Nat
           /\ \A t \in {"GET", "PUT", "DELETE", "STAT", "failed"} : issued[t] \in Nat
<1>1. Cardinality(Holders) \in Nat /\ Cardinality(Uploading) \in Nat
  BY ThreadsCount DEF Holders, Uploading
<1>2. \A t : Cardinality(Doing(t)) \in Nat
  BY ThreadsCount DEF Doing
<1> QED
  BY <1>1, <1>2, FS_CardinalityType, CreatesAssumption DEF ObjTypes

(* The pool stays finite.                                                  *)
LEMMA PoolStaysFinite ==
    ASSUME IsFiniteSet(pool), StepForm
    PROVE  IsFiniteSet(pool)'
<1>1. CASE BeforeUpload
  BY <1>1 DEF BeforeUpload, AsideMain
<1>2. CASE PrepareSpawns
  BY <1>2 DEF PrepareSpawns
<1>3. CASE PrepareReturns
  BY <1>3 DEF PrepareReturns
<1>4. CASE StartReturns
  BY <1>4 DEF StartReturns
<1>5. CASE Cleanup
  BY <1>5 DEF Cleanup
<1>6. CASE Cancel
  BY <1>6 DEF Cancel
<1>7. ASSUME NEW w \in Workers, UploadBegins(w) PROVE IsFiniteSet(pool)'
  BY <1>7 DEF UploadBegins
<1>8. ASSUME NEW w \in Workers, UploadStops(w) PROVE IsFiniteSet(pool)'
  BY <1>8 DEF UploadStops
<1>9. ASSUME NEW w \in Workers, UploadEnds(w) PROVE IsFiniteSet(pool)'
  <2>1. pool' = pool \cup {new[w]}
    BY <1>9 DEF UploadEnds
  <2> QED
    BY <2>1, FS_AddElement
<1>10. ASSUME NEW w \in Workers, UploadFails(w) PROVE IsFiniteSet(pool)'
  BY <1>10 DEF UploadFails
<1>11. ASSUME NEW w \in Workers, Leave(w) PROVE IsFiniteSet(pool)'
  BY <1>11 DEF Leave
<1>12. ASSUME NEW w \in Workers, getOp(w) PROVE IsFiniteSet(pool)'
  BY <1>12 DEF getOp
<1>13. ASSUME NEW w \in Workers, RanOut(w) PROVE IsFiniteSet(pool)'
  BY <1>13 DEF RanOut
<1>14. ASSUME NEW w \in Workers, Serve(w) PROVE IsFiniteSet(pool)'
  BY <1>14 DEF Serve
<1>15. ASSUME NEW w \in Workers, TakesObject(w) PROVE IsFiniteSet(pool)'
  <2>1. PICK x \in pool : pool' = pool \ {x}
    BY <1>15 DEF TakesObject
  <2> QED
    BY <2>1, FS_RemoveElement
<1>16. ASSUME NEW w \in Workers, NamesObject(w) PROVE IsFiniteSet(pool)'
  BY <1>16 DEF NamesObject
<1>17. ASSUME NEW w \in Workers, Finishes(w) PROVE IsFiniteSet(pool)'
  <2>1. pool' = pool \cup GivenBack(w)
    BY <1>17 DEF Finishes
  <2>2. GivenBack(w) \in SUBSET {new[w], obj[w]}
    BY DEF GivenBack
  <2>3. IsFiniteSet({new[w]}) /\ IsFiniteSet({obj[w]})
    BY FS_Singleton
  <2>4. IsFiniteSet({new[w]} \cup {obj[w]})
    BY <2>3, FS_Union
  <2>5. IsFiniteSet(GivenBack(w))
    BY <2>2, <2>4, FS_Subset
  <2> QED
    BY <2>1, <2>5, FS_Union
<1> QED
  BY <1>1, <1>2, <1>3, <1>4, <1>5, <1>6, <1>7, <1>8, <1>9, <1>10, <1>11, <1>12, <1>13, <1>14, <1>15, <1>16, <1>17 DEF StepForm

(* Every step keeps the books of the pool.                                 *)
LEMMA PoolInvKept ==
    ASSUME ObjTypes, ThreadInv, OwnInv, BucketInv, IsFiniteSet(pool), PoolInv, StepForm
    PROVE  PoolInv'
<1> USE DEF PoolInv
<1>0. /\ Cardinality(pool) \in Nat /\ Cardinality(Holders) \in Nat
      /\ Cardinality(Uploading) \in Nat
      /\ \A t : Cardinality(Doing(t)) \in Nat
      /\ create \in Nat /\ todo \in Nat
      /\ \A t \in {"GET", "PUT", "DELETE", "STAT", "failed"} : issued[t] \in Nat
  BY CountsAreNat
<1>1. CASE BeforeUpload
  BY <1>1 DEF BeforeUpload, AsideMain, Starting
<1>2. CASE PrepareSpawns
  <2>1. main \in Starting /\ main' = "upload" /\ todo' = create
        /\ UNCHANGED <<pool, new, issued, groupErr>> /\ \A v \in Workers : pc'[v] = "next"
    BY <1>2 DEF PrepareSpawns, Starting
  <2>2. \A v \in Workers : new[v] = NoObject
    BY <2>1 DEF ThreadInv, ThreadAt, Idle
  <2>3. Uploading' = {} /\ pool' = {}
    BY <2>1, <2>2 DEF Uploading, BucketInv
  <2>4. todo' + Cardinality(pool') + Cardinality(Uploading') = create
    BY <1>0, <2>1, <2>3, FS_EmptySet
  <2>5. UNCHANGED create
    BY <1>2 DEF PrepareSpawns
  <2>6. \A t \in {"GET", "PUT", "DELETE", "STAT", "failed"} : issued'[t] = 0
    BY <2>1
  <2> QED
    BY <2>1, <2>4, <2>5, <2>6 DEF Starting
<1>3. CASE PrepareReturns
  <2>1. /\ main = "upload" /\ UNCHANGED <<groupErr, pool, obj, new, op, issued, create, done, todo>>
        /\ main' = (IF groupErr THEN "failed" ELSE "run")
        /\ \A v \in Workers : pc[v] = "left"
    BY <1>3 DEF PrepareReturns
  <2>2. \A v \in Workers : op[v] = NoOp /\ obj[v] = NoObject /\ new[v] = NoObject
    BY <2>1 DEF ThreadInv, ThreadAt, Idle
  <2>3. Holders = {} /\ Uploading = {} /\ Doing("DELETE") = {} /\ Doing("PUT") = {}
    BY <2>2 DEF Holders, Uploading, Doing
  <2>4. ASSUME ~done, ~groupErr PROVE Balance
    <3>1. todo + Cardinality(pool) + Cardinality(Uploading) = create
      BY <2>1, <2>4
    <3>2. todo = 0
      BY <2>1, <2>4, PoolWorkersAssumption
    <3>3. issued["PUT"] = 0 /\ issued["DELETE"] = 0 /\ issued["failed"] = 0
      BY <2>1
    <3>4. Cardinality(Holders) = 0 /\ Cardinality(Uploading) = 0
          /\ Cardinality(Doing("DELETE")) = 0 /\ Cardinality(Doing("PUT")) = 0
      BY <2>3, FS_EmptySet
    <3> QED
      BY <1>0, <3>1, <3>2, <3>3, <3>4 DEF Balance
  <2>5. Balance => Balance'
    BY <2>1 DEF Balance, Holders, Doing
  <2> QED
    BY <2>1, <2>2, <2>4, <2>5 DEF Starting
<1>4. CASE StartReturns
  <2>1. main' = "cleanup"
    BY <1>4 DEF StartReturns
  <2> QED
    BY <2>1 DEF Starting
<1>5. CASE Cleanup
  <2>1. main' = "done"
    BY <1>5 DEF Cleanup
  <2> QED
    BY <2>1 DEF Starting
<1>6. CASE Cancel
  <2>1. main \in {"upload", "run"} /\ UNCHANGED <<main, groupErr, pool, obj, op, issued, create>>
        /\ done' = TRUE /\ ~done
    BY <1>6 DEF Cancel
  <2>2. Balance => Balance'
    BY <2>1 DEF Balance, Holders, Doing
  <2> QED
    BY <2>1, <2>2 DEF Starting
<1>7. ASSUME NEW w \in Workers, UploadBegins(w) PROVE PoolInv'
  <2> DEFINE x == Fresh("prepare", w)
  <2>1. x \in Object /\ x # NoObject
    BY FreshObject, NumbersAreNat DEF ObjTypes
  <2> HIDE DEF x
  <2>2. /\ main = "upload" /\ UNCHANGED <<main, groupErr, pool, issued, create, done>>
        /\ todo > 0 /\ todo' = todo - 1 /\ pc[w] = "next"
        /\ new' = [new EXCEPT ![w] = x]
        /\ pc' = [pc EXCEPT ![w] = "sent"]
    BY <1>7 DEF UploadBegins, x
  <2>3. new[w] = NoObject
    BY <2>2 DEF ThreadInv, ThreadAt, Idle
  <2>4. Cardinality(Uploading') = Cardinality(Uploading) + 1
    <3>1. new'[w] # NoObject /\ \A v \in Workers : v # w => new'[v] = new[v]
      BY <2>1, <2>2 DEF ObjTypes
    <3> QED
      BY <1>0, <2>3, <3>1, UploadingChange
  <2>5. \A v \in Workers : pc'[v] = "left" => pc[v] = "left"
    BY <2>2 DEF ObjTypes
  <2>6. ~done /\ ~groupErr =>
           /\ todo' + Cardinality(pool) + Cardinality(Uploading') = create
           /\ \A v \in Workers : pc'[v] # "left"
    BY <1>0, <2>2, <2>4, <2>5
  <2> QED
    BY <2>2, <2>6 DEF Starting
<1>8. ASSUME NEW w \in Workers, UploadStops(w) PROVE PoolInv'
  <2>1. /\ main = "upload" /\ UNCHANGED <<main, groupErr, pool, issued, create, done, new>>
        /\ ~done => todo = 0 /\ todo' = 0
    BY <1>0, <1>8 DEF UploadStops
  <2>2. UNCHANGED Uploading
    BY <2>1 DEF Uploading
  <2> QED
    BY <2>1, <2>2 DEF Starting
<1>9. ASSUME NEW w \in Workers, UploadEnds(w) PROVE PoolInv'
  <2>1. /\ main = "upload" /\ UNCHANGED <<main, groupErr, issued, create, done, todo>>
        /\ pc[w] = "sent" /\ pool' = pool \cup {new[w]}
        /\ new' = [new EXCEPT ![w] = NoObject]
        /\ pc' = [pc EXCEPT ![w] = "next"]
    BY <1>9 DEF UploadEnds
  <2>2. new[w] \in Object /\ new[w] # NoObject
    BY <2>1, NumbersAreNat DEF ThreadInv, ThreadAt
  <2>3. Cardinality(Uploading') = Cardinality(Uploading) - 1
    <3>1. new'[w] = NoObject /\ \A v \in Workers : v # w => new'[v] = new[v]
      BY <2>1 DEF ObjTypes
    <3> QED
      BY <1>0, <2>2, <3>1, UploadingChange
  <2>4. Cardinality(pool') = Cardinality(pool) + 1
    <3>1. new[w] \notin pool
      BY <2>2 DEF OwnInv
    <3> QED
      BY <2>1, <3>1, FS_AddElement
  <2>5. \A v \in Workers : pc'[v] = "left" => pc[v] = "left"
    BY <2>1 DEF ObjTypes
  <2>6. ~done /\ ~groupErr => todo + Cardinality(pool') + Cardinality(Uploading') = create
    BY <1>0, <2>1, <2>3, <2>4
  <2> QED
    BY <2>1, <2>5, <2>6 DEF Starting
<1>10. ASSUME NEW w \in Workers, UploadFails(w) PROVE PoolInv'
  <2>1. main = "upload" /\ main' = "upload" /\ groupErr' /\ UNCHANGED issued
    BY <1>10 DEF UploadFails
  <2> QED
    BY <2>1 DEF Starting
<1>11. ASSUME NEW w \in Workers, Leave(w) PROVE PoolInv'
  <2>1. main = "run" /\ main' = "run" /\ UNCHANGED <<pool, obj, op, issued, create, done>>
    BY <1>11 DEF Leave
  <2>2. Balance => Balance'
    BY <2>1 DEF Balance, Holders, Doing
  <2> QED
    BY <2>1, <2>2 DEF Starting
<1>12. ASSUME NEW w \in Workers, getOp(w) PROVE PoolInv'
  <2> DEFINE t == ops[(Total % Len(ops)) + 1]
  <2>1. t \in {"GET", "PUT", "DELETE", "STAT"}
    BY IssuedOp
  <2> HIDE DEF t
  <2>2. /\ main = "run" /\ UNCHANGED <<main, pool, obj, create, done>> /\ ~done
        /\ issued' = [issued EXCEPT ![t] = @ + 1] /\ op' = [op EXCEPT ![w] = t]
        /\ pc[w] = "next"
    BY <1>12 DEF getOp, t
  <2>3. op[w] = NoOp
    BY <2>2 DEF ThreadInv, ThreadAt, Idle
  <2>4. op'[w] = t /\ \A v \in Workers : v # w => op'[v] = op[v]
    BY <2>2 DEF ObjTypes
  <2>5. \A x \in {"DELETE", "PUT"} :
            Cardinality(Doing(x)') = Cardinality(Doing(x)) + (IF t = x THEN 1 ELSE 0)
    <3> SUFFICES ASSUME NEW x \in {"DELETE", "PUT"}
                 PROVE  Cardinality(Doing(x)') = Cardinality(Doing(x)) + (IF t = x THEN 1 ELSE 0)
      OBVIOUS
    <3>1. Cardinality(Doing(x)') = Cardinality(Doing(x))
              + (IF op'[w] = x THEN 1 ELSE 0) - (IF op[w] = x THEN 1 ELSE 0)
      BY <2>4, DoingChange
    <3> QED
      BY <1>0, <2>3, <2>4, <3>1
  <2>6. \A x \in {"DELETE", "PUT"} : issued'[x] = issued[x] + (IF t = x THEN 1 ELSE 0)
    BY <1>0, <2>1, <2>2 DEF ObjTypes
  <2>7. issued'["failed"] = issued["failed"]
    BY <2>1, <2>2 DEF ObjTypes
  <2>8. UNCHANGED Holders
    BY <2>2 DEF Holders
  <2>9. Balance
    BY <2>2
  <2>10. Balance'
    BY <1>0, <2>2, <2>5, <2>6, <2>7, <2>8, <2>9 DEF Balance
  <2> QED
    BY <2>2, <2>10 DEF Starting
<1>13. ASSUME NEW w \in Workers, RanOut(w) PROVE PoolInv'
  <2>1. main = "run" /\ main' = "panic" /\ UNCHANGED <<pool, obj, op, issued, create, done>> /\ UNCHANGED <<pc, versioned>>
        /\ pool = {} /\ pc[w] = "take" /\ NeedsObject(w)
    BY <1>13 DEF RanOut
  <2>2. Balance => Balance'
    BY <2>1 DEF Balance, Holders, Doing
  <2> QED
    BY <2>1, <2>2 DEF Starting, NeedsObject
<1>14. ASSUME NEW w \in Workers, Serve(w) PROVE PoolInv'
  <2>1. main = "run" /\ main' = "run" /\ UNCHANGED <<pool, obj, op, issued, create, done>>
    BY <1>14 DEF Serve
  <2>2. Balance => Balance'
    BY <2>1 DEF Balance, Holders, Doing
  <2> QED
    BY <2>1, <2>2 DEF Starting
<1>15. ASSUME NEW w \in Workers, TakesObject(w) PROVE PoolInv'
  <2>1. PICK x \in pool : obj' = [obj EXCEPT ![w] = x] /\ pool' = pool \ {x}
    BY <1>15 DEF TakesObject
  <2>2. main = "run" /\ pc[w] = "take" /\ UNCHANGED <<main, op, issued, create, done>>
    BY <1>15 DEF TakesObject
  <2>3. obj[w] = NoObject /\ x \in Object /\ x # NoObject
    BY <2>2, NumbersAreNat DEF ThreadInv, ThreadAt
  <2>4. Cardinality(Holders') = Cardinality(Holders) + 1
    <3>1. obj'[w] # NoObject /\ \A v \in Workers : v # w => obj'[v] = obj[v]
      BY <2>1, <2>3 DEF ObjTypes
    <3> QED
      BY <1>0, <2>3, <3>1, HoldersChange
  <2>5. Cardinality(pool') = Cardinality(pool) - 1
    BY <2>1, FS_RemoveElement
  <2>6. UNCHANGED Doing("DELETE") /\ UNCHANGED Doing("PUT")
    BY <2>2 DEF Doing
  <2>7. Balance => Balance'
    BY <1>0, <2>2, <2>4, <2>5, <2>6 DEF Balance
  <2> QED
    BY <2>2, <2>7 DEF Starting
<1>16. ASSUME NEW w \in Workers, NamesObject(w) PROVE PoolInv'
  <2>1. main = "run" /\ UNCHANGED <<main, pool, obj, op, issued, create, done>>
    BY <1>16 DEF NamesObject
  <2>2. Balance => Balance'
    BY <2>1 DEF Balance, Holders, Doing
  <2> QED
    BY <2>1, <2>2 DEF Starting
<1>17. ASSUME NEW w \in Workers, Finishes(w) PROVE PoolInv'
  <2>1. /\ main = "run" /\ pc[w] = "reply" /\ UNCHANGED <<main, create, done>>
        /\ pool' = pool \cup GivenBack(w)
        /\ obj' = [obj EXCEPT ![w] = NoObject]
        /\ op' = [op EXCEPT ![w] = NoOp]
    BY <1>17 DEF Finishes
  <2>2. Busy(w)
    BY <2>1 DEF ThreadInv, ThreadAt
  <2>3. op[w] \in {"GET", "PUT", "DELETE", "STAT"}
    BY <2>2 DEF Busy, ObjTypes
  <2>4. Cardinality(Holders') = Cardinality(Holders) - (IF obj[w] # NoObject THEN 1 ELSE 0)
    <3>1. obj'[w] = NoObject /\ \A v \in Workers : v # w => obj'[v] = obj[v]
      BY <2>1 DEF ObjTypes
    <3> QED
      BY <1>0, <3>1, HoldersChange
  <2>5. \A x \in {"DELETE", "PUT"} :
            Cardinality(Doing(x)') = Cardinality(Doing(x)) - (IF op[w] = x THEN 1 ELSE 0)
    <3> SUFFICES ASSUME NEW x \in {"DELETE", "PUT"}
                 PROVE  Cardinality(Doing(x)') = Cardinality(Doing(x)) - (IF op[w] = x THEN 1 ELSE 0)
      OBVIOUS
    <3>1. Cardinality(Doing(x)') = Cardinality(Doing(x))
              + (IF op'[w] = x THEN 1 ELSE 0) - (IF op[w] = x THEN 1 ELSE 0)
      <4>1. \A v \in Workers : v # w => op'[v] = op[v]
        BY <2>1 DEF ObjTypes
      <4> QED
        BY <4>1, DoingChange
    <3>2. op'[w] = NoOp
      BY <2>1 DEF ObjTypes
    <3> QED
      BY <1>0, <3>1, <3>2
  <2> DEFINE back == IF obj[w] # NoObject /\ op[w] # "DELETE" THEN 1 ELSE 0
             born == IF op[w] = "PUT" /\ ok[w] THEN 1 ELSE 0
  <2>6. Cardinality(pool') = Cardinality(pool) + back + born
    <3>1. obj[w] # NoObject => obj[w] \notin pool /\ obj[w] # new[w]
      <4>1. new[w] # NoObject => new[w] # obj[w]
        BY DEF OwnInv
      <4> QED
        BY <4>1 DEF OwnInv
    <3>2. op[w] = "PUT" => new[w] \notin pool /\ new[w] # obj[w]
      <4>1. op[w] = "PUT" => new[w] # NoObject
        BY <2>2, NumbersAreNat DEF Busy
      <4> QED
        BY <4>1 DEF OwnInv
    <3> DEFINE mid == IF op[w] = "PUT" /\ ok[w] THEN pool \cup {new[w]} ELSE pool
    <3>3. Cardinality(mid) = Cardinality(pool) + born /\ IsFiniteSet(mid)
      BY <1>0, <3>2, FS_AddElement
    <3>4. obj[w] # NoObject => obj[w] \notin mid
      BY <3>1
    <3>5. pool' = IF obj[w] # NoObject /\ op[w] # "DELETE" THEN mid \cup {obj[w]} ELSE mid
      BY <2>1 DEF GivenBack
    <3>6. born \in Nat
      OBVIOUS
    <3> HIDE DEF mid, born
    <3>7. CASE obj[w] # NoObject /\ op[w] # "DELETE"
      <4>1. pool' = mid \cup {obj[w]} /\ obj[w] \notin mid
        BY <3>4, <3>5, <3>7
      <4>2. Cardinality(pool') = Cardinality(mid) + 1
        BY <3>3, <4>1, FS_AddElement
      <4> QED
        BY <1>0, <3>3, <3>6, <3>7, <4>2
    <3>8. CASE ~(obj[w] # NoObject /\ op[w] # "DELETE")
      BY <1>0, <3>3, <3>5, <3>6, <3>8
    <3> QED
      BY <3>7, <3>8
  <2>7. /\ UNCHANGED <<issued["PUT"], issued["DELETE"]>>
        /\ issued'["failed"] = issued["failed"] + (IF op[w] = "PUT" /\ ~ok[w] THEN 1 ELSE 0)
    BY <1>0, <1>17 DEF Finishes, ObjTypes
  <2>8. op[w] = "DELETE" => obj[w] # NoObject
    BY <2>2, NumbersAreNat DEF Busy
  <2>9. Balance
    BY <2>1, <2>2 DEF Busy
  <2>10. ok[w] \in BOOLEAN
    BY DEF ObjTypes
  <2>11. Balance'
    <3> DEFINE hold == IF obj[w] # NoObject THEN 1 ELSE 0
               dels == IF op[w] = "DELETE" THEN 1 ELSE 0
               puts == IF op[w] = "PUT" THEN 1 ELSE 0
               fail == IF op[w] = "PUT" /\ ~ok[w] THEN 1 ELSE 0
    <3>1. /\ hold \in Nat /\ dels \in Nat /\ puts \in Nat /\ fail \in Nat
          /\ back \in Nat /\ born \in Nat
          /\ back = hold - dels /\ born = puts - fail
      BY <2>8, <2>10
    <3>2. /\ Cardinality(Holders') = Cardinality(Holders) - hold
          /\ Cardinality(Doing("DELETE")') = Cardinality(Doing("DELETE")) - dels
          /\ Cardinality(Doing("PUT")') = Cardinality(Doing("PUT")) - puts
          /\ issued'["failed"] = issued["failed"] + fail
      BY <2>4, <2>5, <2>7
    <3> HIDE DEF hold, dels, puts, fail, back, born
    <3> QED
      BY <1>0, <2>1, <2>6, <2>7, <2>9, <3>1, <3>2 DEF Balance
  <2> QED
    BY <2>1, <2>11 DEF Starting
<1> QED
  BY <1>1, <1>2, <1>3, <1>4, <1>5, <1>6, <1>7, <1>8, <1>9, <1>10, <1>11, <1>12, <1>13, <1>14, <1>15, <1>16, <1>17 DEF StepForm
-----------------------------------------------------------------------------
(* Initially nobody has anything.                                          *)
LEMMA PoolsInvInit == Init => PoolsInv
<1> SUFFICES ASSUME Init PROVE PoolsInv
  OBVIOUS
<1>1. HostTypes
  <2>1. /\ hostSelect \in {"roundrobin", "weighed"} /\ current = 0
        /\ running = [h \in Host |-> 0] /\ passed = [h \in Host |-> 0]
        /\ lastFinished = [h \in Host |-> h]
    BY DEF Init, NewClient
  <2>2. HostTypeOK
    <3>1. current \in 0 .. Hosts - 1
      BY <2>1, HostsAssumption
    <3>2. running \in [Host -> Nat] /\ passed \in [Host -> Nat] /\ lastFinished \in [Host -> Host]
      BY <2>1
    <3> QED
      BY <2>1, <3>1, <3>2 DEF HostTypeOK
  <2>3. mine = <<>> /\ host = [w \in Workers |-> NoHost]
    BY DEF Init
  <2> QED
    BY <2>2, <2>3 DEF HostTypes
<1>2. ObjTypes /\ main \in Mains
  BY DEF Init, ObjTypes, Mains, Starting
<1>3. PoolTypeOK
  BY <1>1, <1>2, TypesInParts
<1>4. MineInv
  BY DEF Init, MineInv
<1>5. ThreadInv
  BY DEF Init, ThreadInv, ThreadAt, Idle, Starting
<1>6. made = 0 /\ NoObject.num = 0
  BY DEF Init, NoObject
<1>7. NumberInv
  BY <1>6 DEF Init, NumberInv
<1>8. OwnInv /\ BucketInv
  BY DEF Init, OwnInv, BucketInv, Starting
<1>9. CountInv
  <2>1. ASSUME NEW h \in Host PROVE running[h] = InUse(h)
    <3>1. h # NoHost
      BY DEF Host
    <3>2. {w \in Workers : host[w] = h} = {}
      BY <3>1 DEF Init
    <3>3. {i \in 1 .. Len(mine) : mine[i] = h} = {}
      BY DEF Init
    <3>4. running[h] = 0
      BY DEF Init, NewClient
    <3>5. InUse(h) = Cardinality({}) + Cardinality({})
      BY <3>2, <3>3, Zenon DEF InUse
    <3> QED
      BY <3>4, <3>5, FS_EmptySet
  <2> QED
    BY <2>1 DEF CountInv
<1>10. TurnInv
  <2>1. \A h, g \in Host : lastFinished[h] = lastFinished[g] => h = g
    BY DEF Init, NewClient
  <2>2. \A h \in Host : passed[h] = 0
    BY DEF Init, NewClient
  <2> QED
    BY <2>1, <2>2, LaterFinite DEF TurnInv
<1>11. PoolInv
  BY DEF Init, PoolInv, Starting
<1>12. IsFiniteSet(pool)
  BY FS_EmptySet DEF Init
<1> QED
  BY <1>3, <1>4, <1>5, <1>7, <1>8, <1>9, <1>10, <1>11, <1>12 DEF PoolsInv

LEMMA PoolsInvKept == PoolsInv /\ [Next]_vars => PoolsInv'
<1> SUFFICES ASSUME PoolsInv, [Next]_vars PROVE PoolsInv'
  OBVIOUS
<1>1. HostTypes /\ ObjTypes /\ main \in Mains /\ ThreadInv /\ IsFiniteSet(pool)
  BY TypesInParts DEF PoolsInv
<1>2. CASE Next
  <2>1. StepForm
    BY <1>1, <1>2, NextStepForm
  <2>2. HostTypes' /\ CountInv' /\ TurnInv'
    <3>1. HostStep
      BY <1>1, <1>2, NextHostStep DEF PoolsInv
    <3> QED
      BY <1>1, <3>1, HostStepKeeps DEF PoolsInv
  <2>3. ObjTypes' /\ main' \in Mains
    BY <1>1, <2>1, ObjTypesKept, MainsKept
  <2>4. MineInv' /\ ThreadInv'
    BY <1>1, <1>2, <2>1, MineInvKept, ThreadInvKept DEF PoolsInv
  <2>5. NumberInv' /\ OwnInv'
    BY <1>1, <2>1, NumberInvKept, OwnInvKept DEF PoolsInv
  <2>6. BucketInv'
    BY <1>1, <2>1, BucketInvKept DEF PoolsInv
  <2>7. PoolInv' /\ IsFiniteSet(pool)'
    BY <1>1, <2>1, PoolInvKept, PoolStaysFinite DEF PoolsInv
  <2>8. PoolTypeOK'
    BY <2>2, <2>3, TypesInPartsNext
  <2> QED
    BY <2>2, <2>4, <2>5, <2>6, <2>7, <2>8 DEF PoolsInv
<1>3. CASE UNCHANGED vars
  <2>1. PoolTypeOK' /\ MineInv' /\ IsFiniteSet(pool)'
    BY <1>3 DEF PoolsInv, PoolTypeOK, HostTypeOK, MineInv
  <2>2. ThreadInv'
    BY <1>1, <1>3 DEF ThreadInv, ThreadAt, Idle, Busy
  <2>3. NumberInv' /\ OwnInv'
    BY <1>3 DEF PoolsInv, NumberInv, OwnInv
  <2>4. BucketInv'
    BY <1>3 DEF PoolsInv, BucketInv, Owned
  <2>5. CountInv' /\ TurnInv'
    BY <1>3 DEF PoolsInv, CountInv, InUse, TurnInv, Later
  <2>6. PoolInv'
    <3>1. UNCHANGED Balance /\ UNCHANGED Uploading
      BY <1>3 DEF Balance, Holders, Doing, Uploading
    <3> QED
      BY <1>3, <3>1 DEF PoolsInv, PoolInv, NeedsObject
  <2> QED
    BY <2>1, <2>2, <2>3, <2>4, <2>5, <2>6 DEF PoolsInv
<1> QED
  BY <1>2, <1>3

(* The inductive invariant of the pools holds throughout.                  *)
THEOREM PoolsInvariant == Spec => []PoolsInv
  BY PoolsInvInit, PoolsInvKept, PTL DEF Spec

(* The variables of the benchmark and of the hosts keep their types; a     *)
(* host's count never falls below 0, where the program would panic.        *)
THEOREM PoolTypeCorrect == Spec => []PoolTypeOK
<1>1. PoolsInv => PoolTypeOK
  BY DEF PoolsInv
<1> QED
  BY <1>1, PoolsInvariant, PTL

(* What a thread reads or makes a version of is in the bucket as long as   *)
(* it holds it, and nobody else has it, whatever fails and whenever the    *)
(* context ends.                                                           *)
THEOREM ObjectsExist == Spec => []ObjectsTakenExist
<1>1. PoolsInv => ObjectsTakenExist
  BY DEF PoolsInv, OwnInv, ObjectsTakenExist, Held
<1> QED
  BY <1>1, PoolsInvariant, PTL

(* The counts of the hosts are the clients in use, and a least loaded host *)
(* is passed over fewer times than there are hosts.                        *)
THEOREM HostsFair == Spec => []HostsShared
<1>1. PoolsInv => HostsShared
  <2> SUFFICES ASSUME PoolsInv, hostSelect = "weighed", NEW h \in Host
               PROVE  running[h] = InUse(h) /\ passed[h] < Hosts
    BY DEF HostsShared, InUse
  <2>1. running[h] = InUse(h)
    BY DEF PoolsInv, CountInv
  <2>2. passed[h] <= Cardinality(Later(h)) /\ passed[h] \in Nat
    BY DEF PoolsInv, TurnInv, PoolTypeOK, HostTypeOK
  <2>3. passed[h] < Hosts
    BY <2>2, LaterFinite, HostsAssumption
  <2> QED
    BY <2>1, <2>3
<1> QED
  BY <1>1, PoolsInvariant, PTL

(* Cleanup leaves only objects of failed requests that are not back in the *)
(* pool; without such objects it deletes every object and every version,   *)
(* whatever prefixes their generators gave them.                           *)
THEOREM CleanupComplete == Spec => []CleanupDeletesUploads
<1>1. PoolsInv => CleanupDeletesUploads
  BY DEF PoolsInv, BucketInv, CleanupDeletesUploads
<1> QED
  BY <1>1, PoolsInvariant, PTL

(* How many objects the threads hold or owe when one finds the pool empty. *)
LEMMA AtMostOutstanding ==
    ASSUME PoolsInv, main = "panic"
    PROVE  Cardinality(Holders) + Cardinality(Doing("PUT")) <= Outstanding
<1>0. PICK w \in Workers : pc[w] = "take" /\ NeedsObject(w)
  BY DEF PoolsInv, PoolInv
<1>1. ObjTypes /\ ThreadInv
  BY TypesInParts DEF PoolsInv
<1> DEFINE Others == Workers \ {w}
           C == Cardinality(Workers)
<1>2. IsFiniteSet(Others) /\ Cardinality(Others) = C - 1 /\ C \in Nat
  BY PoolWorkersAssumption, FS_RemoveElement, FS_CardinalityType
<1>3. Holders \in SUBSET Others
  BY <1>0, <1>1 DEF Holders, ThreadInv, ThreadAt
<1>4. Doing("PUT") \in SUBSET Workers
  BY DEF Doing
<1>5. /\ IsFiniteSet(Holders) /\ Cardinality(Holders) \in Nat /\ Cardinality(Holders) <= C - 1
      /\ IsFiniteSet(Doing("PUT")) /\ Cardinality(Doing("PUT")) \in Nat
      /\ Cardinality(Doing("PUT")) <= C
  BY <1>2, <1>3, <1>4, PoolWorkersAssumption, FS_Subset, FS_CardinalityType
<1>6. CASE versioned
  BY <1>2, <1>5, <1>6 DEF Outstanding, Concurrency
<1>7. CASE ~versioned
  <2>1. Doing("PUT") \in SUBSET Others
    BY <1>0, <1>4, <1>7 DEF Doing, NeedsObject
  <2>2. ASSUME NEW v \in Workers, op[v] = "PUT" PROVE obj[v] = NoObject
    <3>1. pc[v] \in {"next", "take", "sent", "reply", "left"}
      BY <1>1 DEF ObjTypes, ThreadInv, ThreadAt
    <3>2. CASE pc[v] \in {"next", "take", "left"}
      BY <1>1, <2>2, <3>2 DEF ThreadInv, ThreadAt, Idle
    <3>3. CASE pc[v] \in {"sent", "reply"}
      BY <1>1, <1>7, <2>2, <3>3 DEF ThreadInv, ThreadAt, Busy
    <3> QED
      BY <3>1, <3>2, <3>3
  <2>3. Holders \cap Doing("PUT") = {}
    BY <2>2 DEF Holders, Doing
  <2>4. Holders \cup Doing("PUT") \in SUBSET Others
    BY <1>3, <2>1
  <2>5. Cardinality(Holders \cup Doing("PUT")) = Cardinality(Holders) + Cardinality(Doing("PUT"))
    BY <1>5, <2>3, FS_Union, FS_EmptySet
  <2>6. Cardinality(Holders \cup Doing("PUT")) <= C - 1
    BY <1>2, <2>4, FS_Subset
  <2> QED
    BY <1>7, <2>5, <2>6 DEF Outstanding, Concurrency
<1> QED
  BY <1>1, <1>6, <1>7 DEF ObjTypes

(* The pool runs out, and the program ends, only when the deletes so far   *)
(* outnumber the uploads by what the threads leave of it.                  *)
THEOREM PoolOverdrawn == Spec => []RunsOutOnlyWhenOverdrawn
<1>1. PoolsInv => RunsOutOnlyWhenOverdrawn
  <2> SUFFICES ASSUME PoolsInv, main = "panic"
               PROVE  issued["DELETE"] - issued["PUT"] + issued["failed"] >= create - Outstanding
    BY DEF RunsOutOnlyWhenOverdrawn
  <2>1. ObjTypes /\ ThreadInv /\ IsFiniteSet(pool)
    BY TypesInParts DEF PoolsInv
  <2>2. pool = {} /\ \E w \in Workers : op[w] # NoOp
    BY <2>1 DEF PoolsInv, PoolInv, ThreadInv, ThreadAt
  <2>3. Balance
    BY <2>2 DEF PoolsInv, PoolInv
  <2>4. /\ Cardinality(pool) = 0 /\ Cardinality(Holders) \in Nat
        /\ Cardinality(Doing("PUT")) \in Nat /\ Cardinality(Doing("DELETE")) \in Nat
        /\ create \in Nat /\ issued["DELETE"] \in Nat /\ issued["PUT"] \in Nat
        /\ issued["failed"] \in Nat
    BY <2>1, <2>2, CountsAreNat, FS_EmptySet
  <2>5. Cardinality(Holders) + Cardinality(Doing("PUT")) <= Outstanding /\ Outstanding \in Int
    <3>1. Concurrency \in Nat
      BY PoolWorkersAssumption, FS_CardinalityType DEF Concurrency
    <3> QED
      BY <3>1, AtMostOutstanding DEF Outstanding
  <2> QED
    BY <2>3, <2>4, <2>5 DEF Balance
<1> QED
  BY <1>1, PoolsInvariant, PTL
=============================================================================

----------------------------- MODULE HostSelect -----------------------------
(***************************************************************************)
(* The function NewClient returns (client/s3/s3client.go): it hands out a  *)
(* client of one of several hosts, in turn ("roundrobin") or a host with   *)
(* the fewest clients handed out, the one whose last request ended first   *)
(* ("weighed").  With one host there is nothing to choose.                 *)
(***************************************************************************)
EXTENDS Integers, FiniteSets

CONSTANT Hosts     \* number of hosts

ASSUME HostsAssumption == Hosts \in Nat \ {0, 1}

VARIABLES
    hostSelect,  \* "roundrobin" or "weighed"
    current,     \* roundrobin: clients handed out, modulo the hosts
    running,     \* weighed: clients handed out, by host
    lastFinished, \* weighed: the rank of each host's time, 1 the earliest
    passed       \* history: times each host was free and another was chosen
                 \* since its last request began or ended

hostVars == <<hostSelect, current, running, lastFinished, passed>>

Host == 1 .. Hosts

HostTypeOK ==
    /\ hostSelect \in {"roundrobin", "weighed"}
    /\ current \in 0 .. Hosts - 1
    /\ running \in [Host -> Nat]
    /\ lastFinished \in [Host -> Host]
    /\ passed \in [Host -> Nat]

(* The random offset is added to every host (i + off%len), so the first    *)
(* host is always the earliest.                                            *)
NewClient ==
    /\ hostSelect \in {"roundrobin", "weighed"}
    /\ current = 0
    /\ running = [h \in Host |-> 0]
    /\ lastFinished = [h \in Host |-> h]
    /\ passed = [h \in Host |-> 0]

Least(count) == {h \in Host : \A g \in Host : count[h] <= count[g]}

(* The host of the hosts s whose last request ended first.                 *)
Earliest(s) == CHOOSE h \in s : \A g \in s : lastFinished[h] <= lastFinished[g]

find == Earliest(Least(running))

(* The host of the next client, and what handing it out changes.           *)
Chosen == IF hostSelect = "roundrobin" THEN current + 1 ELSE find

HandOut(h) ==
    /\ h = Chosen
    /\ IF hostSelect = "roundrobin"
       THEN /\ current' = (current + 1) % Hosts
            /\ UNCHANGED <<running, passed>>
       ELSE /\ running' = [running EXCEPT ![h] = @ + 1]
            /\ passed' = [g \in Host |-> IF g = h THEN 0
                                         ELSE IF g \in Least(running) THEN passed[g] + 1
                                         ELSE passed[g]]
            /\ UNCHANGED current
    /\ UNCHANGED <<hostSelect, lastFinished>>

(* Mutant of FinishedNow: the time of the last request is not kept.        *)
FinishedNever(h) == lastFinished

(* A request of the host h ended just now: its time is the latest.         *)
FinishedNow(h) ==
    [g \in Host |-> IF g = h THEN Hosts
                   ELSE IF lastFinished[g] > lastFinished[h] THEN lastFinished[g] - 1
                   ELSE lastFinished[g]]

(* Mutant of GiveBack: done is called twice.                               *)
GiveBackTwice(h) ==
    /\ lastFinished' = FinishedNow(h)
    /\ running' = [running EXCEPT ![h] = @ - 2]
    /\ passed' = [passed EXCEPT ![h] = 0]
    /\ UNCHANGED <<hostSelect, current>>

(* The function that is returned with the client of host h; it panics when *)
(* the count falls below 0.                                                *)
GiveBack(h) ==
    /\ IF hostSelect = "roundrobin" THEN UNCHANGED <<running, lastFinished, passed>>
       ELSE /\ lastFinished' = FinishedNow(h)
            /\ running' = [running EXCEPT ![h] = @ - 1]
            /\ passed' = [passed EXCEPT ![h] = 0]
    /\ UNCHANGED <<hostSelect, current>>
=============================================================================

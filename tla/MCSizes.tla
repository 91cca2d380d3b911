------------------------------ MODULE MCSizes ------------------------------
(***************************************************************************)
(* An instance of Analysis with as many requests as it takes for the       *)
(* default share of a range of sizes, 5 percent, to be two requests: one   *)
(* thread makes 42 requests, one after the other, and the 40 between the   *)
(* first and the last are analysed.  The sizes are those of a benchmark    *)
(* with random sizes: few small ones.  The run begins where the Record     *)
(* steps that make them end.                                               *)
(***************************************************************************)
EXTENDS Analysis

MCKinds ==
    {[type |-> "GET", err |-> FALSE, size |-> z, file |-> 11, host |-> "h1", fb |-> TRUE] :
        z \in {5, 500}}
MCFlags == {[host |-> "", op |-> "", skip |-> 0, offset |-> 0, limit |-> 0]}
MCStdDurations == <<3, 12>>

(* Which of the requests are small.                                        *)
Smalls == {{}, {20}, {20, 30}, {20, 25, 30}}

Kind(small, j) == CHOOSE k \in MCKinds : k.size = IF j \in small THEN 5 ELSE 500

InitSizes ==
    \E small \in Smalls :
        /\ pc = "run"
        /\ got = << [j \in 1 .. MaxOps |->
                       LET k == Kind(small, j)
                       IN  [type |-> k.type, start |-> j * Tick, end |-> (j + 1) * Tick,
                            fb |-> ((2 * j + 1) * Tick) \div 2, err |-> k.err, size |-> k.size,
                            file |-> k.file, thread |-> 0, client |-> 1, host |-> k.host]] >>
        /\ ops = <<>>
        /\ flags = <<>>
        /\ aggr = <<>>

SpecSizes == InitSizes /\ [][Next]_vars
=============================================================================

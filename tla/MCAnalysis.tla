----------------------------- MODULE MCAnalysis -----------------------------
(* Instances of Analysis: requests of two types, sizes, hosts and files.   *)
EXTENDS Analysis

Kind(type, err, size, file, host, fb) ==
    [type |-> type, err |-> err, size |-> size, file |-> file, host |-> host, fb |-> fb]

MCKinds == {
    Kind("GET", FALSE, 5, 11, "h1", TRUE),
    Kind("GET", TRUE, 3, 11, "h2", FALSE),
    Kind("GET", FALSE, 2000, 12, "h1", TRUE),
    Kind("PUT", FALSE, 1000, 12, "h2", FALSE)}

MCFlags == {
    [host |-> "", op |-> "", skip |-> 0, offset |-> 0, limit |-> 0],
    [host |-> "h2", op |-> "", skip |-> 1, offset |-> 1, limit |-> 3]}

MCStdDurations == <<1, 2>>
=============================================================================

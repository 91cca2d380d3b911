------------------------------- MODULE Stages -------------------------------
(***************************************************************************)
(* What a coordinated benchmark promises, without connections, requests    *)
(* and replies: a team of members is taken through the stages prepare (1), *)
(* benchmark (2) and cleanup (3).  A stage is opened once every member of  *)
(* the team is through the one before it, and nobody runs a stage that was *)
(* not opened.  Members may leave the team at any time, and join it only   *)
(* before the first stage.  Coordinator implements this specification.     *)
(***************************************************************************)
EXTENDS Naturals

CONSTANT Members

VARIABLES
    open,   \* the last stage that was opened
    team,   \* the members the coordinator counts on
    prog    \* progress of each: stage k runs at 2k - 1 and is done at 2k

stageVars == <<open, team, prog>>

StagesInit ==
    /\ open = 0
    /\ team = {}
    /\ prog = [i \in Members |-> 0]

Join(i) ==
    /\ open = 0
    /\ team' = team \cup {i}
    /\ prog' = [prog EXCEPT ![i] = 0]
    /\ UNCHANGED open

Leave(S) ==
    /\ team' = team \ S
    /\ UNCHANGED <<open, prog>>

Open(k) ==
    /\ open = k - 1
    /\ \A i \in team : prog[i] = 2 * (k - 1)
    /\ open' = k
    /\ UNCHANGED <<team, prog>>

Start(i, k) ==
    /\ k <= open
    /\ prog[i] = 2 * (k - 1)
    /\ prog' = [prog EXCEPT ![i] = 2 * k - 1]
    /\ UNCHANGED <<open, team>>

(* A member that fails in the stage leaves the team.                       *)
Finish(i, k) ==
    /\ prog[i] = 2 * k - 1
    /\ prog' = [prog EXCEPT ![i] = 2 * k]
    /\ team' \in {team, team \ {i}}
    /\ UNCHANGED open

StagesNext ==
    \/ \E i \in Members : Join(i)
    \/ \E S \in SUBSET Members : Leave(S)
    \/ \E k \in 1 .. 3 : Open(k) \/ \E i \in Members : Start(i, k) \/ Finish(i, k)

StagesSpec == StagesInit /\ [][StagesNext]_stageVars

(* The team moves through the stages together: a member is at most one     *)
(* stage behind the stage that is open, and nobody is ahead of it.         *)
InStep ==
    /\ \A i \in Members : prog[i] <= 2 * open
    /\ \A i \in team : prog[i] >= 2 * open - 2
=============================================================================

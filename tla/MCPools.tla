------------------------------ MODULE MCPools ------------------------------
(* Two threads, two hosts; the lists differ in how far the deletes get     *)
(* ahead of the uploads, and in what is read meanwhile; the last one is    *)
(* gone through again and again.                                           *)
EXTENDS Pools, TLC

MCOpLists == {<<"DELETE", "GET", "STAT", "GET", "PUT">>,
              <<"DELETE", "DELETE", "GET", "STAT", "PUT", "PUT">>,
              <<"DELETE", "DELETE", "PUT", "PUT">>,
              <<"GET">>}
MCSymmetry == Permutations(Workers)
=============================================================================

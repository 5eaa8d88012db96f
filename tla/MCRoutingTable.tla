---------------------------- MODULE MCRoutingTable ----------------------------
(***************************************************************************)
(* Instances of RoutingTable for TLC.                                      *)
(***************************************************************************)
EXTENDS RoutingTable

\* 2 and 3 hear the root and each other.
TriangleParents == [n \in Node |-> CASE n = 1 -> {} [] n = 2 -> {1, 3} [] n = 3 -> {1, 2}]
===============================================================================

------------------------------ MODULE MCDataPlane ------------------------------
(***************************************************************************)
(* Instances of DataPlane for TLC.                                         *)
(***************************************************************************)
EXTENDS DataPlane

\* 2 below the root 1, 3 below 2.
ChainParents == [n \in Node |-> CASE n = 1 -> {} [] n = 2 -> {1} [] n = 3 -> {2}]
===============================================================================

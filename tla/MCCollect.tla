------------------------------ MODULE MCCollect ------------------------------
(***************************************************************************)
(* Instances of Collect for TLC.                                           *)
(***************************************************************************)
EXTENDS Collect

CONSTANTS r, a, b

\* A stand-in for -1000; a cfg file has no negative literals.
NoRoute6 == -6

\* b hears the root, but is better off through a; a and b hear each other.
TriangleRssi ==
  [s \in Node |-> [t \in Node |->
     CASE <<s, t>> = <<r, b>> -> {-3}
       [] <<s, t>> \in {<<r, a>>, <<a, b>>, <<b, a>>} -> {-1}
       [] OTHER -> {}]]
===============================================================================

---------------------------- MODULE DistanceVector ----------------------------
(***************************************************************************)
(* What the choice of a parent promises, without tables, beacons and       *)
(* timers.  Until something fails, a mote only takes a parent whose own    *)
(* metric supports the mote's new one at that very moment, and never for a *)
(* worse metric than it has; so parents lead to the root.  From the first  *)
(* failure on a mote may take any parent, on the strength of a metric that *)
(* nobody has any more, but it still has a parent exactly when it has a    *)
(* metric.                                                                 *)
(***************************************************************************)
EXTENDS Integers

CONSTANTS Node, Root, NoNode, Rssi, NoRoute   \* as in ParentSelection

VARIABLES parent, metric, failed

vars == <<parent, metric, failed>>

Alone(n) == IF n = Root THEN 0 ELSE NoRoute

Init ==
  /\ parent = [n \in Node |-> NoNode]
  /\ metric = [n \in Node |-> Alone(n)]
  /\ failed = FALSE

Take(n, m, v) ==
  /\ parent' = [parent EXCEPT ![n] = m]
  /\ metric' = [metric EXCEPT ![n] = v]

\* n learns of a path through m that is as good as its own or better.
Improve(n, m) ==
  /\ ~ failed
  /\ \E rssi \in Rssi[m][n] : \E v \in metric[n] .. metric[m] + rssi :
       /\ NoRoute < v /\ v < 0
       /\ Take(n, m, v)
  /\ UNCHANGED failed

\* n forgets its path, or something else.
Fail(n) ==
  /\ Take(n, NoNode, Alone(n)) \/ UNCHANGED <<parent, metric>>
  /\ failed' = TRUE

\* n believes in a path through m.
Believe(n, m) ==
  /\ failed
  /\ \E v \in NoRoute + 1 .. -1 : Take(n, m, v)
  /\ UNCHANGED failed

Next ==
  \/ \E n \in Node \ {Root} : \E m \in Node \ {n} : Improve(n, m) \/ Believe(n, m)
  \/ \E n \in Node : Fail(n)

Spec == Init /\ [][Next]_vars
===============================================================================

--------------------------- MODULE MCParentSelection ---------------------------
(***************************************************************************)
(* Instances of ParentSelection for TLC.  Links are symmetric unless the   *)
(* name says otherwise.                                                    *)
(***************************************************************************)
EXTENDS ParentSelection

CONSTANTS r, a, b, c

\* Stand-ins for -1000; a cfg file has no negative literals.
NoRoute4 == -4
NoRoute6 == -6

\* links is a set of <<mote, mote, RSSI values>>; both ends hear each other.
Symmetric(links) ==
  [s \in Node |-> [t \in Node |->
     UNION { l[3] : l \in { k \in links : {k[1], k[2]} = {s, t} } }]]

\* The root never uses what it hears: where it need not be modelled, deaf.
DeafRoot(rssi) == [rssi EXCEPT ![a][r] = {}, ![b][r] = {}]

\* b is better off through a.
TriangleRssi ==
  DeafRoot(Symmetric({<<r, a, {-1}>>, <<r, b, {-3}>>, <<a, b, {-1}>>}))

\* Links of one direction, over which b hears three motes.  Links fade, one
\* path is at the floor of -1000, one reading is above zero, and paths tie.
CrowdRssi ==
  LET reading == (<<r, a>> :> {-1, -3}) @@ (<<r, b>> :> {-2}) @@ (<<r, c>> :> {-1})
                   @@ (<<a, b>> :> {-1, 1}) @@ (<<c, b>> :> {-1})
  IN  [s \in Node |-> [t \in Node |->
         IF <<s, t>> \in DOMAIN reading THEN reading[<<s, t>>] ELSE {}]]
===============================================================================

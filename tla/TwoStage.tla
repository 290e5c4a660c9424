-------------------------------- MODULE TwoStage --------------------------------
(***************************************************************************)
(* What a page promises that writes a thing to one store and then to        *)
(* another, which knows nothing of the first: both only grow, by one thing  *)
(* at a time, and the second takes only what the first holds already.       *)
(***************************************************************************)
VARIABLES first, second

vars == <<first, second>>

Init == first = {} /\ second = {}

Write ==
  /\ \E e \in first' : first' = first \cup {e}
  /\ UNCHANGED second

Copy ==
  /\ \E e \in first : second' = second \cup {e}
  /\ UNCHANGED first

Next == Write \/ Copy

Spec == Init /\ [][Next]_vars
===============================================================================

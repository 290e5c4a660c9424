----------------------------- MODULE ProductReplica -----------------------------
(***************************************************************************)
(* What the backend's databases promise of the Cosmos chain: for each       *)
(* product they show a version the chain had and never run ahead of it.     *)
(* They move forward, or drop a product's whole history when the chain      *)
(* answered without one, never the product.  Where writers overtake one     *)
(* another, as in OverlapSpec, they may fall back to any version.           *)
(*                                                                         *)
(* Version 0 is "not there"; version n + 1 has n trace steps.               *)
(***************************************************************************)
EXTENDS Naturals

CONSTANT Product

VARIABLES
  version,   \* product -> its version on the chain
  shown      \* product -> the version the database answers with

vars == <<version, shown>>

Init == version = [p \in Product |-> 0] /\ shown = [p \in Product |-> 0]

Grow(p) ==
  /\ version' = [version EXCEPT ![p] = @ + 1]
  /\ UNCHANGED shown

CatchUp(p) ==
  /\ \E v \in (shown[p] + 1) .. version[p] : shown' = [shown EXCEPT ![p] = v]
  /\ UNCHANGED version

Forget(p) ==
  /\ shown[p] > 0
  /\ shown' = [shown EXCEPT ![p] = 1]
  /\ UNCHANGED version

Next == \E p \in Product : Grow(p) \/ CatchUp(p) \/ Forget(p)

Spec == Init /\ [][Next]_vars

Overtake(p) ==
  /\ \E v \in 1 .. version[p] : shown' = [shown EXCEPT ![p] = v]
  /\ UNCHANGED version

OverlapNext == \E p \in Product : Grow(p) \/ Overtake(p)

OverlapSpec == Init /\ [][OverlapNext]_vars
===============================================================================

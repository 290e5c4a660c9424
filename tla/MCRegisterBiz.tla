----------------------------- MODULE MCRegisterBiz -----------------------------
(* One business with two accounts, and one with an account of its own. *)
EXTENDS RegisterBiz, TLC

CONSTANTS b1, b2, w1, w2, w3, pr1, pr2, c1, c2

MCCall    == {c1, c2}
MCProfile == {pr1, pr2}

MCAccountsOf   == [b \in Browser |-> IF b = b1 THEN {w1, w2} ELSE {w3}]
MCFirstAccount == [b \in Browser |-> IF b = b1 THEN w1 ELSE w3]

\* Calls and profiles are interchangeable: no definition names one.
MCSymmetry == Permutations(MCCall) \cup Permutations(MCProfile)
===============================================================================

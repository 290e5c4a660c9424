---------------------------- MODULE MCAdminApproval ----------------------------
(* Two administrators, or one, approving two requests or three. *)
EXTENDS AdminApproval, TLC

CONSTANTS p1, p2, rVN, rVN2, rAUS, c1, c2, f1, f2, f3, addrVN, addrAUS

MCCall  == {c1, c2}
MCFetch == {f1, f2, f3}

\* One request for each hub, as a function that TLC can build from a cfg.
MCRegionOf == [r \in Request |-> IF r = rAUS THEN "AUS" ELSE "VN"]

\* What the migration writes: a contract for each hub.
MCAddressOf == [h \in Hub |-> IF h = "VN" THEN addrVN ELSE addrAUS]

MCLoginRegion == [p \in Page |-> IF p = p1 THEN "VN" ELSE "AUS"]

\* Every call and every fetch is used once and none is named.
MCSymmetry == Permutations(MCCall) \cup Permutations(MCFetch)
===============================================================================

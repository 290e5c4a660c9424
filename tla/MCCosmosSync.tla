----------------------------- MODULE MCCosmosSync -----------------------------
(* Products of both origins, with and without a value that cannot be cast. *)
EXTENDS CosmosSync

CONSTANTS s1, s2

MCRun == {s1, s2}

\* The chain's own spelling, the hub's, and anything else.
MCOriginOf == [p \in Product |-> CASE p = 1 -> "Vietnam" [] p = 2 -> "Australia"
                                   [] OTHER -> "VN"]

\* The first step of the first product has no date mongoose understands: the product
\* stops those listed after it.
MCFirstUncastable == [p \in Product |-> IF p = 1 THEN 2 ELSE MaxVersion + 1]
===============================================================================

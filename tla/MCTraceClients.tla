---------------------------- MODULE MCTraceClients ----------------------------
(* One window over one relayer run and a product of the Australian hub. *)
EXTENDS TraceClients, TLC

CONSTANTS s1, q1, q2

MCAsk == {q1, q2}

MCOriginOf == [p \in 1 .. N |-> IF p = 1 THEN "Australia" ELSE "Vietnam"]
MCCastable == [p \in 1 .. N |-> MaxVersion + 1]

\* The products, and what the scanner makes of the labels of the Australian hub.
MCId == 1 .. N \cup {PadBase + p : p \in 1 .. N}

MCForeign == {[prefix |-> "VN", id |-> 1]}

\* Requests are interchangeable: no definition names one.
MCSymmetry == Permutations(MCAsk)
===============================================================================

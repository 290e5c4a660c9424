--------------------------- MODULE ProvenanceLedger ---------------------------
(***************************************************************************)
(* What a hub promises whoever traces a product, without saying how the    *)
(* contract keeps it: labels are issued under consecutive numbers and      *)
(* never altered, and the journal kept under a number only grows at its    *)
(* end.  A journal may receive entries whether or not its number has been  *)
(* issued: the ledger promises order and permanence, not existence.        *)
(***************************************************************************)
EXTENDS Naturals, Sequences

CONSTANT Number             \* the numbers a journal is kept under

VARIABLES issued,           \* the labels issued so far, in order
          journal           \* the entries recorded under each number

vars == <<issued, journal>>

Init == /\ issued = << >>
        /\ journal = [n \in Number |-> << >>]

\* s is the sequence t with one entry added at its end.
ExtendsByOne(s, t) == /\ Len(s) = Len(t) + 1
                      /\ \A i \in 1 .. Len(t) : s[i] = t[i]

\* Labels are issued after the present ones; a new label may come with one
\* entry in its journal, and no other journal changes.
Issue ==
  /\ Len(issued') > Len(issued)
  /\ \A i \in 1 .. Len(issued) : issued'[i] = issued[i]
  /\ DOMAIN journal' = Number
  /\ \A n \in Number :
       \/ journal'[n] = journal[n]
       \/ /\ n \in Len(issued) + 1 .. Len(issued')
          /\ ExtendsByOne(journal'[n], journal[n])

\* One entry is recorded under one number.
Record ==
  /\ issued' = issued
  /\ DOMAIN journal' = Number
  /\ \E n \in Number :
       /\ ExtendsByOne(journal'[n], journal[n])
       /\ \A m \in Number \ {n} : journal'[m] = journal[m]

Next == Issue \/ Record

Spec == Init /\ [][Next]_vars
===============================================================================

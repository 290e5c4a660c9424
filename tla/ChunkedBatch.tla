------------------------------ MODULE ChunkedBatch ------------------------------
(***************************************************************************)
(* What minting a table in transactions of limited size promises: a batch   *)
(* is fixed when it is started, and its items are done from the first on,   *)
(* a full chunk at a time until the last, all of a chunk at once.           *)
(***************************************************************************)
EXTENDS Naturals, Sequences

CONSTANTS Batch, Size

VARIABLES
  batch,   \* batch -> its items, none before it is started
  done     \* batch -> its items that are done, in the order they were done

vars == <<batch, done>>

Init == batch = [b \in Batch |-> <<>>] /\ done = [b \in Batch |-> <<>>]

Start(b) ==
  /\ batch[b] = <<>> /\ batch'[b] # <<>>
  /\ batch' = [batch EXCEPT ![b] = batch'[b]]
  /\ UNCHANGED done

DoChunk(b) ==
  LET n == Len(done[b])
      m == IF n + Size < Len(batch[b]) THEN n + Size ELSE Len(batch[b])
  IN  /\ done' = [done EXCEPT ![b] = @ \o SubSeq(batch[b], n + 1, m)]
      /\ UNCHANGED batch

Next == \E b \in Batch : Start(b) \/ DoChunk(b)

Spec == Init /\ [][Next]_vars
===============================================================================

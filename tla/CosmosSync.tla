------------------------------- MODULE CosmosSync -------------------------------
(***************************************************************************)
(* The backend's relayer (backend/app.js, syncFromCosmos): a timer starts a *)
(* run every ten seconds, whether or not the last one is over; a run reads  *)
(* the products of the chain, then the trace steps, then upserts one        *)
(* document after the other into the database of the product's hub.  The    *)
(* chain grows, requests fail and the server restarts at any point.         *)
(*                                                                         *)
(* A product is abstracted to its version: 0 before it is on the chain,     *)
(* 1 + the number of its trace steps after.                                 *)
(***************************************************************************)
EXTENDS Naturals, Sequences, FiniteSets

CONSTANTS
  N,                \* the chain's products are 1 .. N, listed in this order
  OriginOf,         \* product -> the origin string stored on the chain
  FirstUncastable,  \* product -> first version that mongoose cannot cast
  Run,              \* bound: runs of syncFromCosmos in flight at once
  MaxVersion        \* bound: versions of a product

Product == 1 .. N
Hub     == {"VN", "AUS"}
Version == 0 .. MaxVersion

ASSUME SizeAssumption   == N \in Nat /\ MaxVersion \in Nat
ASSUME OriginAssumption == DOMAIN OriginOf = Product
ASSUME CastAssumption   == FirstUncastable \in [Product -> Nat]

VARIABLES
  version,   \* product -> its version on the chain
  docs,      \* hub -> product -> versions of the documents with its productId,
             \* in the order find meets them
  run        \* run -> its place in syncFromCosmos and its two snapshots

vars == <<version, docs, run>>

\* "products" and "steps" await the chain's answers, "loop" is at the head of the
\* for, "insert" is an upsert whose filter has matched nothing.
RunPc     == {"idle", "products", "steps", "loop", "insert"}
RunRecord == [pc : RunPc, todo : SUBSET Product, seen : [Product -> Version]]

NothingSeen == [p \in Product |-> 0]
IdleRun     == [pc |-> "idle", todo |-> {}, seen |-> NothingSeen]

\* isVN, and the database getModels picks for it.
HubOf(origin) == IF origin \in {"Vietnam", "VN"} THEN "VN" ELSE "AUS"

Home(p) == HubOf(OriginOf[p])

Castable(p, v) == v < FirstUncastable[p]

\* p is the product the loop is at.
IsNext(p, s) == p \in run[s].todo /\ \A q \in run[s].todo : p <= q

-------------------------------------------------------------------------------
Init ==
  /\ version = [p \in Product |-> 0]
  /\ docs = [h \in Hub |-> [p \in Product |-> <<>>]]
  /\ run = [s \in Run |-> IdleRun]

\* The chain: a product is created, or a step is appended to one.
Grow(p) ==
  /\ version[p] < MaxVersion
  /\ version' = [version EXCEPT ![p] = @ + 1]
  /\ UNCHANGED <<docs, run>>

\* setInterval.
Tick(s) ==
  /\ run[s].pc = "idle"
  /\ run' = [run EXCEPT ![s].pc = "products"]
  /\ UNCHANGED <<version, docs>>

GetProducts(s) ==
  /\ run[s].pc = "products"
  /\ run' = [run EXCEPT ![s].pc = "steps",
                        ![s].todo = {p \in Product : version[p] > 0}]
  /\ UNCHANGED <<version, docs>>

\* An answer without a list counts as an empty one: no product to write.
GetNoProducts(s) ==
  /\ run[s].pc = "products"
  /\ run' = [run EXCEPT ![s].pc = "steps", ![s].todo = {}]
  /\ UNCHANGED <<version, docs>>

\* Mutant: every product has one step too many.
GetStepsPlusOne(s) ==
  /\ run[s].pc = "steps"
  /\ run' = [run EXCEPT ![s].pc = "loop",
                        ![s].seen = [p \in Product |-> version[p] + 1]]
  /\ UNCHANGED <<version, docs>>

GetSteps(s) ==
  /\ run[s].pc = "steps"
  /\ run' = [run EXCEPT ![s].pc = "loop", ![s].seen = version]
  /\ UNCHANGED <<version, docs>>

\* What is left of the chain's versions without their steps.
Bare == [p \in Product |-> IF version[p] > 0 THEN 1 ELSE 0]

\* No list of steps: the run goes on with bare products.
GetNoSteps(s) ==
  /\ run[s].pc = "steps"
  /\ run' = [run EXCEPT ![s].pc = "loop", ![s].seen = Bare]
  /\ UNCHANGED <<version, docs>>

\* Mutant: the document is inserted without looking for it.
UpsertAlwaysInserts(s, p) ==
  /\ run[s].pc = "loop"
  /\ IsNext(p, s)
  /\ Castable(p, run[s].seen[p])
  /\ run' = [run EXCEPT ![s].pc = "insert"]
  /\ UNCHANGED <<version, docs>>

\* Mutant: $setOnInsert, a document that is there is left as it is.
UpsertOnlyInserts(s, p) ==
  /\ run[s].pc = "loop"
  /\ IsNext(p, s)
  /\ Castable(p, run[s].seen[p])
  /\ run' = IF docs[Home(p)][p] = <<>> THEN [run EXCEPT ![s].pc = "insert"]
            ELSE [run EXCEPT ![s].todo = @ \ {p}]
  /\ UNCHANGED <<version, docs>>

\* Mutant: the document is removed and inserted anew.
UpsertReplaces(s, p) ==
  /\ run[s].pc = "loop"
  /\ IsNext(p, s)
  /\ Castable(p, run[s].seen[p])
  /\ run' = [run EXCEPT ![s].pc = "insert"]
  /\ docs' = [docs EXCEPT ![Home(p)][p] = <<>>]
  /\ UNCHANGED version

\* findOneAndUpdate with upsert: the first document with this productId is
\* updated in one step; finding none and inserting one are two, and no unique
\* index joins them.
Upsert(s, p) ==
  /\ run[s].pc = "loop"
  /\ IsNext(p, s)
  /\ Castable(p, run[s].seen[p])
  /\ IF docs[Home(p)][p] = <<>>
     THEN /\ run' = [run EXCEPT ![s].pc = "insert"]
          /\ UNCHANGED docs
     ELSE /\ run' = [run EXCEPT ![s].todo = @ \ {p}]
          /\ docs' = [docs EXCEPT ![Home(p)][p][1] = run[s].seen[p]]
  /\ UNCHANGED version

Insert(s, p) ==
  /\ run[s].pc = "insert"
  /\ IsNext(p, s)
  /\ run' = [run EXCEPT ![s].pc = "loop", ![s].todo = @ \ {p}]
  /\ docs' = [docs EXCEPT ![Home(p)][p] = Append(@, run[s].seen[p])]
  /\ UNCHANGED version

\* The run ends: the loop is through, mongoose cannot cast the product it is at,
\* or the chain or the database failed a request; what was written stays.
EndRun(s) ==
  /\ run' = [run EXCEPT ![s] = IdleRun]
  /\ UNCHANGED <<version, docs>>

Finish(s) == run[s].pc = "loop" /\ run[s].todo = {} /\ EndRun(s)

CastFails(s, p) ==
  /\ run[s].pc = "loop"
  /\ IsNext(p, s)
  /\ ~ Castable(p, run[s].seen[p])
  /\ EndRun(s)

RequestFails(s) == run[s].pc # "idle" /\ EndRun(s)

\* The server stops and is started again.
Restart ==
  /\ run' = [s \in Run |-> IdleRun]
  /\ UNCHANGED <<version, docs>>

RunNext(s) ==
  \/ Tick(s) \/ Finish(s) \/ RequestFails(s)
  \/ GetProducts(s) \/ GetNoProducts(s) \/ GetSteps(s) \/ GetNoSteps(s)
  \/ \E p \in Product : Upsert(s, p) \/ Insert(s, p) \/ CastFails(s, p)

Next == Restart \/ (\E p \in Product : Grow(p)) \/ (\E s \in Run : RunNext(s))

Spec == Init /\ [][Next]_vars

\* The timer keeps ticking, and of the runs that overlap one goes on: what it asks
\* again and again is not failed for ever, so each step that a failure or a restart
\* can cut short is strongly fair.  The others may hang or fail as they like.
FairSpec ==
  /\ Spec
  /\ \E s \in Run :
       /\ WF_vars(Tick(s)) /\ WF_vars(Finish(s))
       /\ WF_vars(\E p \in Product : CastFails(s, p))
       /\ SF_vars(GetProducts(s)) /\ SF_vars(GetSteps(s))
       /\ \A p \in Product : SF_vars(Upsert(s, p)) /\ SF_vars(Insert(s, p))

-------------------------------------------------------------------------------
(* What the databases keep true. *)

\* Every variable holds a value of its kind.
TypeOK ==
  /\ version \in [Product -> Version]
  /\ docs \in [Hub -> [Product -> Seq(Version)]]
  /\ run \in [Run -> RunRecord]

\* The version that GET /api/trace answers with: findOne meets the oldest document.
Shown(p) == IF docs[Home(p)][p] = <<>> THEN 0 ELSE docs[Home(p)][p][1]

\* Every document shows a version that its product has had on the chain, however
\* runs overlap, fail or are cut by a restart (the snapshots of app.js:58 and 61,
\* taken at two times, written at 89).
DocsAreHistory ==
  \A h \in Hub, p \in Product : \A i \in 1 .. Len(docs[h][p]) :
    docs[h][p][i] \in 1 .. version[p]

\* No two documents of a database have one productId. Kept as long as runs do not
\* overlap; "Dùng ID làm code định danh" (app.js:81), the id is the identifying
\* code, is what two overlapping upserts break.
IdIdentifies == \A h \in Hub, p \in Product : Len(docs[h][p]) <= 1

\* Overlap has a limit: an id never has more documents than there are runs in flight
\* at once, since a run that starts after the first insert finds a document and
\* updates it, however many failures and restarts come in between (app.js:89, 148).
DuplicatesBounded ==
  \A h \in Hub, p \in Product : Len(docs[h][p]) <= Cardinality(Run)

\* The products the loop can reach: mongoose can cast them as they are on the chain,
\* and every product listed before them, for the first that it cannot ends the run.
Reachable == {p \in Product : \A q \in 1 .. p : version[q] > 0 => Castable(q, version[q])}

\* The relayer loses sight of something that the chain has.
Forgets(s) ==
  \/ GetNoProducts(s) /\ ~ GetProducts(s)
  \/ GetNoSteps(s) /\ ~ GetSteps(s)

\* Once the chain is quiet and answers with its lists, the databases catch up with it
\* and stay so, even if overlapping runs write their snapshots, or the bare products
\* of an earlier answer, out of order, and requests keep failing (app.js:58-89).
Converges ==
  <>[][\A s \in Run : ~ Forgets(s)]_vars
    => <>[](\A p \in Reachable : Shown(p) = version[p])

\* Runs that do not overlap implement the replica: for each product the answer of the
\* backend moves forward, never ahead of the chain and never to an older history in
\* between, but for the bare product of an answer that had no list (app.js:58-89).
Replica == INSTANCE ProductReplica WITH shown <- [p \in Product |-> Shown(p)]
ReplicaSpec == Replica!Spec

\* Runs that overlap still implement its weaker form: one answer changes at a time,
\* it may fall back, and a product once shown never disappears (app.js:89, 148).
OverlapReplicaSpec == Replica!OverlapSpec
===============================================================================

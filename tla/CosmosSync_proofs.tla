--------------------------- MODULE CosmosSync_proofs ---------------------------
(***************************************************************************)
(* Safety of the relayer for any number of products, versions and runs.    *)
(* A snapshot in flight is never ahead of the chain (SnapshotInv).  When    *)
(* runs overlap, those about to insert and the documents inserted are       *)
(* together no more than the runs (BoundInv); when they do not, a snapshot  *)
(* is not behind what the database shows either, or it is the bare product  *)
(* of an answer without steps (AloneInv).                                   *)
(***************************************************************************)
EXTENDS CosmosSync, SequenceTheorems, FiniteSetTheorems, TLAPS

USE DEF Product, Version

LEMMA HomeHub == \A p \in Product : Home(p) \in Hub
  BY DEF Home, HubOf, Hub

LEMMA TypeInit == Init => TypeOK
  BY SizeAssumption DEF Init, TypeOK, IdleRun, NothingSeen, RunRecord, RunPc, Hub

\* A bare product is a past version of every product on the chain.
LEMMA BareBelow ==
  ASSUME TypeOK
  PROVE  /\ Bare \in [Product -> Version]
         /\ \A p \in Product : version[p] > 0 => Bare[p] = 1 /\ Bare[p] \in 1 .. version[p]
  <1>1. \A p \in Product : version[p] \in Version /\ version[p] \in Nat
    BY SizeAssumption DEF TypeOK
  <1>2. \A p \in Product : Bare[p] = IF version[p] > 0 THEN 1 ELSE 0
    BY DEF Bare
  <1>3. \A p \in Product : Bare[p] \in Version
    BY <1>1, <1>2, SizeAssumption
  <1>4. QED
    BY <1>1, <1>2, <1>3 DEF Bare

\* What each step of a run does to its record, field by field.
LEMMA RunStep ==
  ASSUME NEW s \in Run, TypeOK
  PROVE  /\ Tick(s) => run' = [run EXCEPT ![s].pc = "products",
                     ![s].todo = run[s].todo, ![s].seen = run[s].seen]
         /\ GetProducts(s) => run' = [run EXCEPT ![s].pc = "steps",
                     ![s].todo = {p \in Product : version[p] > 0},
                     ![s].seen = run[s].seen]
         /\ GetNoProducts(s) => run' = [run EXCEPT ![s].pc = "steps",
                     ![s].todo = {}, ![s].seen = run[s].seen]
         /\ GetSteps(s) => run' = [run EXCEPT ![s].pc = "loop",
                     ![s].todo = run[s].todo, ![s].seen = version]
         /\ GetNoSteps(s) => run' = [run EXCEPT ![s].pc = "loop",
                     ![s].todo = run[s].todo, ![s].seen = Bare]
         /\ EndRun(s) => run' = [run EXCEPT ![s].pc = "idle",
                     ![s].todo = {}, ![s].seen = NothingSeen]
         /\ \A p \in Product : Insert(s, p) =>
              run' = [run EXCEPT ![s].pc = "loop",
                     ![s].todo = run[s].todo \ {p}, ![s].seen = run[s].seen]
         /\ \A p \in Product : Upsert(s, p) =>
              IF docs[Home(p)][p] = <<>>
              THEN run' = [run EXCEPT ![s].pc = "insert",
                     ![s].todo = run[s].todo, ![s].seen = run[s].seen]
              ELSE run' = [run EXCEPT ![s].pc = "loop",
                     ![s].todo = run[s].todo \ {p}, ![s].seen = run[s].seen]
  <1>1. run \in [Run -> RunRecord]
    BY DEF TypeOK
  <1>2. Tick(s) => run' = [run EXCEPT ![s].pc = "products",
                     ![s].todo = run[s].todo, ![s].seen = run[s].seen]
    BY <1>1 DEF Tick, RunRecord
  <1>3. GetProducts(s) => run' = [run EXCEPT ![s].pc = "steps",
                     ![s].todo = {p \in Product : version[p] > 0},
                     ![s].seen = run[s].seen]
    BY <1>1 DEF GetProducts, RunRecord
  <1>9. GetNoProducts(s) => run' = [run EXCEPT ![s].pc = "steps",
                     ![s].todo = {}, ![s].seen = run[s].seen]
    BY <1>1 DEF GetNoProducts, RunRecord
  <1>4. GetSteps(s) => run' = [run EXCEPT ![s].pc = "loop",
                     ![s].todo = run[s].todo, ![s].seen = version]
    BY <1>1 DEF GetSteps, RunRecord
  <1>10. GetNoSteps(s) => run' = [run EXCEPT ![s].pc = "loop",
                     ![s].todo = run[s].todo, ![s].seen = Bare]
    BY <1>1 DEF GetNoSteps, RunRecord
  <1>5. EndRun(s) => run' = [run EXCEPT ![s].pc = "idle",
                     ![s].todo = {}, ![s].seen = NothingSeen]
    BY <1>1 DEF EndRun, IdleRun, RunRecord
  <1>6. ASSUME NEW p \in Product, Insert(s, p)
        PROVE  run' = [run EXCEPT ![s].pc = "loop",
                     ![s].todo = run[s].todo \ {p}, ![s].seen = run[s].seen]
    BY <1>1, <1>6 DEF Insert, RunRecord
  <1>7. ASSUME NEW p \in Product, Upsert(s, p)
        PROVE  IF docs[Home(p)][p] = <<>>
               THEN run' = [run EXCEPT ![s].pc = "insert",
                     ![s].todo = run[s].todo, ![s].seen = run[s].seen]
               ELSE run' = [run EXCEPT ![s].pc = "loop",
                     ![s].todo = run[s].todo \ {p}, ![s].seen = run[s].seen]
    BY <1>1, <1>7 DEF Upsert, RunRecord
  <1>8. QED
    BY <1>2, <1>3, <1>4, <1>5, <1>6, <1>7, <1>9, <1>10

\* Run s is now at pc with these snapshots, and no other run has moved.
Moved(s, pc, todo, seen) ==
  /\ run' \in [Run -> RunRecord]
  /\ run'[s].pc = pc /\ run'[s].todo = todo /\ run'[s].seen = seen
  /\ \A t \in Run \ {s} : run'[t] = run[t]

LEMMA MovedBy ==
  ASSUME NEW s \in Run, TypeOK
  PROVE  /\ Tick(s) => Moved(s, "products", run[s].todo, run[s].seen)
         /\ GetProducts(s) =>
              Moved(s, "steps", {p \in Product : version[p] > 0}, run[s].seen)
         /\ GetNoProducts(s) => Moved(s, "steps", {}, run[s].seen)
         /\ GetSteps(s) => Moved(s, "loop", run[s].todo, version)
         /\ GetNoSteps(s) => Moved(s, "loop", run[s].todo, Bare)
         /\ EndRun(s) => Moved(s, "idle", {}, NothingSeen)
         /\ \A p \in Product : Insert(s, p) =>
              Moved(s, "loop", run[s].todo \ {p}, run[s].seen)
         /\ \A p \in Product : Upsert(s, p) =>
              IF docs[Home(p)][p] = <<>>
              THEN Moved(s, "insert", run[s].todo, run[s].seen)
              ELSE Moved(s, "loop", run[s].todo \ {p}, run[s].seen)
  <1>1. /\ run[s].todo \in SUBSET Product /\ run[s].seen \in [Product -> Version]
        /\ version \in [Product -> Version] /\ NothingSeen \in [Product -> Version]
        /\ Bare \in [Product -> Version]
    BY BareBelow, SizeAssumption DEF TypeOK, RunRecord, NothingSeen
  <1>2. ASSUME NEW pc \in RunPc, NEW todo \in SUBSET Product,
               NEW seen \in [Product -> Version],
               run' = [run EXCEPT ![s].pc = pc, ![s].todo = todo, ![s].seen = seen]
        PROVE  Moved(s, pc, todo, seen)
    BY <1>2 DEF Moved, TypeOK, RunRecord
  <1>3. {"idle", "products", "steps", "loop", "insert"} \subseteq RunPc
    BY DEF RunPc
  <1>4. {p \in Product : version[p] > 0} \in SUBSET Product
    OBVIOUS
  <1>5. /\ Tick(s) => Moved(s, "products", run[s].todo, run[s].seen)
        /\ GetProducts(s) =>
              Moved(s, "steps", {p \in Product : version[p] > 0}, run[s].seen)
        /\ GetNoProducts(s) => Moved(s, "steps", {}, run[s].seen)
        /\ GetSteps(s) => Moved(s, "loop", run[s].todo, version)
        /\ GetNoSteps(s) => Moved(s, "loop", run[s].todo, Bare)
        /\ EndRun(s) => Moved(s, "idle", {}, NothingSeen)
    BY <1>1, <1>2, <1>3, <1>4, RunStep
  <1>6. ASSUME NEW p \in Product
        PROVE  /\ Insert(s, p) => Moved(s, "loop", run[s].todo \ {p}, run[s].seen)
               /\ Upsert(s, p) =>
                    IF docs[Home(p)][p] = <<>>
                    THEN Moved(s, "insert", run[s].todo, run[s].seen)
                    ELSE Moved(s, "loop", run[s].todo \ {p}, run[s].seen)
    <2>1. run[s].todo \ {p} \in SUBSET Product
      BY <1>1
    <2>2. QED
      BY <1>1, <1>2, <1>3, <2>1, RunStep
  <1>7. QED
    BY <1>5, <1>6

\* What a write does to the documents of one product, and to no other.
LEMMA Written ==
  ASSUME NEW s \in Run, NEW p \in Product, TypeOK
  PROVE  LET old == docs[Home(p)][p]
             new == docs'[Home(p)][p]
             v   == run[s].seen[p]
             WritesV == /\ docs' \in [Hub -> [Product -> Seq(Version)]]
                        /\ \A h \in Hub, q \in Product :
                             h # Home(p) \/ q # p => docs'[h][q] = docs[h][q]
         IN  /\ Insert(s, p) => /\ WritesV
                                /\ new = Append(old, v)
             /\ Upsert(s, p) /\ old # <<>> =>
                               /\ WritesV
                               /\ new = [old EXCEPT ![1] = v]
                               /\ 1 \in 1 .. Len(old)
  <1> DEFINE old == docs[Home(p)][p]
             v   == run[s].seen[p]
  <1>1. /\ Home(p) \in Hub /\ docs \in [Hub -> [Product -> Seq(Version)]]
        /\ v \in Version
    BY HomeHub DEF TypeOK, RunRecord
  <1>2. ASSUME NEW w \in Seq(Version),
               docs' = [docs EXCEPT ![Home(p)][p] = w]
        PROVE  /\ docs' \in [Hub -> [Product -> Seq(Version)]]
               /\ docs'[Home(p)][p] = w
               /\ \A h \in Hub, q \in Product :
                    h # Home(p) \/ q # p => docs'[h][q] = docs[h][q]
    BY <1>1, <1>2
  <1>3. old \in Seq(Version)
    BY <1>1
  <1>4. ASSUME Insert(s, p)
        PROVE  docs' = [docs EXCEPT ![Home(p)][p] = Append(old, v)]
    BY <1>1, <1>4 DEF Insert
  <1>5. Append(old, v) \in Seq(Version)
    <2> HIDE DEF old, v
    <2>1. QED
      BY <1>1, <1>3
  <1>6. ASSUME Upsert(s, p), old # <<>>
        PROVE  docs' = [docs EXCEPT ![Home(p)][p] = [old EXCEPT ![1] = v]]
    BY <1>1, <1>6 DEF Upsert
  <1>7. ASSUME old # <<>>
        PROVE  [old EXCEPT ![1] = v] \in Seq(Version) /\ 1 \in 1 .. Len(old)
    <2> HIDE DEF old, v
    <2>1. Len(old) \in Nat \ {0}
      BY <1>3, <1>7, EmptySeq
    <2>2. QED
      BY <1>1, <1>3, <2>1, ExceptSeq
  <1>8. QED
    BY <1>2, <1>4, <1>5, <1>6, <1>7

LEMMA TypeStep == TypeOK /\ [Next]_vars => TypeOK'
  <1> SUFFICES ASSUME TypeOK, [Next]_vars PROVE TypeOK'
    OBVIOUS
  <1>1. CASE Restart
    BY <1>1, SizeAssumption DEF Restart, TypeOK, IdleRun, NothingSeen, RunRecord, RunPc
  <1>2. ASSUME NEW p \in Product, Grow(p)
        PROVE  TypeOK'
    BY <1>2, SizeAssumption DEF Grow, TypeOK
  <1>3. ASSUME NEW s \in Run, RunNext(s)
        PROVE  TypeOK'
    <2>1. run' \in [Run -> RunRecord]
      BY <1>3, MovedBy DEF RunNext, Moved, Finish, CastFails, RequestFails
    <2>2. docs' \in [Hub -> [Product -> Seq(Version)]]
      <3>1. ASSUME NEW p \in Product, Upsert(s, p) \/ Insert(s, p)
            PROVE  docs' \in [Hub -> [Product -> Seq(Version)]]
        <4>1. CASE UNCHANGED docs
          BY <4>1 DEF TypeOK
        <4>2. CASE ~ UNCHANGED docs
          BY <3>1, <4>2, Written DEF Upsert
        <4>3. QED
          BY <4>1, <4>2
      <3>2. QED
        BY <1>3, <3>1 DEF RunNext, Tick, GetProducts, GetNoProducts, GetSteps, GetNoSteps, Finish, CastFails,
                          RequestFails, EndRun, TypeOK
    <2>3. UNCHANGED version
      BY <1>3 DEF RunNext, Tick, GetProducts, GetNoProducts, GetSteps, GetNoSteps, Finish, CastFails,
                  RequestFails, EndRun, Upsert, Insert
    <2>4. QED
      BY <2>1, <2>2, <2>3 DEF TypeOK
  <1>4. CASE UNCHANGED vars
    BY <1>4 DEF vars, TypeOK
  <1>5. QED
    BY <1>1, <1>2, <1>3, <1>4 DEF Next

\* Every variable keeps its type.
THEOREM TypeCorrect == Spec => []TypeOK
  BY TypeInit, TypeStep, PTL DEF Spec

-------------------------------------------------------------------------------
(* Documents are history. *)

\* A snapshot in flight is of the past: the products a run still has to write are
\* on the chain, in a version that the chain has reached.
Snapshot(s) ==
  \A p \in run[s].todo :
    /\ run[s].pc \in {"steps", "loop", "insert"} => version[p] > 0
    /\ run[s].pc \in {"loop", "insert"} => run[s].seen[p] \in 1 .. version[p]

SnapshotInv == DocsAreHistory /\ \A s \in Run : Snapshot(s)

LEMMA SnapshotInit == Init => SnapshotInv
  BY DEF Init, SnapshotInv, Snapshot, DocsAreHistory, IdleRun

\* A step that writes no document, and one that writes a version the run has seen.
LEMMA HistoryKept ==
  ASSUME TypeOK, DocsAreHistory, UNCHANGED docs,
         version' \in [Product -> Version],
         \A p \in Product : version[p] <= version'[p]
  PROVE  DocsAreHistory'
  BY DEF DocsAreHistory, TypeOK

LEMMA HistoryWritten ==
  ASSUME TypeOK, SnapshotInv, NEW s \in Run, NEW p \in Product,
         (Upsert(s, p) /\ ~ UNCHANGED docs) \/ Insert(s, p)
  PROVE  DocsAreHistory'
  <1> DEFINE old == docs[Home(p)][p]
             new == docs'[Home(p)][p]
             v   == run[s].seen[p]
  <1>1. v \in 1 .. version[p] /\ UNCHANGED version
    BY DEF SnapshotInv, Snapshot, Upsert, Insert, IsNext
  <1>2. /\ \A h \in Hub, q \in Product :
             h # Home(p) \/ q # p => docs'[h][q] = docs[h][q]
        /\ new = Append(old, v) \/ (new = [old EXCEPT ![1] = v] /\ 1 \in 1 .. Len(old))
    BY Written DEF Upsert
  <1>3. old \in Seq(Version) /\ v \in Version
    BY HomeHub DEF TypeOK, RunRecord
  <1>4. \A i \in 1 .. Len(new) : new[i] = v \/ (i \in 1 .. Len(old) /\ new[i] = old[i])
    <2> HIDE DEF old, new, v
    <2>1. CASE new = Append(old, v)
      BY <1>3, <2>1
    <2>2. CASE new = [old EXCEPT ![1] = v] /\ 1 \in 1 .. Len(old)
      BY <1>3, <2>2, ExceptSeq
    <2>3. QED
      BY <1>2, <2>1, <2>2
  <1>5. \A i \in 1 .. Len(old) : old[i] \in 1 .. version[p]
    BY HomeHub DEF SnapshotInv, DocsAreHistory
  <1>6. \A i \in 1 .. Len(new) : new[i] \in 1 .. version'[p]
    BY <1>1, <1>4, <1>5
  <1>7. ASSUME NEW h \in Hub, NEW q \in Product, NEW i \in 1 .. Len(docs'[h][q])
        PROVE  docs'[h][q][i] \in 1 .. version'[q]
    <2>1. CASE h = Home(p) /\ q = p
      BY <1>6, <2>1
    <2>2. CASE h # Home(p) \/ q # p
      BY <1>1, <1>2, <2>2 DEF SnapshotInv, DocsAreHistory
    <2>3. QED
      BY <2>1, <2>2
  <1>8. QED
    BY <1>7 DEF DocsAreHistory

LEMMA SnapshotStep == TypeOK /\ SnapshotInv /\ [Next]_vars => SnapshotInv'
  <1> SUFFICES ASSUME TypeOK, SnapshotInv, [Next]_vars PROVE SnapshotInv'
    OBVIOUS
  <1>0. TypeOK'
    BY TypeStep
  <1>1. CASE Restart
    BY <1>1 DEF Restart, SnapshotInv, Snapshot, DocsAreHistory, IdleRun
  <1>2. ASSUME NEW p \in Product, Grow(p)
        PROVE  SnapshotInv'
    <2>1. /\ UNCHANGED <<docs, run>>
          /\ version' \in [Product -> Version]
          /\ \A q \in Product : version[q] <= version'[q]
      <3>1. \A q \in Product : version'[q] = IF q = p THEN version[q] + 1 ELSE version[q]
        BY <1>2 DEF Grow, TypeOK
      <3>2. \A q \in Product : version[q] \in Nat
        BY SizeAssumption DEF TypeOK
      <3>3. QED
        BY <1>0, <1>2, <3>1, <3>2 DEF Grow, TypeOK
    <2>2. DocsAreHistory'
      BY <2>1, HistoryKept DEF SnapshotInv
    <2>3. \A s \in Run : run[s].todo \subseteq Product /\ run[s].seen \in [Product -> Version]
      BY DEF TypeOK, RunRecord
    <2>4. QED
      BY <2>1, <2>2, <2>3 DEF SnapshotInv, Snapshot, TypeOK
  <1>3. ASSUME NEW s \in Run, RunNext(s)
        PROVE  SnapshotInv'
    <2>1. UNCHANGED version /\ version \in [Product -> Version]
      BY <1>3 DEF RunNext, Tick, GetProducts, GetNoProducts, GetSteps, GetNoSteps, Finish, CastFails,
                  RequestFails, EndRun, Upsert, Insert, TypeOK
    <2>2. run[s].todo \subseteq Product
      BY DEF TypeOK, RunRecord
    <2>3. DocsAreHistory'
      <3>1. CASE UNCHANGED docs
        BY <2>1, <3>1, HistoryKept DEF SnapshotInv
      <3>2. CASE ~ UNCHANGED docs
        BY <1>3, <3>2, HistoryWritten
           DEF RunNext, Tick, GetProducts, GetNoProducts, GetSteps, GetNoSteps, Finish, CastFails,
               RequestFails, EndRun
      <3>3. QED
        BY <3>1, <3>2
    <2>4. Snapshot(s)' /\ \A t \in Run \ {s} : run'[t] = run[t]
      <3>1. CASE Tick(s)
        BY <3>1, MovedBy DEF Moved, Snapshot
      <3>2. CASE GetProducts(s)
        <4>1. Moved(s, "steps", {p \in Product : version[p] > 0}, run[s].seen)
          BY <3>2, MovedBy
        <4>2. run'[s].pc = "steps" /\ \A p \in run'[s].todo : version'[p] > 0
          BY <2>1, <4>1 DEF Moved
        <4>3. QED
          BY <4>1, <4>2 DEF Moved, Snapshot
      <3>3. CASE GetSteps(s)
        <4>1. Moved(s, "loop", run[s].todo, version)
          BY <3>3, MovedBy
        <4>2. \A p \in run[s].todo : version[p] > 0 /\ version[p] \in 1 .. version[p]
          <5>1. \A p \in Product : version[p] \in Nat
            BY SizeAssumption DEF TypeOK
          <5>2. \A p \in run[s].todo : version[p] > 0
            BY <3>3 DEF SnapshotInv, Snapshot, GetSteps
          <5>3. QED
            BY <2>2, <5>1, <5>2
        <4>3. QED
          BY <2>1, <4>1, <4>2 DEF Moved, Snapshot
      <3>7. CASE GetNoProducts(s)
        BY <3>7, MovedBy DEF Moved, Snapshot
      <3>8. CASE GetNoSteps(s)
        <4>1. Moved(s, "loop", run[s].todo, Bare)
          BY <3>8, MovedBy
        <4>2. \A p \in run[s].todo : version[p] > 0 /\ Bare[p] \in 1 .. version[p]
          <5>1. \A p \in run[s].todo : version[p] > 0
            BY <3>8 DEF SnapshotInv, Snapshot, GetNoSteps
          <5>2. QED
            BY <2>2, <5>1, BareBelow
        <4>3. QED
          BY <2>1, <4>1, <4>2 DEF Moved, Snapshot
      <3>4. CASE EndRun(s)
        BY <3>4, MovedBy DEF Moved, Snapshot
      <3>5. ASSUME NEW p \in Product, Upsert(s, p) \/ Insert(s, p)
            PROVE  Snapshot(s)' /\ \A t \in Run \ {s} : run'[t] = run[t]
        <4>1. run[s].pc \in {"loop", "insert"}
          BY <3>5 DEF Upsert, Insert
        <4>2. \E pc \in {"loop", "insert"}, todo \in SUBSET run[s].todo :
                Moved(s, pc, todo, run[s].seen)
          <5>1. run[s].todo \ {p} \in SUBSET run[s].todo
            OBVIOUS
          <5>2. QED
            BY <3>5, <5>1, MovedBy
        <4>3. \A q \in run[s].todo : version[q] > 0 /\ run[s].seen[q] \in 1 .. version[q]
          BY <4>1 DEF SnapshotInv, Snapshot
        <4>4. QED
          BY <2>1, <4>2, <4>3 DEF Moved, Snapshot
      <3>6. QED
        BY <1>3, <3>1, <3>2, <3>3, <3>4, <3>5, <3>7, <3>8
           DEF RunNext, Finish, CastFails, RequestFails
    <2>5. QED
      BY <2>1, <2>3, <2>4 DEF SnapshotInv, Snapshot
  <1>4. CASE UNCHANGED vars
    BY <1>4 DEF vars, SnapshotInv, Snapshot, DocsAreHistory
  <1>5. QED
    BY <1>1, <1>2, <1>3, <1>4 DEF Next

LEMMA SnapshotHolds == Spec => []SnapshotInv
  BY TypeCorrect, SnapshotInit, SnapshotStep, PTL DEF Spec

\* Documents are past or present versions of their product, with any number of
\* overlapping, failing and restarted runs.
THEOREM DocumentsAreHistory == Spec => []DocsAreHistory
  <1>1. SnapshotInv => DocsAreHistory
    BY DEF SnapshotInv
  <1>2. QED
    BY <1>1, SnapshotHolds, PTL

-------------------------------------------------------------------------------
(* Runs that do not overlap. *)

\* An upsert that has matched nothing still finds nothing when it inserts, and what
\* a run will write is not behind what is shown, or is the bare product.
AloneInv ==
  /\ IdIdentifies
  /\ \A s \in Run : run[s].pc = "insert" =>
       \A p \in Product : IsNext(p, s) => docs[Home(p)][p] = <<>>
  /\ \A s \in Run : run[s].pc \in {"loop", "insert"} =>
       \A p \in run[s].todo : Shown(p) <= run[s].seen[p] \/ run[s].seen[p] = 1

LEMMA AloneInit == Init => AloneInv
  BY DEF Init, AloneInv, IdIdentifies, IdleRun

\* What is shown is at most the chain's version.
LEMMA ShownBehind ==
  ASSUME TypeOK, DocsAreHistory, NEW p \in Product
  PROVE  Shown(p) \in Nat /\ Shown(p) <= version[p]
  <1> DEFINE old == docs[Home(p)][p]
  <1>1. old \in Seq(Version) /\ version[p] \in Nat
    BY HomeHub, SizeAssumption DEF TypeOK
  <1>2. \A i \in 1 .. Len(old) : old[i] \in 1 .. version[p]
    BY HomeHub DEF DocsAreHistory
  <1>3. Shown(p) = IF old = <<>> THEN 0 ELSE old[1]
    BY DEF Shown
  <1>4. old # <<>> => 1 \in 1 .. Len(old)
    <2> HIDE DEF old
    <2>1. QED
      BY <1>1, EmptySeq
  <1> HIDE DEF old
  <1>5. QED
    BY <1>1, <1>2, <1>3, <1>4

\* A step that writes leaves its product with one document, which shows what the
\* run has seen; every other product shows what it did.
LEMMA WrittenAlone ==
  ASSUME TypeOK, AloneInv, NEW s \in Run, NEW p \in Product,
         (Upsert(s, p) /\ docs[Home(p)][p] # <<>>) \/ Insert(s, p)
  PROVE  /\ IdIdentifies'
         /\ Shown(p)' = run[s].seen[p]
         /\ \A q \in Product \ {p} : Shown(q)' = Shown(q)
  <1> DEFINE old == docs[Home(p)][p]
             new == docs'[Home(p)][p]
             v   == run[s].seen[p]
  <1>1. old \in Seq(Version) /\ v \in Version /\ Len(old) <= 1
    BY HomeHub DEF TypeOK, RunRecord, AloneInv, IdIdentifies
  <1>2. /\ \A h \in Hub, q \in Product :
             h # Home(p) \/ q # p => docs'[h][q] = docs[h][q]
        /\ \/ old = <<>> /\ new = Append(old, v)
           \/ new = [old EXCEPT ![1] = v] /\ 1 \in 1 .. Len(old)
    BY Written DEF AloneInv, Insert
  <1>3. Len(new) = 1 /\ new # <<>> /\ new[1] = v
    <2> HIDE DEF old, new, v
    <2>1. CASE old = <<>> /\ new = Append(old, v)
      BY <1>1, <2>1
    <2>2. CASE new = [old EXCEPT ![1] = v] /\ 1 \in 1 .. Len(old)
      <3>1. new \in Seq(Version) /\ Len(new) = Len(old) /\ new[1] = v
        BY <1>1, <2>2, ExceptSeq
      <3>2. QED
        BY <1>1, <2>2, <3>1, EmptySeq
    <2>3. QED
      BY <1>2, <2>1, <2>2
  <1>4. IdIdentifies'
    BY <1>2, <1>3 DEF AloneInv, IdIdentifies
  <1>5. Shown(p)' = v
    BY <1>3 DEF Shown, Home
  <1>6. \A q \in Product \ {p} : Shown(q)' = Shown(q)
    BY <1>2, HomeHub DEF Shown, Home
  <1>7. QED
    BY <1>4, <1>5, <1>6

\* With one run in flight no other can insert between its find and its insert, nor
\* write behind it.
LEMMA AloneStep ==
  ASSUME \A s, t \in Run : s = t
  PROVE  TypeOK /\ SnapshotInv /\ AloneInv /\ [Next]_vars => AloneInv'
  <1> SUFFICES ASSUME TypeOK, SnapshotInv, AloneInv, [Next]_vars PROVE AloneInv'
    OBVIOUS
  <1>1. ASSUME UNCHANGED docs
        PROVE  IdIdentifies' /\ \A p \in Product : Shown(p)' = Shown(p)
    BY <1>1 DEF AloneInv, IdIdentifies, Shown, Home
  <1>2. CASE Restart
    <2>1. UNCHANGED docs /\ \A s \in Run : run'[s].pc = "idle"
      BY <1>2 DEF Restart, IdleRun
    <2>2. QED
      BY <1>1, <2>1 DEF AloneInv
  <1>3. ASSUME NEW p \in Product, Grow(p)
        PROVE  AloneInv'
    <2>1. UNCHANGED <<docs, run>>
      BY <1>3 DEF Grow
    <2>2. \A s \in Run : run[s].todo \subseteq Product
      BY DEF TypeOK, RunRecord
    <2>3. QED
      BY <1>1, <2>1, <2>2 DEF AloneInv, IsNext, Home
  <1>4. ASSUME NEW s \in Run, RunNext(s)
        PROVE  AloneInv'
    <2>0. /\ \A t \in Run : t = s
          /\ run[s].todo \subseteq Product
      BY DEF TypeOK, RunRecord
    <2>1. ASSUME IdIdentifies',
                 run'[s].pc = "insert" => \A p \in Product :
                   IsNext(p, s)' => docs'[Home(p)][p] = <<>>,
                 run'[s].pc \in {"loop", "insert"} =>
                   \A p \in run'[s].todo :
                     Shown(p)' <= run'[s].seen[p] \/ run'[s].seen[p] = 1
          PROVE  AloneInv'
      BY <2>0, <2>1 DEF AloneInv, Home, HubOf
    <2>2. CASE Tick(s) \/ GetProducts(s) \/ GetNoProducts(s) \/ EndRun(s)
      <3>1. UNCHANGED docs
        BY <2>2 DEF Tick, GetProducts, GetNoProducts, EndRun
      <3>2. run'[s].pc \in {"products", "steps", "idle"}
        BY <2>2, MovedBy DEF Moved
      <3>3. QED
        BY <1>1, <2>1, <3>1, <3>2
    <2>3. CASE GetSteps(s)
      <3>1. UNCHANGED docs
        BY <2>3 DEF GetSteps
      <3>2. run'[s].pc = "loop" /\ run'[s].todo = run[s].todo /\ run'[s].seen = version
        BY <2>3, MovedBy DEF Moved
      <3>3. \A p \in Product : Shown(p) <= version[p]
        BY ShownBehind DEF SnapshotInv
      <3>4. QED
        BY <1>1, <2>0, <2>1, <3>1, <3>2, <3>3
    <2>9. CASE GetNoSteps(s)
      <3>1. UNCHANGED docs
        BY <2>9 DEF GetNoSteps
      <3>2. run'[s].pc = "loop" /\ run'[s].todo = run[s].todo /\ run'[s].seen = Bare
        BY <2>9, MovedBy DEF Moved
      <3>3. \A p \in run[s].todo : Bare[p] = 1
        <4>1. \A p \in run[s].todo : version[p] > 0
          BY <2>9 DEF SnapshotInv, Snapshot, GetNoSteps
        <4>2. QED
          BY <2>0, <4>1, BareBelow
      <3>4. QED
        BY <1>1, <2>1, <3>1, <3>2, <3>3
    <2>4. ASSUME NEW p \in Product, Upsert(s, p), docs[Home(p)][p] = <<>>
          PROVE  AloneInv'
      <3>1. UNCHANGED docs /\ run[s].pc = "loop" /\ IsNext(p, s)
        BY <2>4 DEF Upsert
      <3>2. run'[s].pc = "insert" /\ run'[s].todo = run[s].todo /\ run'[s].seen = run[s].seen
        BY <2>4, MovedBy DEF Moved
      <3>3. \A q \in Product : IsNext(q, s)' => q = p
        BY <3>1, <3>2 DEF IsNext
      <3>4. \A q \in run'[s].todo :
              Shown(q)' <= run'[s].seen[q] \/ run'[s].seen[q] = 1
        BY <1>1, <2>0, <3>1, <3>2 DEF AloneInv
      <3>5. QED
        BY <1>1, <2>1, <2>4, <3>1, <3>2, <3>3, <3>4
    <2>5. ASSUME NEW p \in Product,
                 (Upsert(s, p) /\ docs[Home(p)][p] # <<>>) \/ Insert(s, p)
          PROVE  AloneInv'
      <3>1. run[s].pc \in {"loop", "insert"}
        BY <2>5 DEF Upsert, Insert
      <3>2. run'[s].pc = "loop" /\ run'[s].todo = run[s].todo \ {p}
            /\ run'[s].seen = run[s].seen
        BY <2>5, MovedBy DEF Moved
      <3>3. IdIdentifies' /\ \A q \in Product \ {p} : Shown(q)' = Shown(q)
        BY <2>5, WrittenAlone
      <3>4. \A q \in run'[s].todo :
              Shown(q)' <= run'[s].seen[q] \/ run'[s].seen[q] = 1
        BY <2>0, <3>1, <3>2, <3>3 DEF AloneInv
      <3>5. QED
        BY <2>1, <3>2, <3>3, <3>4
    <2>6. ASSUME NEW p \in Product, Upsert(s, p) \/ Insert(s, p)
          PROVE  AloneInv'
      BY <2>4, <2>5, <2>6
    <2>7. \/ Tick(s) \/ GetProducts(s) \/ GetNoProducts(s) \/ EndRun(s)
          \/ GetSteps(s) \/ GetNoSteps(s)
          \/ \E p \in Product : Upsert(s, p) \/ Insert(s, p)
      BY <1>4 DEF RunNext, Finish, CastFails, RequestFails
    <2>8. QED
      BY <2>2, <2>3, <2>6, <2>7, <2>9
  <1>5. CASE UNCHANGED vars
    <2>1. UNCHANGED <<docs, run>>
      BY <1>5 DEF vars
    <2>2. \A s \in Run : run[s].todo \subseteq Product
      BY DEF TypeOK, RunRecord
    <2>3. QED
      BY <1>1, <2>1, <2>2 DEF AloneInv, IsNext, Home
  <1>6. QED
    BY <1>2, <1>3, <1>4, <1>5 DEF Next

LEMMA AloneHolds ==
  ASSUME \A s, t \in Run : s = t
  PROVE  Spec => []AloneInv
  <1>1. TypeOK /\ SnapshotInv /\ AloneInv /\ [Next]_vars => AloneInv'
    BY AloneStep
  <1>2. QED
    BY <1>1, AloneInit, TypeCorrect, SnapshotHolds, PTL DEF Spec

\* As long as runs do not overlap, failures and restarts included, an id has one
\* document.
THEOREM OneDocumentPerId ==
  ASSUME \A s, t \in Run : s = t
  PROVE  Spec => []IdIdentifies
  <1>1. AloneInv => IdIdentifies
    BY DEF AloneInv
  <1>2. QED
    BY <1>1, AloneHolds, PTL

\* Runs that do not overlap implement the replica.
LEMMA ReplicaInit == Init => Replica!Init
  BY HomeHub DEF Init, Replica!Init, Shown, Home

LEMMA ReplicaStep ==
  ASSUME \A s, t \in Run : s = t
  PROVE  TypeOK /\ SnapshotInv /\ AloneInv /\ [Next]_vars
           => [Replica!Next]_(Replica!vars)
  <1> DEFINE shown == [p \in Product |-> Shown(p)]
  <1> SUFFICES ASSUME TypeOK, SnapshotInv, AloneInv, [Next]_vars
               PROVE  Replica!Next \/ UNCHANGED <<version, shown>>
    BY DEF Replica!vars
  <1>1. UNCHANGED docs => UNCHANGED shown
    BY DEF Shown, Home
  <1>2. ASSUME NEW p \in Product, Grow(p)
        PROVE  Replica!Next
    BY <1>1, <1>2 DEF Grow, Replica!Next, Replica!Grow
  <1>3. ASSUME NEW s \in Run, NEW p \in Product,
               (Upsert(s, p) /\ docs[Home(p)][p] # <<>>) \/ Insert(s, p)
        PROVE  Replica!Next \/ UNCHANGED <<version, shown>>
    <2> DEFINE v == run[s].seen[p]
    <2>1. /\ p \in run[s].todo /\ run[s].pc \in {"loop", "insert"}
          /\ UNCHANGED version
      BY <1>3 DEF Upsert, Insert, IsNext
    <2>2. v \in 1 .. version[p] /\ (Shown(p) <= v \/ v = 1)
      BY <2>1 DEF SnapshotInv, Snapshot, AloneInv
    <2>3. Shown(p) \in Nat
      BY ShownBehind DEF SnapshotInv
    <2>4. Shown(p)' = v /\ \A q \in Product \ {p} : Shown(q)' = Shown(q)
      BY <1>3, WrittenAlone
    <2>5. shown' = [shown EXCEPT ![p] = v]
      BY <2>4
    <2> HIDE DEF v
    <2>6. CASE Shown(p) = v
      BY <2>1, <2>5, <2>6
    <2>9. CASE Shown(p) > v
      <3>1. v = 1 /\ shown[p] > 0
        BY <2>2, <2>3, <2>9
      <3>2. QED
        BY <2>1, <2>5, <3>1 DEF Replica!Next, Replica!Forget
    <2>7. CASE Shown(p) # v /\ Shown(p) <= v
      <3>1. v \in (shown[p] + 1) .. version[p]
        <4>1. version[p] \in Nat
          BY SizeAssumption DEF TypeOK
        <4>2. QED
          BY <2>2, <2>3, <2>7, <4>1
      <3>2. QED
        BY <2>1, <2>5, <3>1 DEF Replica!Next, Replica!CatchUp
    <2>8. QED
      BY <2>2, <2>3, <2>6, <2>7, <2>9
  <1>4. ASSUME UNCHANGED <<version, docs>>
        PROVE  UNCHANGED <<version, shown>>
    BY <1>1, <1>4
  <1>5. ASSUME NEW s \in Run, RunNext(s)
        PROVE  Replica!Next \/ UNCHANGED <<version, shown>>
    <2>1. \/ UNCHANGED <<version, docs>>
          \/ \E p \in Product : (Upsert(s, p) /\ docs[Home(p)][p] # <<>>) \/ Insert(s, p)
      BY <1>5 DEF RunNext, Tick, GetProducts, GetNoProducts, GetSteps, GetNoSteps, Finish, CastFails,
                  RequestFails, EndRun, Upsert
    <2>2. QED
      BY <1>3, <1>4, <2>1
  <1>6. QED
    BY <1>2, <1>4, <1>5 DEF Next, Restart, vars

\* For any number of products and versions, a relayer whose runs do not overlap
\* makes the backend a replica of the chain that never runs ahead, and moves forward
\* or back to a bare product.
THEOREM ImplementsReplica ==
  ASSUME \A s, t \in Run : s = t
  PROVE  Spec => ReplicaSpec
  <1>1. TypeOK /\ SnapshotInv /\ AloneInv /\ [Next]_vars
          => [Replica!Next]_(Replica!vars)
    BY ReplicaStep
  <1>2. QED
    BY <1>1, ReplicaInit, TypeCorrect, SnapshotHolds, AloneHolds, PTL
       DEF Spec, ReplicaSpec, Replica!Spec

-------------------------------------------------------------------------------
(* Runs that overlap. *)

\* The runs that have found no document of p and are about to insert one.
Inserting(p) == {s \in Run : run[s].pc = "insert" /\ IsNext(p, s)}

\* Whoever finds nothing while there is nothing can insert once: the documents there
\* are and those about to be inserted are no more than the runs.
BoundInv ==
  /\ \A h \in Hub, p \in Product : h # Home(p) => docs[h][p] = <<>>
  /\ \A p \in Product :
       Len(docs[Home(p)][p]) + Cardinality(Inserting(p)) <= Cardinality(Run)

LEMMA BoundInit == IsFiniteSet(Run) /\ Init => BoundInv
  <1> SUFFICES ASSUME IsFiniteSet(Run), Init PROVE BoundInv
    OBVIOUS
  <1>1. \A h \in Hub, p \in Product : docs[h][p] = <<>>
    BY DEF Init
  <1>2. \A p \in Product : Inserting(p) = {}
    BY DEF Init, IdleRun, Inserting
  <1>3. Cardinality({}) = 0 /\ Cardinality(Run) \in Nat
    BY FS_EmptySet, FS_CardinalityType
  <1>4. ASSUME NEW p \in Product
        PROVE  Len(docs[Home(p)][p]) + Cardinality(Inserting(p)) <= Cardinality(Run)
    <2>1. Cardinality(Inserting(p)) = 0
      BY <1>2, <1>3
    <2>2. docs[Home(p)][p] = <<>>
      BY <1>1, HomeHub
    <2>3. Len(docs[Home(p)][p]) = 0
      BY <2>2
    <2>4. QED
      BY <1>3, <2>1, <2>3
  <1>5. QED
    BY <1>1, <1>4 DEF BoundInv

LEMMA InsertingFinite ==
  ASSUME IsFiniteSet(Run), NEW S \in SUBSET Run
  PROVE  Cardinality(S) \in Nat /\ Cardinality(Run) \in Nat
         /\ Cardinality(S) <= Cardinality(Run)
  BY FS_Subset, FS_CardinalityType

\* Where no run is added and no document either, the bound stays.
LEMMA BoundKept ==
  ASSUME TypeOK, BoundInv, IsFiniteSet(Run), NEW p \in Product,
         Inserting(p)' \subseteq Inserting(p),
         docs'[Home(p)][p] = docs[Home(p)][p]
            \/ Len(docs'[Home(p)][p]) = Len(docs[Home(p)][p])
  PROVE  Len(docs'[Home(p)][p]) + Cardinality(Inserting(p)') <= Cardinality(Run)
  <1>1. Inserting(p) \subseteq Run
    BY DEF Inserting
  <1>2. /\ Cardinality(Inserting(p)) \in Nat /\ Cardinality(Inserting(p)') \in Nat
        /\ Cardinality(Inserting(p)') <= Cardinality(Inserting(p))
    BY <1>1, FS_Subset, FS_CardinalityType
  <1>3. Cardinality(Run) \in Nat
    BY FS_CardinalityType
  <1>4. docs[Home(p)][p] \in Seq(Version)
    BY HomeHub DEF TypeOK
  <1>5. Len(docs[Home(p)][p]) \in Nat
    BY <1>4, LenProperties
  <1>6. Len(docs'[Home(p)][p]) = Len(docs[Home(p)][p])
    OBVIOUS
  <1>7. Len(docs[Home(p)][p]) + Cardinality(Inserting(p)) <= Cardinality(Run)
    BY DEF BoundInv
  <1>8. QED
    BY <1>2, <1>3, <1>5, <1>6, <1>7

\* A run that moves to any place but the insert leaves the others where they are.
LEMMA InsertingMoved ==
  ASSUME NEW s \in Run, \A t \in Run \ {s} : run'[t] = run[t], NEW p \in Product
  PROVE  /\ run'[s].pc # "insert" => Inserting(p)' = Inserting(p) \ {s}
         /\ Inserting(p)' \subseteq Inserting(p) \cup {s}
  BY DEF Inserting, IsNext

LEMMA BoundStep ==
  ASSUME IsFiniteSet(Run)
  PROVE  TypeOK /\ BoundInv /\ [Next]_vars => BoundInv'
  <1> SUFFICES ASSUME TypeOK, BoundInv, [Next]_vars PROVE BoundInv'
    OBVIOUS
  <1> USE HomeHub
  <1>1. ASSUME UNCHANGED docs, \A p \in Product : Inserting(p)' \subseteq Inserting(p)
        PROVE  BoundInv'
    <2>1. \A p \in Product :
            Len(docs'[Home(p)][p]) + Cardinality(Inserting(p)') <= Cardinality(Run)
      BY <1>1, BoundKept
    <2>2. QED
      BY <1>1, <2>1 DEF BoundInv, Home
  <1>2. CASE Restart
    <2>1. UNCHANGED docs /\ \A p \in Product : Inserting(p)' = {}
      BY <1>2 DEF Restart, IdleRun, Inserting
    <2>2. QED
      BY <1>1, <2>1
  <1>3. ASSUME NEW p \in Product, Grow(p)
        PROVE  BoundInv'
    <2>1. UNCHANGED <<docs, run>>
      BY <1>3 DEF Grow
    <2>2. QED
      BY <1>1, <2>1 DEF Inserting, IsNext
  <1>4. CASE UNCHANGED vars
    <2>1. UNCHANGED <<docs, run>>
      BY <1>4 DEF vars
    <2>2. QED
      BY <1>1, <2>1 DEF Inserting, IsNext
  <1>5. ASSUME NEW s \in Run,
               \/ Tick(s) \/ GetProducts(s) \/ GetNoProducts(s)
               \/ GetSteps(s) \/ GetNoSteps(s) \/ EndRun(s)
        PROVE  BoundInv'
    <2>1. UNCHANGED docs
      BY <1>5 DEF Tick, GetProducts, GetNoProducts, GetSteps, GetNoSteps, EndRun
    <2>2. \A p \in Product : Inserting(p)' = Inserting(p) \ {s}
      <3>1. /\ run'[s].pc # "insert"
            /\ \A t \in Run \ {s} : run'[t] = run[t]
        BY <1>5, MovedBy DEF Moved
      <3>2. QED
        BY <3>1, InsertingMoved
    <2>3. QED
      BY <1>1, <2>1, <2>2
  <1>6. ASSUME NEW s \in Run, NEW p \in Product, Upsert(s, p), docs[Home(p)][p] = <<>>
        PROVE  BoundInv'
    <2>1. UNCHANGED docs /\ IsNext(p, s)
      BY <1>6 DEF Upsert
    <2>2. Moved(s, "insert", run[s].todo, run[s].seen)
      BY <1>6, MovedBy
    <2>3. ASSUME NEW q \in Product, q # p
          PROVE  Inserting(q)' \subseteq Inserting(q)
      <3>1. Inserting(q)' \subseteq Inserting(q) \cup {s}
        BY <2>2, InsertingMoved DEF Moved
      <3>2. ~ IsNext(q, s)'
        BY <2>1, <2>2, <2>3 DEF Moved, IsNext
      <3>3. QED
        BY <3>1, <3>2 DEF Inserting
    <2>4. \A q \in Product \ {p} :
            Len(docs'[Home(q)][q]) + Cardinality(Inserting(q)') <= Cardinality(Run)
      BY <2>1, <2>3, BoundKept
    <2>5. Len(docs'[Home(p)][p]) + Cardinality(Inserting(p)') <= Cardinality(Run)
      <3>1. Len(docs'[Home(p)][p]) = 0
        BY <1>6, <2>1
      <3>2. Inserting(p)' \subseteq Run
        BY DEF Inserting
      <3>3. /\ Cardinality(Inserting(p)') \in Nat /\ Cardinality(Run) \in Nat
            /\ Cardinality(Inserting(p)') <= Cardinality(Run)
        BY <3>2, InsertingFinite
      <3>4. QED
        BY <3>1, <3>3
    <2>6. QED
      BY <2>1, <2>4, <2>5 DEF BoundInv, Home
  <1>7. ASSUME NEW s \in Run, NEW p \in Product, Upsert(s, p), docs[Home(p)][p] # <<>>
        PROVE  BoundInv'
    <2>1. \A q \in Product : Inserting(q)' = Inserting(q) \ {s}
      <3>1. /\ run'[s].pc # "insert"
            /\ \A t \in Run \ {s} : run'[t] = run[t]
        BY <1>7, MovedBy DEF Moved
      <3>2. QED
        BY <3>1, InsertingMoved
    <2>2. /\ \A h \in Hub, q \in Product :
               h # Home(p) \/ q # p => docs'[h][q] = docs[h][q]
          /\ docs'[Home(p)][p] = [docs[Home(p)][p] EXCEPT ![1] = run[s].seen[p]]
      BY <1>7, Written
    <2>3. Len(docs'[Home(p)][p]) = Len(docs[Home(p)][p])
      <3> DEFINE old == docs[Home(p)][p]
                 v   == run[s].seen[p]
      <3>0. docs[Home(p)] \in [Product -> Seq(Version)] /\ run[s] \in RunRecord
        BY DEF TypeOK
      <3>1. old \in Seq(Version) /\ v \in Version /\ 1 \in 1 .. Len(old)
        BY <1>7, <3>0, Written DEF RunRecord
      <3> HIDE DEF old, v
      <3>2. Len([old EXCEPT ![1] = v]) = Len(old)
        BY <3>1, ExceptSeq
      <3>3. QED
        BY <2>2, <3>2 DEF old, v
    <2>4. \A q \in Product :
            Len(docs'[Home(q)][q]) + Cardinality(Inserting(q)') <= Cardinality(Run)
      <3>1. ASSUME NEW q \in Product
            PROVE  docs'[Home(q)][q] = docs[Home(q)][q]
                     \/ Len(docs'[Home(q)][q]) = Len(docs[Home(q)][q])
        BY <2>2, <2>3
      <3>2. QED
        BY <2>1, <3>1, BoundKept
    <2>5. QED
      BY <2>2, <2>4 DEF BoundInv, Home
  <1>8. ASSUME NEW s \in Run, NEW p \in Product, Insert(s, p)
        PROVE  BoundInv'
    <2>1. \A q \in Product : Inserting(q)' = Inserting(q) \ {s}
      <3>1. /\ run'[s].pc # "insert"
            /\ \A t \in Run \ {s} : run'[t] = run[t]
        BY <1>8, MovedBy DEF Moved
      <3>2. QED
        BY <3>1, InsertingMoved
    <2>2. /\ \A h \in Hub, q \in Product :
               h # Home(p) \/ q # p => docs'[h][q] = docs[h][q]
          /\ docs'[Home(p)][p] = Append(docs[Home(p)][p], run[s].seen[p])
      BY <1>8, Written
    <2>3. \A q \in Product \ {p} :
            Len(docs'[Home(q)][q]) + Cardinality(Inserting(q)') <= Cardinality(Run)
      BY <2>1, <2>2, BoundKept
    <2>4. Len(docs'[Home(p)][p]) + Cardinality(Inserting(p)') <= Cardinality(Run)
      <3>1. docs[Home(p)][p] \in Seq(Version)
        BY DEF TypeOK
      <3>2. Len(docs'[Home(p)][p]) = Len(docs[Home(p)][p]) + 1
            /\ Len(docs[Home(p)][p]) \in Nat
        BY <2>2, <3>1, AppendProperties, LenProperties DEF TypeOK, RunRecord
      <3>3. s \in Inserting(p) /\ IsFiniteSet(Inserting(p))
        BY <1>8, FS_Subset DEF Inserting, Insert
      <3>4. Cardinality(Inserting(p)') = Cardinality(Inserting(p)) - 1
            /\ Cardinality(Inserting(p)) \in Nat /\ Cardinality(Run) \in Nat
        BY <2>1, <3>3, FS_RemoveElement, FS_CardinalityType
      <3>5. Len(docs[Home(p)][p]) + Cardinality(Inserting(p)) <= Cardinality(Run)
        BY DEF BoundInv
      <3>6. QED
        BY <3>2, <3>4, <3>5
    <2>5. QED
      BY <2>2, <2>3, <2>4 DEF BoundInv, Home
  <1>9. ASSUME NEW s \in Run, RunNext(s)
        PROVE  BoundInv'
    BY <1>5, <1>6, <1>7, <1>8, <1>9 DEF RunNext, Finish, CastFails, RequestFails
  <1>10. QED
    BY <1>2, <1>3, <1>4, <1>9 DEF Next

\* However runs overlap, fail and are restarted, an id has at most one document for
\* each run that can be in flight at once.
THEOREM BoundedDuplicates ==
  ASSUME IsFiniteSet(Run)
  PROVE  Spec => []DuplicatesBounded
  <1>1. TypeOK /\ BoundInv => DuplicatesBounded
    <2> SUFFICES ASSUME TypeOK, BoundInv, NEW h \in Hub, NEW p \in Product
                 PROVE  Len(docs[h][p]) <= Cardinality(Run)
      BY DEF DuplicatesBounded
    <2>1. Inserting(p) \subseteq Run
      BY DEF Inserting
    <2>2. Cardinality(Inserting(p)) \in Nat /\ Cardinality(Run) \in Nat
      BY <2>1, InsertingFinite
    <2>3. CASE h = Home(p)
      <3>1. Len(docs[h][p]) \in Nat
        BY LenProperties DEF TypeOK
      <3>2. QED
        BY <2>2, <2>3, <3>1 DEF BoundInv
    <2>4. CASE h # Home(p)
      <3>1. Len(docs[h][p]) = 0
        BY <2>4 DEF BoundInv
      <3>2. QED
        BY <2>2, <3>1
    <2>5. QED
      BY <2>3, <2>4
  <1>2. Init => BoundInv
    BY BoundInit
  <1>3. TypeOK /\ BoundInv /\ [Next]_vars => BoundInv'
    BY BoundStep
  <1>4. QED
    BY <1>1, <1>2, <1>3, TypeCorrect, PTL DEF Spec

\* A write of a run changes what is shown of its product alone: to the version that
\* the run has seen, or, where the insert adds a duplicate, not at all.
LEMMA WrittenShown ==
  ASSUME TypeOK, NEW s \in Run, NEW p \in Product,
         (Upsert(s, p) /\ docs[Home(p)][p] # <<>>) \/ Insert(s, p)
  PROVE  /\ \/ Shown(p)' = run[s].seen[p]
            \/ docs[Home(p)][p] # <<>> /\ Shown(p)' = Shown(p)
         /\ \A q \in Product \ {p} : Shown(q)' = Shown(q)
  <1> DEFINE old == docs[Home(p)][p]
             new == docs'[Home(p)][p]
             v   == run[s].seen[p]
  <1>1. old \in Seq(Version) /\ v \in Version
    BY HomeHub DEF TypeOK, RunRecord
  <1>2. /\ \A h \in Hub, q \in Product :
             h # Home(p) \/ q # p => docs'[h][q] = docs[h][q]
        /\ \/ new = Append(old, v)
           \/ new = [old EXCEPT ![1] = v] /\ 1 \in 1 .. Len(old)
    BY Written
  <1>3. new # <<>> /\ (new[1] = v \/ (old # <<>> /\ new[1] = old[1]))
    <2> HIDE DEF old, new, v
    <2>1. CASE new = Append(old, v) /\ old = <<>>
      BY <1>1, <2>1
    <2>2. CASE new = Append(old, v) /\ old # <<>>
      <3>1. 1 \in 1 .. Len(old)
        BY <1>1, <2>2, EmptySeq
      <3>2. QED
        BY <1>1, <2>2, <3>1, AppendProperties
    <2>3. CASE new = [old EXCEPT ![1] = v] /\ 1 \in 1 .. Len(old)
      <3>1. new \in Seq(Version) /\ Len(new) = Len(old) /\ new[1] = v
        BY <1>1, <2>3, ExceptSeq
      <3>2. QED
        BY <1>1, <2>3, <3>1, EmptySeq
    <2>4. QED
      BY <1>2, <2>1, <2>2, <2>3
  <1>4. Shown(p)' = v \/ (old # <<>> /\ Shown(p)' = Shown(p))
    BY <1>3 DEF Shown, Home
  <1>5. \A q \in Product \ {p} : Shown(q)' = Shown(q)
    BY <1>2, HomeHub DEF Shown, Home
  <1>6. QED
    BY <1>4, <1>5

\* Every step of a run writes one document or none, and none changes the chain.
LEMMA RunWrites ==
  ASSUME NEW s \in Run, RunNext(s)
  PROVE  /\ UNCHANGED version
         /\ \/ UNCHANGED docs
            \/ \E p \in Product :
                 (Upsert(s, p) /\ docs[Home(p)][p] # <<>>) \/ Insert(s, p)
  BY DEF RunNext, Tick, GetProducts, GetNoProducts, GetSteps, GetNoSteps, Finish, CastFails, RequestFails,
         EndRun, Upsert, Insert

LEMMA OverlapStep ==
  TypeOK /\ SnapshotInv /\ [Next]_vars => [Replica!OverlapNext]_(Replica!vars)
  <1> DEFINE shown == [p \in Product |-> Shown(p)]
  <1> SUFFICES ASSUME TypeOK, SnapshotInv, [Next]_vars
               PROVE  Replica!OverlapNext \/ UNCHANGED <<version, shown>>
    BY DEF Replica!vars
  <1>1. UNCHANGED docs => UNCHANGED shown
    BY DEF Shown, Home
  <1>2. ASSUME NEW p \in Product, Grow(p)
        PROVE  Replica!OverlapNext
    BY <1>1, <1>2 DEF Grow, Replica!OverlapNext, Replica!Grow
  <1>3. ASSUME NEW s \in Run, NEW p \in Product,
               (Upsert(s, p) /\ docs[Home(p)][p] # <<>>) \/ Insert(s, p)
        PROVE  Replica!OverlapNext \/ UNCHANGED <<version, shown>>
    <2> DEFINE v == run[s].seen[p]
    <2>1. /\ p \in run[s].todo /\ run[s].pc \in {"loop", "insert"}
          /\ UNCHANGED version
      BY <1>3 DEF Upsert, Insert, IsNext
    <2>2. v \in 1 .. version[p]
      BY <2>1 DEF SnapshotInv, Snapshot
    <2>3. /\ Shown(p)' = v \/ Shown(p)' = Shown(p)
          /\ \A q \in Product \ {p} : Shown(q)' = Shown(q)
      BY <1>3, WrittenShown
    <2>4. CASE Shown(p)' = v
      <3>1. shown' = [shown EXCEPT ![p] = v]
        BY <2>3, <2>4
      <3> HIDE DEF v
      <3>2. QED
        BY <2>1, <2>2, <3>1 DEF Replica!OverlapNext, Replica!Overtake
    <2>5. CASE Shown(p)' = Shown(p)
      BY <2>1, <2>3, <2>5
    <2>6. QED
      BY <2>3, <2>4, <2>5
  <1>4. ASSUME UNCHANGED <<version, docs>>
        PROVE  UNCHANGED <<version, shown>>
    BY <1>1, <1>4
  <1>5. QED
    BY <1>2, <1>3, <1>4, RunWrites DEF Next, Restart, vars

\* For any number of products, versions and runs, overlapping ones included, the
\* backend shows versions of the chain and nothing once shown disappears.
THEOREM OverlapImplementsReplica == Spec => OverlapReplicaSpec
  BY OverlapStep, ReplicaInit, TypeCorrect, SnapshotHolds, PTL
     DEF Spec, OverlapReplicaSpec, Replica!OverlapSpec

===============================================================================

----------------------- MODULE TruyXuatNguonGoc_proofs -----------------------
(***************************************************************************)
(* Theorems about the hub contract, for every set of wallets and every     *)
(* bound: its types, the invariants of its products and their histories,   *)
(* and that it implements the provenance ledger.                           *)
(***************************************************************************)
EXTENDS TruyXuatNguonGoc, Integers, TLAPS

\* Minting fills the label fields of a slot and leaves its history alone.
LEMMA MintedFields ==
  ASSUME NEW p \in Product, NEW id \in ProductId, NEW card \in Card,
         NEW sender \in Wallet, now \in Time
  PROVE  /\ Minted(p, id, card, sender) \in Product
         /\ Minted(p, id, card, sender).id = id
         /\ Minted(p, id, card, sender).activationDate = now
         /\ Minted(p, id, card, sender).currentOwner = sender
         /\ Minted(p, id, card, sender).region = HubRegion
         /\ Minted(p, id, card, sender).history = p.history
  BY RegionAssumption DEF Minted, Product

\* Pushing a step adds it at the end of the history.
LEMMA PushedHistory ==
  ASSUME NEW p \in Product, NEW kind \in {"init", "log"},
         NEW w \in Wallet, now \in Time
  PROVE  /\ WithStep(p, kind, w).history \in Seq(Step)
         /\ Len(WithStep(p, kind, w).history) = Len(p.history) + 1
         /\ \A i \in 1 .. Len(p.history) :
              WithStep(p, kind, w).history[i] = p.history[i]
         /\ WithStep(p, kind, w).history[Len(p.history) + 1] =
              [kind |-> kind, timestamp |-> now, actor |-> w]
  <1> DEFINE e == [kind |-> kind, timestamp |-> now, actor |-> w]
  <1>1. e \in Step /\ p.history \in Seq(Step)
    BY DEF Step, Product
  <1>2. WithStep(p, kind, w).history = Append(p.history, e)
    BY DEF WithStep, Product
  <1>3. /\ Append(p.history, e) \in Seq(Step)
        /\ Len(Append(p.history, e)) = Len(p.history) + 1
        /\ \A i \in 1 .. Len(p.history) : Append(p.history, e)[i] = p.history[i]
        /\ Append(p.history, e)[Len(p.history) + 1] = e
    BY <1>1
  <1> HIDE DEF e
  <1>4. QED
    BY <1>2, <1>3 DEF e

\* Pushing a step leaves the label fields of a slot alone.
LEMMA PushedLabel ==
  ASSUME NEW p \in Product, NEW kind \in {"init", "log"},
         NEW w \in Wallet, now \in Time
  PROVE  /\ WithStep(p, kind, w) \in Product
         /\ WithStep(p, kind, w).id = p.id
         /\ WithStep(p, kind, w).activationDate = p.activationDate
         /\ WithStep(p, kind, w).currentOwner = p.currentOwner
         /\ WithStep(p, kind, w).region = p.region
         /\ [WithStep(p, kind, w) EXCEPT !.history = << >>]
              = [p EXCEPT !.history = << >>]
  <1>1. WithStep(p, kind, w).history \in Seq(Step)
    BY PushedHistory
  <1>2. WithStep(p, kind, w) \in Product
    BY <1>1 DEF WithStep, Product
  <1>3. /\ WithStep(p, kind, w).id = p.id
        /\ WithStep(p, kind, w).activationDate = p.activationDate
        /\ WithStep(p, kind, w).currentOwner = p.currentOwner
        /\ WithStep(p, kind, w).region = p.region
        /\ [WithStep(p, kind, w) EXCEPT !.history = << >>]
             = [p EXCEPT !.history = << >>]
    BY DEF WithStep, Product
  <1>4. QED
    BY <1>2, <1>3

\* The steps of a history are typed.
LEMMA HistoryTyped ==
  ASSUME NEW p \in Product
  PROVE  /\ Len(p.history) \in Nat
         /\ \A i \in 1 .. Len(p.history) :
              /\ p.history[i] \in Step
              /\ p.history[i].timestamp \in Nat
  <1>1. p.history \in Seq(Step)
    BY DEF Product
  <1>2. \A i \in 1 .. Len(p.history) : p.history[i] \in Step
    BY <1>1
  <1>3. \A e \in Step : e.timestamp \in Nat
    BY BoundAssumption DEF Step, Time
  <1>4. QED
    BY <1>1, <1>2, <1>3

-------------------------------------------------------------------------------
(* Types. *)

LEMMA BlankTypes == BlankProduct \in Product /\ BlankManufacturer \in Manufacturer
  <1>1. << >> \in Seq(Step)
    OBVIOUS
  <1>2. 0 \in ProductId /\ 0 \in Time
    BY BoundAssumption DEF ProductId, Time
  <1>3. QED
    BY <1>1, <1>2, BlankAssumption, RegionAssumption
    DEF BlankProduct, BlankManufacturer, Product, Manufacturer

LEMMA TypeInit == Init => TypeOK
  <1> SUFFICES ASSUME Init PROVE TypeOK
    OBVIOUS
  <1>1. products \in [ProductId -> Product] /\ manufacturers \in [Wallet -> Manufacturer]
    BY BlankTypes DEF Init
  <1>2. productCount \in ProductId
    BY BoundAssumption DEF Init, ProductId
  <1>3. QED
    BY <1>1, <1>2 DEF Init, TypeOK

LEMMA TypeStep == TypeOK /\ [Next]_vars => TypeOK'
  <1> SUFFICES ASSUME TypeOK, [Next]_vars PROVE TypeOK'
    OBVIOUS
  <1> USE DEF TypeOK
  <1>0. now \in Time
    BY BoundAssumption DEF Time
  <1>1. ASSUME NEW w \in Wallet, NEW profile \in Profile,
               RegisterManufacturer(w, profile)
        PROVE  TypeOK'
    BY <1>1 DEF RegisterManufacturer, Manufacturer
  <1>2. ASSUME NEW w \in Wallet, NEW card \in Card, MintFromOffchain(w, card)
        PROVE  TypeOK'
    <2>1. productCount + 1 \in ProductId
      BY <1>2, BoundAssumption DEF MintFromOffchain, ProductId
    <2>2. Minted(products[productCount + 1], productCount + 1, card, w) \in Product
      BY <1>0, <2>1, MintedFields
    <2>3. products' \in [ProductId -> Product]
      BY <1>2, <2>1, <2>2 DEF MintFromOffchain
    <2>4. QED
      BY <1>2, <2>1, <2>3 DEF MintFromOffchain
  <1>3. ASSUME NEW w \in Wallet, NEW n \in 0 .. MaxBatch,
               NEW names \in 0 .. MaxBatch, NEW rest \in 0 .. MaxBatch,
               NEW cards \in BatchOf(n), BatchMintWithLogs(w, cards, names, rest)
        PROVE  TypeOK'
    <2>1. cards \in Seq(Card) /\ Len(cards) = n /\ n \in Nat
      BY BoundAssumption DEF BatchOf
    <2>2. productCount + n \in ProductId
      BY <1>3, <2>1, BoundAssumption DEF BatchMintWithLogs, ProductId
    <2>3. ASSUME NEW id \in ProductId, id \in productCount + 1 .. productCount + n
          PROVE  WithStep(Minted(products[id], id, cards[id - productCount], w),
                          "init", w) \in Product
      <3>1. cards[id - productCount] \in Card
        BY <2>1, <2>3 DEF ProductId
      <3>2. Minted(products[id], id, cards[id - productCount], w) \in Product
        BY <1>0, <3>1, MintedFields
      <3>3. QED
        BY <1>0, <3>2, PushedLabel
    <2>4. products' \in [ProductId -> Product]
      BY <1>3, <2>1, <2>3 DEF BatchMintWithLogs
    <2>5. QED
      BY <1>3, <2>1, <2>2, <2>4 DEF BatchMintWithLogs
  <1>4. ASSUME NEW w \in Wallet, NEW id \in ProductId, AddProductionLog(w, id)
        PROVE  TypeOK'
    <2>1. WithStep(products[id], "log", w) \in Product
      BY <1>0, PushedLabel
    <2>2. products' \in [ProductId -> Product]
      BY <1>4, <2>1 DEF AddProductionLog
    <2>3. QED
      BY <1>4, <2>2 DEF AddProductionLog
  <1>5. ASSUME NEW w \in Wallet, NEW w2 \in Wallet, TransferOwnership(w, w2)
        PROVE  TypeOK'
    BY <1>5 DEF TransferOwnership
  <1>6. ASSUME NEW w \in Wallet, RenounceOwnership(w)
        PROVE  TypeOK'
    BY <1>6 DEF RenounceOwnership
  <1>7. CASE NextBlock
    BY <1>7, BoundAssumption DEF NextBlock, Time
  <1>8. CASE UNCHANGED vars
    BY <1>8 DEF vars
  <1>9. QED
    BY <1>1, <1>2, <1>3, <1>4, <1>5, <1>6, <1>7, <1>8 DEF Next

\* Every variable of the contract always holds a value of its type.
THEOREM TypeCorrect == Spec => []TypeOK
  BY TypeInit, TypeStep, PTL DEF Spec

-------------------------------------------------------------------------------
(* What each action does to the products. *)

LEMMA ClockTyped == TypeOK => now \in Time /\ now >= 1 /\ productCount \in Nat
  BY BoundAssumption DEF TypeOK, Time, ProductId

\* A successful batch fills the n slots after productCount and no other.
LEMMA BatchSlots ==
  ASSUME TypeOK, NEW w \in Wallet, NEW n \in 0 .. MaxBatch,
         NEW names, NEW rest, NEW cards \in BatchOf(n),
         BatchMintWithLogs(w, cards, names, rest)
  PROVE  /\ n \in Nat /\ productCount' = productCount + n
         /\ productCount + n \in ProductId
         /\ \A id \in ProductId :
              IF id \in productCount + 1 .. productCount + n
              THEN \E card \in Card :
                     /\ Minted(products[id], id, card, w) \in Product
                     /\ products'[id] =
                          WithStep(Minted(products[id], id, card, w), "init", w)
              ELSE products'[id] = products[id]
  <1>1. cards \in Seq(Card) /\ Len(cards) = n /\ n \in Nat
    BY BoundAssumption DEF BatchOf
  <1>2. productCount' = productCount + n /\ productCount + n \in ProductId
    BY <1>1, BoundAssumption DEF BatchMintWithLogs, ProductId, TypeOK
  <1>3. ASSUME NEW id \in ProductId, id \in productCount + 1 .. productCount + n
        PROVE  /\ cards[id - productCount] \in Card
               /\ Minted(products[id], id, cards[id - productCount], w) \in Product
    <2>1. cards[id - productCount] \in Card
      BY <1>1, <1>3 DEF ProductId, TypeOK
    <2>2. QED
      BY <2>1, MintedFields, ClockTyped DEF TypeOK
  <1>4. QED
    BY <1>1, <1>2, <1>3 DEF BatchMintWithLogs

\* A successful single mint fills the slot after productCount and no other.
LEMMA MintSlots ==
  ASSUME TypeOK, NEW w \in Wallet, NEW card \in Card, MintFromOffchain(w, card)
  PROVE  /\ productCount' = productCount + 1
         /\ productCount + 1 \in ProductId
         /\ Minted(products[productCount + 1], productCount + 1, card, w) \in Product
         /\ \A id \in ProductId :
              products'[id] = IF id = productCount + 1
                              THEN Minted(products[id], id, card, w)
                              ELSE products[id]
  <1>1. productCount + 1 \in ProductId
    BY BoundAssumption DEF MintFromOffchain, ProductId, TypeOK
  <1>2. Minted(products[productCount + 1], productCount + 1, card, w) \in Product
    BY <1>1, MintedFields, ClockTyped DEF TypeOK
  <1>3. QED
    BY <1>1, <1>2 DEF MintFromOffchain, TypeOK

\* A log pushes one step on one history.
LEMMA LogSlots ==
  ASSUME TypeOK, NEW w \in Wallet, NEW id \in ProductId, AddProductionLog(w, id)
  PROVE  /\ productCount' = productCount
         /\ \A i \in ProductId :
              products'[i] = IF i = id THEN WithStep(products[i], "log", w)
                             ELSE products[i]
  BY DEF AddProductionLog, TypeOK

-------------------------------------------------------------------------------
(* Ids. *)

LEMMA IdsInit == Init => IdsAreDense
  BY DEF Init, IdsAreDense, Unfilled, BlankProduct

LEMMA IdsStep == TypeOK /\ IdsAreDense /\ [Next]_vars => IdsAreDense'
  <1> SUFFICES ASSUME TypeOK, IdsAreDense, [Next]_vars, NEW id \in ProductId
               PROVE  IF id \in 1 .. productCount' THEN Filled(id)' ELSE Unfilled(id)'
    BY DEF IdsAreDense
  <1>0. /\ now \in Time /\ now >= 1 /\ productCount \in Nat
        /\ products[id] \in Product /\ id \in Nat
        /\ IF id \in 1 .. productCount THEN Filled(id) ELSE Unfilled(id)
    BY ClockTyped DEF IdsAreDense, TypeOK, ProductId
  <1>1. ASSUME NEW w \in Wallet, NEW p \in Product, now' = now,
               id = p.id, p.region = HubRegion, p.currentOwner = w,
               p.activationDate = now, products'[id].id = p.id,
               products'[id].region = p.region,
               products'[id].currentOwner = p.currentOwner,
               products'[id].activationDate = p.activationDate
        PROVE  Filled(id)'
    BY <1>0, <1>1, WalletAssumption DEF Filled, Time
  <1>2. ASSUME NEW w \in Wallet, NEW profile \in Profile,
               RegisterManufacturer(w, profile)
        PROVE  IF id \in 1 .. productCount' THEN Filled(id)' ELSE Unfilled(id)'
    BY <1>0, <1>2 DEF RegisterManufacturer, Filled, Unfilled
  <1>3. ASSUME NEW w \in Wallet, NEW card \in Card, MintFromOffchain(w, card)
        PROVE  IF id \in 1 .. productCount' THEN Filled(id)' ELSE Unfilled(id)'
    <2>1. now' = now
      BY <1>3 DEF MintFromOffchain
    <2>2. CASE id = productCount + 1
      <3>1. Filled(id)'
        BY <1>0, <1>1, <1>3, <2>1, <2>2, MintSlots, MintedFields
      <3>2. QED
        BY <1>0, <1>3, <2>2, <3>1, MintSlots
    <2>3. CASE id # productCount + 1
      <3>1. products'[id] = products[id]
        BY <1>3, <2>3, MintSlots
      <3>2. QED
        BY <1>0, <1>3, <2>1, <2>3, <3>1, MintSlots DEF Filled, Unfilled
    <2>4. QED
      BY <2>2, <2>3
  <1>4. ASSUME NEW w \in Wallet, NEW n \in 0 .. MaxBatch,
               NEW names \in 0 .. MaxBatch, NEW rest \in 0 .. MaxBatch,
               NEW cards \in BatchOf(n), BatchMintWithLogs(w, cards, names, rest)
        PROVE  IF id \in 1 .. productCount' THEN Filled(id)' ELSE Unfilled(id)'
    <2>1. now' = now
      BY <1>4 DEF BatchMintWithLogs
    <2>2. n \in Nat /\ productCount' = productCount + n
      BY <1>4, BatchSlots
    <2>3. CASE id \in productCount + 1 .. productCount + n
      <3>1. PICK card \in Card :
              /\ Minted(products[id], id, card, w) \in Product
              /\ products'[id] = WithStep(Minted(products[id], id, card, w), "init", w)
        BY <1>4, <2>3, BatchSlots
      <3> DEFINE p == Minted(products[id], id, card, w)
      <3>2. /\ p \in Product /\ p.id = id /\ p.region = HubRegion
            /\ p.currentOwner = w /\ p.activationDate = now
        BY <1>0, <3>1, MintedFields
      <3>3. /\ products'[id].id = p.id /\ products'[id].region = p.region
            /\ products'[id].currentOwner = p.currentOwner
            /\ products'[id].activationDate = p.activationDate
        <4> DEFINE q == WithStep(p, "init", w)
        <4>1. products'[id] = q
          BY <3>1
        <4> HIDE DEF p
        <4>2. /\ q.id = p.id /\ q.region = p.region
              /\ q.currentOwner = p.currentOwner
              /\ q.activationDate = p.activationDate
          BY <1>0, <3>2, PushedLabel
        <4> HIDE DEF q
        <4>3. QED
          BY <4>1, <4>2
      <3> HIDE DEF p
      <3>4. Filled(id)'
        BY <1>1, <2>1, <3>2, <3>3
      <3>5. QED
        BY <1>0, <2>2, <2>3, <3>4
    <2>4. CASE id \notin productCount + 1 .. productCount + n
      <3>1. products'[id] = products[id]
        BY <1>4, <2>4, BatchSlots
      <3>2. QED
        BY <1>0, <2>1, <2>2, <2>4, <3>1 DEF Filled, Unfilled
    <2>5. QED
      BY <2>3, <2>4
  <1>5. ASSUME NEW w \in Wallet, NEW i \in ProductId, AddProductionLog(w, i)
        PROVE  IF id \in 1 .. productCount' THEN Filled(id)' ELSE Unfilled(id)'
    <2>1. now' = now /\ productCount' = productCount
      BY <1>5 DEF AddProductionLog
    <2>2. /\ products'[id].id = products[id].id
          /\ products'[id].region = products[id].region
          /\ products'[id].currentOwner = products[id].currentOwner
          /\ products'[id].activationDate = products[id].activationDate
          /\ [products'[id] EXCEPT !.history = << >>]
               = [products[id] EXCEPT !.history = << >>]
      <3>1. CASE i = id
        <4> DEFINE q == WithStep(products[id], "log", w)
        <4>1. products'[id] = q
          BY <1>5, <3>1, LogSlots
        <4>2. /\ q.id = products[id].id /\ q.region = products[id].region
              /\ q.currentOwner = products[id].currentOwner
              /\ q.activationDate = products[id].activationDate
              /\ [q EXCEPT !.history = << >>]
                   = [products[id] EXCEPT !.history = << >>]
          BY <1>0, PushedLabel
        <4> HIDE DEF q
        <4>3. QED
          BY <4>1, <4>2
      <3>2. CASE i # id
        BY <1>0, <1>5, <3>2, LogSlots
      <3>3. QED
        BY <3>1, <3>2
    <2>3. QED
      BY <1>0, <2>1, <2>2 DEF Filled, Unfilled
  <1>6. ASSUME NEW w \in Wallet, NEW w2 \in Wallet, TransferOwnership(w, w2)
        PROVE  IF id \in 1 .. productCount' THEN Filled(id)' ELSE Unfilled(id)'
    BY <1>0, <1>6 DEF TransferOwnership, Filled, Unfilled
  <1>7. ASSUME NEW w \in Wallet, RenounceOwnership(w)
        PROVE  IF id \in 1 .. productCount' THEN Filled(id)' ELSE Unfilled(id)'
    BY <1>0, <1>7 DEF RenounceOwnership, Filled, Unfilled
  <1>8. CASE NextBlock
    BY <1>0, <1>8, BoundAssumption DEF NextBlock, Filled, Unfilled, Product, Time
  <1>9. CASE UNCHANGED vars
    BY <1>0, <1>9 DEF vars, Filled, Unfilled
  <1>10. QED
    BY <1>2, <1>3, <1>4, <1>5, <1>6, <1>7, <1>8, <1>9 DEF Next

\* Minted products occupy the ids 1 .. productCount and nothing else, however
\* single mints, batches and logs are mixed.
THEOREM IdsDense == Spec => []IdsAreDense
  BY TypeInit, TypeStep, IdsInit, IdsStep, PTL DEF Spec

-------------------------------------------------------------------------------
(* Histories. *)

\* A chronological history stays so when a step is pushed in the present block.
LEMMA PushKeepsOrder ==
  ASSUME NEW p \in Product, NEW kind \in {"init", "log"}, NEW w \in Wallet,
         now \in Time, Chronological(p.history)
  PROVE  Chronological(WithStep(p, kind, w).history)
  <1> DEFINE h == WithStep(p, kind, w).history
  <1>1. /\ Len(h) = Len(p.history) + 1
        /\ \A i \in 1 .. Len(p.history) : h[i] = p.history[i]
        /\ h[Len(p.history) + 1] = [kind |-> kind, timestamp |-> now, actor |-> w]
    BY PushedHistory
  <1>2. /\ Len(p.history) \in Nat
        /\ \A i \in 1 .. Len(p.history) : p.history[i].timestamp \in Nat
    BY HistoryTyped
  <1>3. now \in Nat
    BY BoundAssumption DEF Time
  <1> HIDE DEF h
  <1>4. Chronological(h)
    BY <1>1, <1>2, <1>3 DEF Chronological
  <1>5. QED
    BY <1>4 DEF h

LEMMA HistoryInit == Init => HistoryChronological
  BY DEF Init, HistoryChronological, Chronological, BlankProduct

LEMMA HistoryStep == TypeOK /\ HistoryChronological /\ [Next]_vars => HistoryChronological'
  <1> SUFFICES ASSUME TypeOK, HistoryChronological, [Next]_vars,
                      NEW id \in ProductId
               PROVE  Chronological(products[id].history)'
    BY DEF HistoryChronological
  <1>0. /\ now \in Time /\ products[id] \in Product
        /\ Chronological(products[id].history)
    BY ClockTyped DEF HistoryChronological, TypeOK
  <1>1. ASSUME now' = now, products'[id].history = products[id].history
        PROVE  Chronological(products[id].history)'
    BY <1>0, <1>1 DEF Chronological
  <1>2. ASSUME NEW w \in Wallet, NEW card \in Card, MintFromOffchain(w, card)
        PROVE  products'[id].history = products[id].history
    <2>1. CASE id = productCount + 1
      BY <1>0, <1>2, <2>1, MintSlots, MintedFields
    <2>2. CASE id # productCount + 1
      BY <1>2, <2>2, MintSlots
    <2>3. QED
      BY <2>1, <2>2
  <1>3. ASSUME now' = now, NEW p \in Product, p.history = products[id].history,
               NEW kind \in {"init", "log"}, NEW w \in Wallet,
               products'[id] = WithStep(p, kind, w)
        PROVE  Chronological(products[id].history)'
    <2>1. Chronological(WithStep(p, kind, w).history)
      BY <1>0, <1>3, PushKeepsOrder
    <2> DEFINE h == WithStep(p, kind, w).history
    <2>2. products'[id].history = h
      BY <1>3
    <2>3. Chronological(h)
      BY <2>1
    <2> HIDE DEF h
    <2>4. QED
      BY <1>3, <2>2, <2>3 DEF Chronological
  <1>4. ASSUME NEW w \in Wallet, NEW n \in 0 .. MaxBatch,
               NEW names \in 0 .. MaxBatch, NEW rest \in 0 .. MaxBatch,
               NEW cards \in BatchOf(n), BatchMintWithLogs(w, cards, names, rest)
        PROVE  Chronological(products[id].history)'
    <2>1. now' = now
      BY <1>4 DEF BatchMintWithLogs
    <2>2. CASE id \in productCount + 1 .. productCount + n
      <3>1. PICK card \in Card :
              /\ Minted(products[id], id, card, w) \in Product
              /\ products'[id] = WithStep(Minted(products[id], id, card, w), "init", w)
        BY <1>4, <2>2, BatchSlots
      <3>2. Minted(products[id], id, card, w).history = products[id].history
        BY <1>0, MintedFields
      <3>3. QED
        BY <1>3, <2>1, <3>1, <3>2
    <2>3. CASE id \notin productCount + 1 .. productCount + n
      BY <1>1, <1>4, <2>1, <2>3, BatchSlots
    <2>4. QED
      BY <2>2, <2>3
  <1>5. ASSUME NEW w \in Wallet, NEW i \in ProductId, AddProductionLog(w, i)
        PROVE  Chronological(products[id].history)'
    <2>1. now' = now
      BY <1>5 DEF AddProductionLog
    <2>2. CASE i = id
      BY <1>0, <1>3, <1>5, <2>1, <2>2, LogSlots
    <2>3. CASE i # id
      BY <1>1, <1>5, <2>1, <2>3, LogSlots
    <2>4. QED
      BY <2>2, <2>3
  <1>6. CASE NextBlock
    <2>1. now' \in Nat /\ now \in Nat /\ now <= now' /\ products' = products
      BY <1>0, <1>6, BoundAssumption DEF NextBlock, Time
    <2>2. \A i \in 1 .. Len(products[id].history) :
            products[id].history[i].timestamp \in Nat
      BY <1>0, HistoryTyped
    <2>3. QED
      BY <1>0, <2>1, <2>2 DEF Chronological
  <1>7. ASSUME UNCHANGED <<products, now>>
        PROVE  Chronological(products[id].history)'
    BY <1>1, <1>7
  <1>8. ASSUME NEW w \in Wallet, NEW card \in Card, MintFromOffchain(w, card)
        PROVE  Chronological(products[id].history)'
    BY <1>1, <1>2, <1>8 DEF MintFromOffchain
  <1>9. QED
    BY <1>4, <1>5, <1>6, <1>7, <1>8
    DEF Next, RegisterManufacturer, TransferOwnership, RenounceOwnership, vars

\* Every history is in the order of time and never ahead of the block clock,
\* whichever owners wrote it and whether or not its product is minted.
THEOREM HistoryInOrder == Spec => []HistoryChronological
  BY TypeInit, TypeStep, HistoryInit, HistoryStep, PTL DEF Spec

-------------------------------------------------------------------------------
(* Initial steps. *)

LEMMA InitLogInit == Init => InitLogWithMint
  BY DEF Init, InitLogWithMint, InitLogOf, BlankProduct

LEMMA InitLogStep == TypeOK /\ InitLogWithMint /\ [Next]_vars => InitLogWithMint'
  <1> SUFFICES ASSUME TypeOK, InitLogWithMint, [Next]_vars, NEW id \in ProductId
               PROVE  InitLogOf(id)'
    BY DEF InitLogWithMint
  <1>0. /\ now \in Time /\ products[id] \in Product /\ InitLogOf(id)
        /\ productCount \in Nat /\ id \in Nat
    BY ClockTyped DEF InitLogWithMint, TypeOK, ProductId
  <1>1. ASSUME productCount' >= productCount, productCount' \in Nat,
               products'[id] = products[id]
        PROVE  InitLogOf(id)'
    BY <1>0, <1>1 DEF InitLogOf
  <1>2. ASSUME NEW w \in Wallet, NEW card \in Card, MintFromOffchain(w, card)
        PROVE  InitLogOf(id)'
    <2>1. CASE id = productCount + 1
      <3>1. products'[id].history = products[id].history
        BY <1>0, <1>2, <2>1, MintSlots, MintedFields
      <3>2. \A i \in 1 .. Len(products[id].history) :
              products[id].history[i].kind # "init"
        BY <1>0, <2>1 DEF InitLogOf
      <3>3. QED
        BY <3>1, <3>2 DEF InitLogOf
    <2>2. CASE id # productCount + 1
      BY <1>0, <1>1, <1>2, <2>2, MintSlots
    <2>3. QED
      BY <2>1, <2>2
  <1>3. ASSUME NEW w \in Wallet, NEW n \in 0 .. MaxBatch,
               NEW names \in 0 .. MaxBatch, NEW rest \in 0 .. MaxBatch,
               NEW cards \in BatchOf(n), BatchMintWithLogs(w, cards, names, rest)
        PROVE  InitLogOf(id)'
    <2>1. n \in Nat /\ productCount' = productCount + n
      BY <1>3, BatchSlots
    <2>2. CASE id \in productCount + 1 .. productCount + n
      <3>1. PICK card \in Card :
              /\ Minted(products[id], id, card, w) \in Product
              /\ products'[id] = WithStep(Minted(products[id], id, card, w), "init", w)
        BY <1>3, <2>2, BatchSlots
      <3> DEFINE p == Minted(products[id], id, card, w)
                 h == products[id].history
                 k == products'[id].history
      <3>2. /\ p \in Product /\ p.history = h
            /\ p.activationDate = now /\ p.currentOwner = w
        BY <1>0, <3>1, MintedFields
      <3>3. products'[id] = WithStep(p, "init", w)
        BY <3>1
      <3> HIDE DEF p
      <3>4. /\ Len(k) = Len(h) + 1
            /\ \A i \in 1 .. Len(h) : k[i] = h[i]
            /\ k[Len(h) + 1] = [kind |-> "init", timestamp |-> now, actor |-> w]
        <4> DEFINE q == WithStep(p, "init", w).history
        <4>1. /\ Len(q) = Len(p.history) + 1
              /\ \A i \in 1 .. Len(p.history) : q[i] = p.history[i]
              /\ q[Len(p.history) + 1] =
                   [kind |-> "init", timestamp |-> now, actor |-> w]
          BY <1>0, <3>2, PushedHistory
        <4>2. k = q
          BY <3>3
        <4> HIDE DEF q
        <4>3. QED
          BY <3>2, <4>1, <4>2
      <3>5. products'[id].activationDate = now /\ products'[id].currentOwner = w
        <4> DEFINE q == WithStep(p, "init", w)
        <4>1. q.activationDate = p.activationDate /\ q.currentOwner = p.currentOwner
          BY <1>0, <3>2, PushedLabel
        <4>2. products'[id] = q
          BY <3>3
        <4> HIDE DEF q
        <4>3. QED
          BY <3>2, <4>1, <4>2
      <3>6. \A i \in 1 .. Len(h) : h[i].kind # "init"
        BY <1>0, <2>2 DEF InitLogOf
      <3>7. id \in 1 .. productCount' /\ Len(h) \in Nat
        BY <1>0, <2>1, <2>2, HistoryTyped
      <3> HIDE DEF h
      <3>8. \A i \in 1 .. Len(k) : k[i].kind = "init" =>
              /\ i = Len(h) + 1
              /\ k[i].timestamp = now /\ k[i].actor = w
        BY <3>4, <3>6, <3>7
      <3>9. QED
        BY <3>5, <3>7, <3>8 DEF InitLogOf
    <2>3. CASE id \notin productCount + 1 .. productCount + n
      BY <1>0, <1>1, <1>3, <2>1, <2>3, BatchSlots
    <2>4. QED
      BY <2>2, <2>3
  <1>4. ASSUME NEW w \in Wallet, NEW x \in ProductId, AddProductionLog(w, x)
        PROVE  InitLogOf(id)'
    <2>1. CASE x = id
      <3> DEFINE h == products[id].history
                 k == products'[id].history
      <3>1. products'[id] = WithStep(products[id], "log", w) /\ productCount' = productCount
        BY <1>4, <2>1, LogSlots
      <3>2. /\ Len(k) = Len(h) + 1
            /\ \A i \in 1 .. Len(h) : k[i] = h[i]
            /\ k[Len(h) + 1] = [kind |-> "log", timestamp |-> now, actor |-> w]
        BY <1>0, <3>1, PushedHistory
      <3>3. /\ products'[id].activationDate = products[id].activationDate
            /\ products'[id].currentOwner = products[id].currentOwner
        BY <1>0, <3>1, PushedLabel
      <3>4. Len(h) \in Nat
        BY <1>0, HistoryTyped
      <3>5. \A i \in 1 .. Len(k) : k[i].kind = "init" => i \in 1 .. Len(h) /\ k[i] = h[i]
        BY <3>2, <3>4
      <3>6. QED
        BY <1>0, <3>1, <3>3, <3>5 DEF InitLogOf
    <2>2. CASE x # id
      BY <1>0, <1>1, <1>4, <2>2, LogSlots
    <2>3. QED
      BY <2>1, <2>2
  <1>5. ASSUME UNCHANGED <<products, productCount>>
        PROVE  InitLogOf(id)'
    BY <1>0, <1>1, <1>5
  <1>6. QED
    BY <1>2, <1>3, <1>4, <1>5
    DEF Next, RegisterManufacturer, TransferOwnership, RenounceOwnership,
        NextBlock, vars

\* The initial step of a product comes from the mint that activated it, and
\* from that mint only.
THEOREM InitLogOnce == Spec => []InitLogWithMint
  BY TypeInit, TypeStep, InitLogInit, InitLogStep, PTL DEF Spec

-------------------------------------------------------------------------------
(* Labels, once issued, stay. *)

LEMMA LabelsKept ==
  ASSUME TypeOK, [Next]_vars
  PROVE  /\ productCount' \in Nat /\ productCount' >= productCount
         /\ \A id \in 1 .. productCount : Label(id)' = Label(id)
  <1>0. /\ now \in Time /\ productCount \in Nat
        /\ \A id \in ProductId : products[id] \in Product
        /\ 1 .. productCount \subseteq ProductId
    BY ClockTyped, BoundAssumption DEF TypeOK, ProductId
  <1>1. ASSUME NEW w \in Wallet, NEW card \in Card, MintFromOffchain(w, card)
        PROVE  /\ productCount' = productCount + 1
               /\ \A id \in 1 .. productCount : products'[id] = products[id]
    BY <1>0, <1>1, MintSlots
  <1>2. ASSUME NEW w \in Wallet, NEW n \in 0 .. MaxBatch,
               NEW names \in 0 .. MaxBatch, NEW rest \in 0 .. MaxBatch,
               NEW cards \in BatchOf(n), BatchMintWithLogs(w, cards, names, rest)
        PROVE  /\ n \in Nat /\ productCount' = productCount + n
               /\ \A id \in 1 .. productCount : products'[id] = products[id]
    BY <1>0, <1>2, BatchSlots
  <1>3. ASSUME NEW w \in Wallet, NEW x \in ProductId, AddProductionLog(w, x)
        PROVE  /\ productCount' = productCount
               /\ \A id \in ProductId : Label(id)' = Label(id)
    <2>1. productCount' = productCount
      BY <1>3, LogSlots
    <2>2. ASSUME NEW id \in ProductId
          PROVE  Label(id)' = Label(id)
      <3>1. CASE id = x
        <4>1. products'[id] = WithStep(products[id], "log", w)
          BY <1>3, <3>1, LogSlots
        <4>2. QED
          BY <1>0, <4>1, PushedLabel DEF Label
      <3>2. CASE id # x
        BY <1>3, <3>2, LogSlots DEF Label
      <3>3. QED
        BY <3>1, <3>2
    <2>3. QED
      BY <2>1, <2>2
  <1>4. ASSUME UNCHANGED <<products, productCount>>
        PROVE  \A id \in ProductId : Label(id)' = Label(id)
    BY <1>4 DEF Label
  <1> DEFINE Kept == /\ productCount' \in Nat /\ productCount' >= productCount
                     /\ \A id \in 1 .. productCount : Label(id)' = Label(id)
  <1>5. ASSUME NEW w \in Wallet, NEW card \in Card, MintFromOffchain(w, card)
        PROVE  Kept
    BY <1>0, <1>1, <1>5 DEF Label
  <1>6. ASSUME NEW w \in Wallet, NEW n \in 0 .. MaxBatch,
               NEW names \in 0 .. MaxBatch, NEW rest \in 0 .. MaxBatch,
               NEW cards \in BatchOf(n), BatchMintWithLogs(w, cards, names, rest)
        PROVE  Kept
    BY <1>0, <1>2, <1>6 DEF Label
  <1>7. ASSUME NEW w \in Wallet, NEW x \in ProductId, AddProductionLog(w, x)
        PROVE  Kept
    BY <1>0, <1>3, <1>7
  <1>8. ASSUME UNCHANGED <<products, productCount>>
        PROVE  Kept
    BY <1>0, <1>4, <1>8
  <1> HIDE DEF Kept
  <1>9. Kept
    BY <1>5, <1>6, <1>7, <1>8
    DEF Next, RegisterManufacturer, TransferOwnership, RenounceOwnership,
        NextBlock, vars
  <1>10. QED
    BY <1>9 DEF Kept

\* A label stands for the fields it holds.
LEMMA LabelFields ==
  ASSUME NEW p \in Product, NEW q \in Product,
         [p EXCEPT !.history = << >>] = [q EXCEPT !.history = << >>]
  PROVE  p.activationDate = q.activationDate
  <1>1. /\ [p EXCEPT !.history = << >>].activationDate = p.activationDate
        /\ [q EXCEPT !.history = << >>].activationDate = q.activationDate
    BY DEF Product
  <1>2. QED
    BY <1>1

\* What a step mints is activated in the present block.
LEMMA NewActivation ==
  ASSUME TypeOK, [Next]_vars, NEW id \in productCount + 1 .. productCount'
  PROVE  products'[id].activationDate = now
  <1>0. /\ now \in Time /\ productCount \in Nat /\ id \in Int
        /\ \A i \in ProductId : products[i] \in Product
    BY ClockTyped DEF TypeOK
  <1>1. ASSUME NEW w \in Wallet, NEW card \in Card, MintFromOffchain(w, card)
        PROVE  products'[id].activationDate = now
    BY <1>0, <1>1, MintSlots, MintedFields
  <1>2. ASSUME NEW w \in Wallet, NEW n \in 0 .. MaxBatch,
               NEW names \in 0 .. MaxBatch, NEW rest \in 0 .. MaxBatch,
               NEW cards \in BatchOf(n), BatchMintWithLogs(w, cards, names, rest)
        PROVE  products'[id].activationDate = now
    <2>1. id \in productCount + 1 .. productCount + n /\ id \in ProductId
      BY <1>0, <1>2, BatchSlots, BoundAssumption DEF ProductId
    <2>2. PICK card \in Card :
            /\ Minted(products[id], id, card, w) \in Product
            /\ products'[id] = WithStep(Minted(products[id], id, card, w), "init", w)
      BY <1>2, <2>1, BatchSlots
    <2> DEFINE p == Minted(products[id], id, card, w)
               q == WithStep(p, "init", w)
    <2>3. p \in Product /\ p.activationDate = now
      BY <1>0, <2>1, <2>2, MintedFields
    <2>4. products'[id] = q
      BY <2>2
    <2> HIDE DEF p
    <2>5. q.activationDate = p.activationDate
      BY <1>0, <2>3, PushedLabel
    <2> HIDE DEF q
    <2>6. QED
      BY <2>3, <2>4, <2>5
  <1>3. ASSUME UNCHANGED productCount
        PROVE  FALSE
    BY <1>0, <1>3
  <1>4. QED
    BY <1>1, <1>2, <1>3
    DEF Next, RegisterManufacturer, AddProductionLog, TransferOwnership,
        RenounceOwnership, NextBlock, vars

LEMMA ActivationInit == Init => ActivationOrder
  BY DEF Init, ActivationOrder

LEMMA ActivationStep ==
  TypeOK /\ TypeOK' /\ IdsAreDense /\ ActivationOrder /\ [Next]_vars => ActivationOrder'
  <1> SUFFICES ASSUME TypeOK, TypeOK', IdsAreDense, ActivationOrder, [Next]_vars,
                      NEW i \in 1 .. productCount', NEW j \in 1 .. productCount',
                      i <= j
               PROVE  products'[i].activationDate <= products'[j].activationDate
    BY DEF ActivationOrder
  <1>1. /\ productCount \in Nat /\ productCount' \in Nat /\ now \in Nat
        /\ productCount' >= productCount
        /\ 1 .. productCount \subseteq ProductId
    BY ClockTyped, LabelsKept, BoundAssumption DEF TypeOK, ProductId, Time
  <1>2. ASSUME NEW id \in 1 .. productCount
        PROVE  /\ products'[id].activationDate = products[id].activationDate
               /\ products[id].activationDate <= now
               /\ products[id].activationDate \in Nat
    <2>1. products[id] \in Product /\ products'[id] \in Product
      BY <1>1 DEF TypeOK
    <2>2. [products'[id] EXCEPT !.history = << >>]
            = [products[id] EXCEPT !.history = << >>]
      BY LabelsKept DEF Label
    <2>3. products[id].activationDate \in 1 .. now
      BY <1>1 DEF IdsAreDense, Filled
    <2>4. QED
      BY <1>1, <2>1, <2>2, <2>3, LabelFields
  <1>3. CASE j \in 1 .. productCount
    BY <1>1, <1>2, <1>3 DEF ActivationOrder
  <1>4. CASE j \notin 1 .. productCount
    <2>1. products'[j].activationDate = now
      BY <1>1, <1>4, NewActivation
    <2>2. CASE i \in 1 .. productCount
      BY <1>2, <2>1, <2>2
    <2>3. CASE i \notin 1 .. productCount
      BY <1>1, <2>1, <2>3, NewActivation
    <2>4. QED
      BY <2>2, <2>3
  <1>5. QED
    BY <1>3, <1>4

\* Products are activated in the order of their ids.
THEOREM ActivatedInOrder == Spec => []ActivationOrder
  BY TypeInit, TypeStep, IdsInit, IdsStep, ActivationInit, ActivationStep, PTL
  DEF Spec

-------------------------------------------------------------------------------
(* What no step may do. *)

\* After renounceOwnership the products and the owner never change again.
THEOREM RenouncedIsFinal == Spec => RenouncedFrozen
  <1>1. [Next]_vars =>
          [owner = NoWallet => UNCHANGED <<owner, productCount, products>>]_vars
    BY WalletAssumption
    DEF Next, RegisterManufacturer, MintFromOffchain, BatchMintWithLogs,
        AddProductionLog, TransferOwnership, RenounceOwnership, NextBlock, vars
  <1>2. QED
    BY <1>1, PTL DEF Spec, RenouncedFrozen

-------------------------------------------------------------------------------
(* The contract implements the provenance ledger. *)

\* A slot that a step writes has its history kept or one step longer.
LEMMA OneStepLonger ==
  ASSUME NEW p \in Product, NEW q \in Product, q.history = p.history,
         NEW kind \in {"init", "log"}, NEW w \in Wallet, now \in Time
  PROVE  Ledger!ExtendsByOne(WithStep(q, kind, w).history, p.history)
  <1> DEFINE h == WithStep(q, kind, w).history
  <1>1. /\ Len(h) = Len(q.history) + 1
        /\ \A i \in 1 .. Len(q.history) : h[i] = q.history[i]
    BY PushedHistory
  <1> HIDE DEF h
  <1>2. /\ Len(h) = Len(p.history) + 1
        /\ \A i \in 1 .. Len(p.history) : h[i] = p.history[i]
    BY <1>1
  <1>3. QED
    BY <1>2 DEF Ledger!ExtendsByOne, h

LEMMA LedgerInit == Init => Ledger!Init
  <1> SUFFICES ASSUME Init PROVE Ledger!Init
    OBVIOUS
  <1>1. [id \in 1 .. productCount |-> Label(id)] = << >>
    BY DEF Init
  <1>2. [id \in ProductId |-> products[id].history] = [id \in ProductId |-> << >>]
    BY DEF Init, BlankProduct
  <1>3. QED
    BY <1>1, <1>2 DEF Ledger!Init

LEMMA LedgerStep == TypeOK /\ [Next]_vars => [Ledger!Next]_(Ledger!vars)
  <1> SUFFICES ASSUME TypeOK, [Next]_vars
               PROVE  Ledger!Next \/ UNCHANGED Ledger!vars
    OBVIOUS
  <1> DEFINE issued  == [id \in 1 .. productCount |-> Label(id)]
             journal == [id \in ProductId |-> products[id].history]
  <1>0. /\ now \in Time /\ productCount \in Nat
        /\ \A id \in ProductId : products[id] \in Product
    BY ClockTyped DEF TypeOK
  <1>1. /\ productCount' \in Nat /\ productCount' >= productCount
        /\ \A id \in 1 .. productCount : Label(id)' = Label(id)
    BY LabelsKept
  <1>2. /\ Len(issued) = productCount /\ Len(issued)' = productCount'
        /\ \A i \in 1 .. productCount : issued'[i] = issued[i]
    BY <1>0, <1>1
  <1>3. /\ DOMAIN journal' = ProductId
        /\ \A id \in ProductId : /\ journal[id] = products[id].history
                                 /\ journal'[id] = products'[id].history
    OBVIOUS
  <1>4. ASSUME productCount' > productCount,
               \A id \in ProductId :
                 \/ products'[id].history = products[id].history
                 \/ /\ id \in productCount + 1 .. productCount'
                    /\ Ledger!ExtendsByOne(products'[id].history, products[id].history)
        PROVE  Ledger!Issue
    BY <1>2, <1>3, <1>4 DEF Ledger!Issue
  <1>5. ASSUME NEW w \in Wallet, NEW card \in Card, MintFromOffchain(w, card)
        PROVE  Ledger!Issue
    <2>1. productCount' > productCount
      BY <1>0, <1>5, MintSlots
    <2>2. \A id \in ProductId : products'[id].history = products[id].history
      BY <1>0, <1>5, MintSlots, MintedFields
    <2>3. QED
      BY <1>4, <2>1, <2>2
  <1>6. ASSUME NEW w \in Wallet, NEW n \in 0 .. MaxBatch,
               NEW names \in 0 .. MaxBatch, NEW rest \in 0 .. MaxBatch,
               NEW cards \in BatchOf(n), BatchMintWithLogs(w, cards, names, rest)
        PROVE  Ledger!Issue \/ UNCHANGED Ledger!vars
    <2>1. n \in Nat /\ productCount' = productCount + n
      BY <1>6, BatchSlots
    <2>2. ASSUME NEW id \in ProductId
          PROVE  \/ products'[id].history = products[id].history
                 \/ /\ id \in productCount + 1 .. productCount'
                    /\ Ledger!ExtendsByOne(products'[id].history, products[id].history)
      <3>1. CASE id \in productCount + 1 .. productCount + n
        <4>1. PICK card \in Card :
                /\ Minted(products[id], id, card, w) \in Product
                /\ products'[id] = WithStep(Minted(products[id], id, card, w), "init", w)
          BY <1>6, <3>1, BatchSlots
        <4>2. Minted(products[id], id, card, w).history = products[id].history
          BY <1>0, MintedFields
        <4>3. Ledger!ExtendsByOne(products'[id].history, products[id].history)
          BY <1>0, <4>1, <4>2, OneStepLonger
        <4>4. QED
          BY <2>1, <3>1, <4>3
      <3>2. CASE id \notin productCount + 1 .. productCount + n
        BY <1>6, <3>2, BatchSlots
      <3>3. QED
        BY <3>1, <3>2
    <2>3. CASE n > 0
      BY <1>0, <1>4, <2>1, <2>2, <2>3
    <2>4. CASE n = 0
      <3>1. productCount' = productCount
        BY <1>0, <2>1, <2>4
      <3>2. \A id \in ProductId : products'[id] = products[id]
        BY <1>0, <1>6, <2>4, BatchSlots
      <3>3. issued' = issued /\ journal' = journal
        BY <1>1, <3>1, <3>2
      <3>4. QED
        BY <3>3 DEF Ledger!vars
    <2>5. QED
      BY <2>1, <2>3, <2>4
  <1>7. ASSUME NEW w \in Wallet, NEW x \in ProductId, AddProductionLog(w, x)
        PROVE  Ledger!Record
    <2>1. productCount' = productCount
      BY <1>7, LogSlots
    <2>2. issued' = issued
      BY <1>1, <2>1
    <2>3. Ledger!ExtendsByOne(products'[x].history, products[x].history)
      <3>1. products'[x] = WithStep(products[x], "log", w)
        BY <1>7, LogSlots
      <3>2. QED
        BY <1>0, <3>1, OneStepLonger
    <2>4. \A m \in ProductId \ {x} : products'[m].history = products[m].history
      BY <1>7, LogSlots
    <2>5. QED
      BY <1>3, <2>2, <2>3, <2>4 DEF Ledger!Record
  <1>8. ASSUME UNCHANGED <<products, productCount>>
        PROVE  UNCHANGED Ledger!vars
    BY <1>8 DEF Ledger!vars, Label
  <1>9. QED
    BY <1>5, <1>6, <1>7, <1>8
    DEF Next, RegisterManufacturer, TransferOwnership, RenounceOwnership,
        NextBlock, vars, Ledger!Next

\* Every behaviour of the contract is one of the provenance ledger: labels in
\* sequence and for ever, histories that only grow.
THEOREM ImplementsLedger == Spec => LedgerSpec
  BY TypeCorrect, LedgerInit, LedgerStep, PTL DEF Spec, LedgerSpec, Ledger!Spec

-------------------------------------------------------------------------------
(* Permanence: what these steps come to for whoever traces a product. *)

\* A step leaves a history as it is or adds one entry at its end: a log, or the
\* initial step of a product that the step mints.
LEMMA HistoryMoves ==
  ASSUME TypeOK, [Next]_vars, NEW id \in ProductId
  PROVE  LET h == products[id].history
             g == products'[id].history
         IN  \/ g = h
             \/ /\ Len(g) = Len(h) + 1
                /\ \A i \in 1 .. Len(h) : g[i] = h[i]
                /\ \/ g[Len(g)].kind = "log"
                   \/ id \in productCount + 1 .. productCount'
  <1> DEFINE h == products[id].history
             g == products'[id].history
             Goal == \/ g = h
                     \/ /\ Len(g) = Len(h) + 1
                        /\ \A i \in 1 .. Len(h) : g[i] = h[i]
                        /\ \/ g[Len(g)].kind = "log"
                           \/ id \in productCount + 1 .. productCount'
  <1>0. /\ now \in Time /\ productCount \in Nat
        /\ \A i \in ProductId : products[i] \in Product
    BY ClockTyped DEF TypeOK
  <1>1. ASSUME NEW p \in Product, p.history = h, NEW kind \in {"init", "log"},
               NEW w \in Wallet, products'[id] = WithStep(p, kind, w)
        PROVE  /\ Len(g) = Len(h) + 1 /\ g[Len(g)].kind = kind
               /\ \A i \in 1 .. Len(h) : g[i] = h[i]
    <2> DEFINE k == WithStep(p, kind, w).history
    <2>1. /\ Len(k) = Len(p.history) + 1
          /\ \A i \in 1 .. Len(p.history) : k[i] = p.history[i]
          /\ k[Len(p.history) + 1] = [kind |-> kind, timestamp |-> now, actor |-> w]
      BY <1>0, PushedHistory
    <2>2. g = k
      BY <1>1
    <2> HIDE DEF k, g, h
    <2>3. Len(g) = Len(h) + 1 /\ g[Len(g)] = [kind |-> kind, timestamp |-> now, actor |-> w]
      BY <1>1, <2>1, <2>2
    <2>4. QED
      BY <1>1, <2>1, <2>2, <2>3
  <1>2. ASSUME NEW w \in Wallet, NEW card \in Card, MintFromOffchain(w, card)
        PROVE  g = h
    BY <1>0, <1>2, MintSlots, MintedFields
  <1>3. ASSUME NEW w \in Wallet, NEW n \in 0 .. MaxBatch,
               NEW names \in 0 .. MaxBatch, NEW rest \in 0 .. MaxBatch,
               NEW cards \in BatchOf(n), BatchMintWithLogs(w, cards, names, rest)
        PROVE  Goal
    <2>1. CASE id \in productCount + 1 .. productCount + n
      <3>1. PICK card \in Card :
              /\ Minted(products[id], id, card, w) \in Product
              /\ products'[id] = WithStep(Minted(products[id], id, card, w), "init", w)
        BY <1>3, <2>1, BatchSlots
      <3>2. Minted(products[id], id, card, w).history = h
        BY <1>0, MintedFields
      <3>3. productCount' = productCount + n
        BY <1>3, BatchSlots
      <3>4. QED
        BY <1>1, <2>1, <3>1, <3>2, <3>3
    <2>2. CASE id \notin productCount + 1 .. productCount + n
      BY <1>3, <2>2, BatchSlots
    <2>3. QED
      BY <2>1, <2>2
  <1>4. ASSUME NEW w \in Wallet, NEW x \in ProductId, AddProductionLog(w, x)
        PROVE  Goal
    <2>1. CASE x = id
      BY <1>0, <1>1, <1>4, <2>1, LogSlots
    <2>2. CASE x # id
      BY <1>4, <2>2, LogSlots
    <2>3. QED
      BY <2>1, <2>2
  <1>5. CASE UNCHANGED products
    BY <1>5
  <1>6. QED
    BY <1>2, <1>3, <1>4, <1>5
    DEF Next, RegisterManufacturer, TransferOwnership, RenounceOwnership, NextBlock, vars

\* A label that was issued under a number is that number's label for ever, whoever
\* owns, mints, logs, transfers or renounces.
Issued(id, label) == id \in 1 .. productCount /\ Label(id) = label

THEOREM LabelIsForEver ==
  ASSUME NEW id, NEW label
  PROVE  Spec => [](Issued(id, label) => []Issued(id, label))
  <1>1. TypeOK /\ Issued(id, label) /\ [Next]_vars => Issued(id, label)'
    <2> SUFFICES ASSUME TypeOK, Issued(id, label), [Next]_vars
                 PROVE  id \in 1 .. productCount' /\ Label(id)' = label
      BY DEF Issued
    <2>1. /\ productCount' \in Nat /\ productCount' >= productCount
          /\ Label(id)' = Label(id)
      BY LabelsKept DEF Issued
    <2>2. productCount \in Nat
      BY ClockTyped
    <2>3. QED
      BY <2>1, <2>2 DEF Issued
  <1>2. QED
    BY <1>1, TypeCorrect, PTL DEF Spec

\* An entry that was recorded in a history is at its place in it for ever.
Recorded(id, i, step) ==
  i \in 1 .. Len(products[id].history) /\ products[id].history[i] = step

THEOREM EntryIsForEver ==
  ASSUME NEW id \in ProductId, NEW i, NEW step
  PROVE  Spec => [](Recorded(id, i, step) => []Recorded(id, i, step))
  <1>1. TypeOK /\ Recorded(id, i, step) /\ [Next]_vars => Recorded(id, i, step)'
    <2> SUFFICES ASSUME TypeOK, Recorded(id, i, step), [Next]_vars
                 PROVE  i \in 1 .. Len(products'[id].history)
                        /\ products'[id].history[i] = step
      BY DEF Recorded
    <2> DEFINE h == products[id].history
               g == products'[id].history
    <2>1. g = h \/ (Len(g) = Len(h) + 1 /\ \A j \in 1 .. Len(h) : g[j] = h[j])
      BY HistoryMoves
    <2>2. Len(h) \in Nat /\ i \in 1 .. Len(h) /\ h[i] = step
      BY HistoryTyped DEF TypeOK, Recorded
    <2> HIDE DEF g, h
    <2>3. i \in 1 .. Len(g) /\ g[i] = step
      BY <2>1, <2>2
    <2>4. QED
      BY <2>3 DEF g
  <1>2. QED
    BY <1>1, TypeCorrect, PTL DEF Spec

-------------------------------------------------------------------------------
(* The initial step opens the history of a product nobody logged too early. *)

\* What sol:120 says of one product.
OpensWithInit(id) ==
  LET h == products[id].history
  IN  (\E i \in 1 .. Len(h) : h[i].kind = "init") => h[1].kind = "init"

NothingYet(id) == id \notin 1 .. productCount => Len(products[id].history) = 0

\* No entry is recorded under this id before it is minted.
LogsAfterMint(id) ==
  products'[id].history # products[id].history => id \in 1 .. productCount'

LEMMA OpeningStep ==
  ASSUME NEW id \in ProductId
  PROVE  TypeOK /\ NothingYet(id) /\ OpensWithInit(id)
           /\ [Next]_vars /\ [LogsAfterMint(id)]_vars
         => NothingYet(id)' /\ OpensWithInit(id)'
  <1> SUFFICES ASSUME TypeOK, NothingYet(id), OpensWithInit(id),
                      [Next]_vars, [LogsAfterMint(id)]_vars
               PROVE  NothingYet(id)' /\ OpensWithInit(id)'
    OBVIOUS
  <1> DEFINE h == products[id].history
             g == products'[id].history
  <1>1. /\ productCount \in Nat /\ productCount' \in Nat /\ productCount' >= productCount
        /\ Len(h) \in Nat
    BY ClockTyped, LabelsKept, HistoryTyped DEF TypeOK
  <1>2. /\ g # h => id \in 1 .. productCount'
        /\ id \notin 1 .. productCount => Len(h) = 0
        /\ (\E i \in 1 .. Len(h) : h[i].kind = "init") => h[1].kind = "init"
    BY DEF LogsAfterMint, vars, NothingYet, OpensWithInit
  <1>3. \/ g = h
        \/ /\ Len(g) = Len(h) + 1
           /\ \A i \in 1 .. Len(h) : g[i] = h[i]
           /\ \/ g[Len(g)].kind = "log"
              \/ id \in productCount + 1 .. productCount'
    BY HistoryMoves
  <1> HIDE DEF g, h
  <1>4. id \notin 1 .. productCount' => Len(g) = 0
    BY <1>1, <1>2, <1>3
  <1>5. ASSUME NEW i \in 1 .. Len(g), g[i].kind = "init"
        PROVE  g[1].kind = "init"
    <2>1. CASE g = h
      BY <1>2, <1>5, <2>1
    <2>2. CASE Len(h) = 0 /\ Len(g) = Len(h) + 1
      BY <1>5, <2>2
    <2>3. CASE /\ Len(h) # 0 /\ Len(g) = Len(h) + 1 /\ g[Len(g)].kind = "log"
               /\ \A j \in 1 .. Len(h) : g[j] = h[j]
      <3>1. i \in 1 .. Len(h) /\ 1 \in 1 .. Len(h)
        BY <1>1, <1>5, <2>3
      <3>2. QED
        BY <1>2, <1>5, <2>3, <3>1
    <2>4. id \in productCount + 1 .. productCount' => Len(h) = 0
      BY <1>1, <1>2
    <2>5. QED
      BY <1>3, <2>1, <2>2, <2>3, <2>4
  <1>6. QED
    BY <1>4, <1>5 DEF NothingYet, OpensWithInit, g, h

\* A product that nobody logged before its mint opens with its initial step,
\* whatever is minted, logged or transferred around it: the orphan entry is the only
\* way to break what sol:120 says.
THEOREM OpensUnlessLoggedEarly ==
  ASSUME NEW id \in ProductId
  PROVE  Spec /\ [][LogsAfterMint(id)]_vars => []OpensWithInit(id)
  <1>1. Init => NothingYet(id) /\ OpensWithInit(id)
    BY DEF Init, NothingYet, OpensWithInit, BlankProduct
  <1>2. QED
    BY <1>1, OpeningStep, TypeCorrect, PTL DEF Spec

===============================================================================

--------------------------- MODULE TruyXuatNguonGoc ---------------------------
(***************************************************************************)
(* The traceability contract of one hub (contracts/TruyXuatNguonGoc.sol).  *)
(* A transaction is atomic, so a public function is one action; a call     *)
(* that fails a require, an index check or checked arithmetic reverts as a *)
(* whole and is a step that is not there.  The texts of a product (code,   *)
(* name, manufacturer, certification, area, production date, type) are one *)
(* value of Card, those of a manufacturer one value of Profile.            *)
(***************************************************************************)
EXTENDS Naturals, Sequences

CONSTANTS
  Wallet,        \* externally owned accounts that send transactions
  NoWallet,      \* address(0)
  Card,          \* the texts a product can be minted with
  BlankCard,     \* the texts of a storage slot nobody wrote
  Profile,       \* the name and tax code of a manufacturer
  NoProfile,
  Region,        \* NetworkRegion
  ZeroRegion,    \* its first member, the value of an unwritten slot
  HubRegion,     \* the region the contract was deployed for
  MaxUint,       \* the largest uint256
  MaxBatch,      \* bound: arrays passed to batchMintWithLogs are no longer
  MaxSteps,      \* bound: steps in one product's history
  MaxTime        \* bound: the last block timestamp

ASSUME WalletAssumption == NoWallet \notin Wallet
ASSUME BlankAssumption  == BlankCard \in Card /\ NoProfile \notin Profile
ASSUME RegionAssumption == {ZeroRegion, HubRegion} \subseteq Region
ASSUME BoundAssumption  == {MaxUint, MaxBatch, MaxSteps, MaxTime} \subseteq Nat

VARIABLES
  owner,           \* Ownable: the wallet that passes onlyOwner
  productCount,
  products,        \* uint256 -> Product, unwritten slots included
  manufacturers,   \* address -> Manufacturer
  now              \* block.timestamp of the block being built

vars == <<owner, productCount, products, manufacturers, now>>

ProductId == 0 .. MaxUint
Time      == 0 .. MaxTime

\* "init" marks the texts batchMintWithLogs writes, "log" those of
\* addProductionLog.
Step == [kind : {"init", "log"}, timestamp : Time, actor : Wallet]

Product == [id : ProductId, card : Card, activationDate : Time,
            currentOwner : Wallet \cup {NoWallet}, region : Region,
            history : Seq(Step)]

BlankProduct ==
  [id |-> 0, card |-> BlankCard, activationDate |-> 0,
   currentOwner |-> NoWallet, region |-> ZeroRegion, history |-> << >>]

Manufacturer == [profile : Profile \cup {NoProfile}, isRegistered : BOOLEAN,
                 wallet : Wallet \cup {NoWallet}]

BlankManufacturer ==
  [profile |-> NoProfile, isRegistered |-> FALSE, wallet |-> NoWallet]

-------------------------------------------------------------------------------
Init ==
  /\ owner \in Wallet
  /\ productCount = 0
  /\ products = [id \in ProductId |-> BlankProduct]
  /\ manufacturers = [w \in Wallet |-> BlankManufacturer]
  /\ now \in 1 .. MaxTime

RegisterManufacturer(sender, profile) ==
  /\ ~ manufacturers[sender].isRegistered
  /\ manufacturers' = [manufacturers EXCEPT ![sender] =
       [profile |-> profile, isRegistered |-> TRUE, wallet |-> sender]]
  /\ UNCHANGED <<owner, productCount, products, now>>

\* Mutant: the mint clears the slot first.
MintedAfresh(p, id, card, sender) ==
  [BlankProduct EXCEPT !.id = id, !.card = card, !.activationDate = now,
                       !.currentOwner = sender, !.region = HubRegion]

\* A product slot after the assignments of a mint: the history is left as it is.
Minted(p, id, card, sender) ==
  [p EXCEPT !.id = id, !.card = card, !.activationDate = now,
            !.currentOwner = sender, !.region = HubRegion]

\* A product slot after history.push.
WithStep(p, kind, sender) ==
  [p EXCEPT !.history =
     Append(@, [kind |-> kind, timestamp |-> now, actor |-> sender])]

\* Mutant: the slot is taken before the counter is advanced.
MintAtOldCount(sender, card) ==
  /\ sender = owner
  /\ productCount < MaxUint
  /\ productCount' = productCount + 1
  /\ products' = [products EXCEPT ![productCount] =
                    Minted(@, productCount, card, sender)]
  /\ UNCHANGED <<owner, manufacturers, now>>

\* Mutant: the counter is not checked for overflow.
MintUnchecked(sender, card) ==
  /\ sender = owner
  /\ productCount' = productCount + 1
  /\ products' = [products EXCEPT ![(productCount + 1) % (MaxUint + 1)] =
                    Minted(@, (productCount + 1) % (MaxUint + 1), card, sender)]
  /\ UNCHANGED <<owner, manufacturers, now>>

MintFromOffchain(sender, card) ==
  /\ sender = owner
  /\ productCount < MaxUint
  /\ productCount' = productCount + 1
  /\ products' = [products EXCEPT ![productCount + 1] =
                    Minted(@, productCount + 1, card, sender)]
  /\ UNCHANGED <<owner, manufacturers, now>>

\* Mutant: the initial step goes to the slot before the product's.
BatchStepOffByOne(sender, cards, nameCount, restCount) ==
  /\ sender = owner
  /\ nameCount = Len(cards)
  /\ restCount >= Len(cards)
  /\ productCount + Len(cards) <= MaxUint
  /\ productCount' = productCount + Len(cards)
  /\ products' = [id \in ProductId |->
       LET new(i) == i \in productCount + 1 .. productCount + Len(cards)
           p == IF new(id)
                THEN Minted(products[id], id, cards[id - productCount], sender)
                ELSE products[id]
       IN  IF new(id + 1) THEN WithStep(p, "init", sender) ELSE p]
  /\ UNCHANGED <<owner, manufacturers, now>>

\* cards holds what the arrays give each index of _codes, nameCount is
\* _names.length and restCount the length of the shortest other array: the
\* first mismatch fails the require, a shorter other array the index check.
BatchMintWithLogs(sender, cards, nameCount, restCount) ==
  /\ sender = owner
  /\ nameCount = Len(cards)
  /\ restCount >= Len(cards)
  /\ productCount + Len(cards) <= MaxUint
  /\ productCount' = productCount + Len(cards)
  /\ products' = [id \in ProductId |->
       IF id \in productCount + 1 .. productCount + Len(cards)
       THEN WithStep(Minted(products[id], id, cards[id - productCount], sender),
                     "init", sender)
       ELSE products[id]]
  /\ UNCHANGED <<owner, manufacturers, now>>

\* Mutant: the caller supplies the timestamp of the step.
AddLogDatedByCaller(sender, id) ==
  /\ sender = owner
  /\ Len(products[id].history) < MaxSteps
  /\ \E t \in Time : products' = [products EXCEPT ![id].history =
       Append(@, [kind |-> "log", timestamp |-> t, actor |-> sender])]
  /\ UNCHANGED <<owner, productCount, manufacturers, now>>

\* Any id: the function does not ask whether the product exists.
AddProductionLog(sender, id) ==
  /\ sender = owner
  /\ Len(products[id].history) < MaxSteps
  /\ products' = [products EXCEPT ![id] = WithStep(@, "log", sender)]
  /\ UNCHANGED <<owner, productCount, manufacturers, now>>

TransferOwnership(sender, newOwner) ==
  /\ sender = owner
  /\ owner' = newOwner
  /\ UNCHANGED <<productCount, products, manufacturers, now>>

RenounceOwnership(sender) ==
  /\ sender = owner
  /\ owner' = NoWallet
  /\ UNCHANGED <<productCount, products, manufacturers, now>>

\* The next block has a later timestamp; several transactions share a block.
NextBlock ==
  /\ now < MaxTime
  /\ now' \in now + 1 .. MaxTime
  /\ UNCHANGED <<owner, productCount, products, manufacturers>>

BatchOf(n) == [1 .. n -> Card]

Next ==
  \/ \E w \in Wallet :
       \/ \E profile \in Profile : RegisterManufacturer(w, profile)
       \/ \E card \in Card : MintFromOffchain(w, card)
       \/ \E n, names, rest \in 0 .. MaxBatch : \E cards \in BatchOf(n) :
            BatchMintWithLogs(w, cards, names, rest)
       \/ \E id \in ProductId : AddProductionLog(w, id)
       \/ \E w2 \in Wallet : TransferOwnership(w, w2)
       \/ RenounceOwnership(w)
  \/ NextBlock

Spec == Init /\ [][Next]_vars

-------------------------------------------------------------------------------
(* What the contract keeps true. *)

\* Every variable holds a value of its Solidity type; the clock is set.
TypeOK ==
  /\ owner \in Wallet \cup {NoWallet}
  /\ productCount \in ProductId
  /\ products \in [ProductId -> Product]
  /\ manufacturers \in [Wallet -> Manufacturer]
  /\ now \in 1 .. MaxTime

\* A slot after a mint under its own number, and a slot no mint has filled.
Filled(id) ==
  /\ products[id].id = id
  /\ products[id].region = HubRegion
  /\ products[id].currentOwner # NoWallet
  /\ products[id].activationDate \in 1 .. now

Unfilled(id) == [products[id] EXCEPT !.history = << >>] = BlankProduct

\* The minted products are exactly the ids 1 .. productCount, each filled in
\* under its own id and for this hub's region; every other slot is blank but
\* for its history (the counter and the slot it selects, sol:73-86, 105-118).
IdsAreDense ==
  \A id \in ProductId :
    IF id \in 1 .. productCount THEN Filled(id) ELSE Unfilled(id)

\* A history, written by mints and logs of any number of owners, reads in the
\* order of time and never ahead of the chain (block.timestamp, sol:125, 137).
Chronological(h) ==
  \A j \in 1 .. Len(h) :
    /\ h[j].timestamp <= now
    /\ \A i \in 1 .. j : h[i].timestamp <= h[j].timestamp

HistoryChronological == \A id \in ProductId : Chronological(products[id].history)

\* Products are activated in the order of their ids, batches included.
ActivationOrder ==
  \A i, j \in 1 .. productCount :
    i <= j => products[i].activationDate <= products[j].activationDate

\* The initial step of a product is written once, by the mint itself: same
\* block, same wallet; no product has two and no unminted id has one
\* (batchMintWithLogs pushes it in the loop that fills the product, sol:121).
InitLogOf(id) ==
  LET h == products[id].history IN
  \A i \in 1 .. Len(h) : h[i].kind = "init" =>
    /\ id \in 1 .. productCount
    /\ h[i].timestamp = products[id].activationDate
    /\ h[i].actor = products[id].currentOwner
    /\ \A j \in 1 .. Len(h) : h[j].kind = "init" => j = i

InitLogWithMint == \A id \in ProductId : InitLogOf(id)

\* Once ownership is renounced nothing on the hub can be minted, logged or
\* owned again: every writing function but registerManufacturer is onlyOwner.
RenouncedFrozen ==
  [][owner = NoWallet => UNCHANGED <<owner, productCount, products>>]_vars

\* The contract keeps the promise of the provenance ledger: labels issued in
\* sequence and unalterable, histories that only grow at their end, whichever
\* mixture of single mints, batches and logs is called.
Label(id) == [products[id] EXCEPT !.history = << >>]

Ledger == INSTANCE ProvenanceLedger WITH
  Number  <- ProductId,
  issued  <- [id \in 1 .. productCount |-> Label(id)],
  journal <- [id \in ProductId |-> products[id].history]

LedgerSpec == Ledger!Spec

\* Not kept: "Thêm ngay nhật ký khởi tạo đồng thời" (sol:120), the initial step
\* is added with the mint and so opens the history of a batch-minted product.
\* addProductionLog accepts an id that is not minted yet, and the mint inherits
\* what is there.
HistoryOpensWithInit ==
  \A id \in ProductId : LET h == products[id].history IN
    (\E i \in 1 .. Len(h) : h[i].kind = "init") => h[1].kind = "init"
-------------------------------------------------------------------------------
===============================================================================

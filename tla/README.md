# Trace Item Root: specifications, model checks and proofs

This directory holds TLA+ specifications of the traceability system in `../src`: an Ethereum
contract per hub (Vietnam, Australia), a React front end whose pages drive it, a Node backend with
one database per hub, and a relayer that copies a Cosmos chain into those databases. TLC checks the
specifications on small instances, TLAPS proves the safety properties for every instance.

## Inventory

| part | source | state | operations | what is hard |
|---|---|---|---|---|
| hub contract | `contracts/TruyXuatNguonGoc.sol` | products, histories, manufacturers, `productCount`, owner | register, mint, batch mint, add a log, transfer and renounce ownership | a counter shared by two kinds of mint, ten parallel arrays in one loop, logs on ids that are not minted, calls of several wallets in one block |
| admin approval | `frontend/src/components/AdminApproval.jsx` | rows shown, `loadingId`; per click a closure over hub and row | list, approve (mint, Cosmos, database), refresh by timer | three awaited stages, two administrators, hub switch, reload between stages, answers that fail or are lost |
| dashboard, session | `App.js`, `LoginGate.jsx`, `Sidebar.jsx` | `localStorage` (role, region, pending trace); current hub, tab, role, trace id | log in and out, reload, switch hub, change tab, open an item, hand a trace over | a pending trace that survives reloads and is taken once, tabs offered in one file and rendered in another, closures of the hub or the session left behind |
| Cosmos relayer | `backend/app.js` `syncFromCosmos` | two databases of documents | a run every ten seconds: read products, read steps, upsert one by one | runs overlap, two snapshots, no unique index, failure or restart half way, a value that cannot be cast |
| backend reads | `backend/app.js` routes | none | trace by region and id, products, pending requests | region and id arrive as strings; two queries that are not one snapshot |
| trace clients | `TraceView.jsx`, `ItemDetail.jsx`, `ProductTable.jsx`, `Overview.jsx` | form, document shown, `loading`, status | fetch on mount, on each change of id or hub, on a button | answers in the wrong order, error answers shown as data, a spinner nobody ends |
| QR label and scanner | `ProductTable.jsx`, `ScanCode.jsx` | decoded id and hub | print, scan, open | the region in the label is not the one the scanner expects |
| Excel import | `ImportExcel.jsx`, `ProductRow.jsx` | rows, page, open editors, step of the screen | parse, edit, delete, turn the page, mint in chunks of 50 | a chunk that fails after others were minted, a loop whose tab is left, a second start, steps shared by the copy under edit |
| business registration | `RegisterBiz.jsx` | form, `loading` | register on the hub, post the identity to Cosmos | the account asked for twice, a component left while its call runs, a second stage that no retry reaches |
| add-step form | `AddStep.jsx` | form, `loading`, status | transaction, then bridge call, then a timer that opens the trace | retry of a first stage that succeeded, a timer that outlives its tab and session |
| request form | `BusinessRequestForm.jsx` | form, `loading`, status | post a request for approval | an answer that is lost, fields typed into while the post runs |
| Sydney node | `cosmos-aus-node/sydney-relayer.js`, `SydneyNode.jsx` | none | reads of the Vietnamese hub | product and history are two reads |
| Cosmos module | `tracechain/x/tracechain` | parameters | update by the authority, query, genesis | authority comparison, export and import |
| zero-height export | `tracechain/app/export.go` | the whole application state | withdraw, reset, rebuild | order of destructive steps |
| testnet commands | `tracechain/cmd/tracechaind/cmd/testnet*.go` | files of the nodes | create and start | ports and stakes of the nodes |
| deployment | `migrations/2_deploy_contracts.js` | addresses | deploy one contract per hub | one address in the committed file |

How they interact: pages call the contract through the browser's wallet and await the receipt; they
call the backend and the Cosmos bridge over HTTP; the relayer polls the Cosmos chain and writes the
databases; the read routes answer from the databases. There is no lock, transaction or queue
anywhere: whatever order the awaits resolve in is the order things happen.

What makes each part correct:

- contract: ids are dense and issued in order, a label never changes, histories only grow and are in
  order of time, the initial step comes from the mint, an abandoned contract is frozen;
- approval: the three stages are never seen out of order, no row is locked for ever, a minted request ends
  up approved when the servers answer; that a request is minted on its own hub is left to the user, who may
  turn the hub selector under the rows of the hub before (Findings);
- relayer: a document shows something the chain had; without overlap there is one document per id and no
  falling back, but for the history of a product when the chain answers without a list; and the databases
  catch up in the end;
- registration: Cosmos identifies registered businesses only, under the wallet that registered them,
  and the button belongs to the call of its page;
- session: a pending trace is shown once and not lost;
- trace clients: what is on a screen is history of the chain, the status agrees with it, and whatever spins,
  but for the scanner, has a request that ends it; that an item page shows the product of its own URL fails
  (Findings);
- step and request forms: the bridge holds nothing the hub does not, success is said of nothing else,
  and a form is held by its own run only;
- import: what a run has minted is a prefix of its table however it ends, and when it is completed each row
  is on the hub with its name and its first step; that all data is on the chain, as its last message says,
  fails for a product with more steps (Findings).

## Modules

| module | role |
|---|---|
| `ProvenanceLedger` | abstract: labels are issued in sequence and never altered, journals only grow |
| `TruyXuatNguonGoc` | the contract: one action per public function, one per inherited `Ownable` function |
| `TruyXuatNguonGoc_proofs` | its invariants, action properties and refinement of the ledger |
| `AdminApproval` | pages, runs of `handleApprove` and of `fetchRequests`, chain, Cosmos, database |
| `TwoStage` | abstract: two stores that only grow, the second by what the first holds already |
| `AdminApproval_proofs` | its invariants, that it implements `TwoStage` twice (hub to Cosmos, hub to database) |
| `ProductReplica` | abstract: what is shown of a product moves forward, never ahead of the chain, or falls back to the bare product when the chain answered without its steps (`Spec`); where writers overtake one another it may fall back to any version, but never to nothing (`OverlapSpec`) |
| `CosmosSync` | the relayer's timer and its runs |
| `CosmosSync_proofs` | its invariants, and that it implements the replica: `Spec` without overlap, `OverlapSpec` with it |
| `RegisterBiz` | pages, runs of `handleRegister`, their wallets, the manufacturers of the hub, the identities on Cosmos |
| `RegisterBiz_proofs` | its invariants, and that it implements `TwoStage` (hub to Cosmos) for sole wallets |
| `Session` | one window: login gate, dashboard, sidebar, item page, over `localStorage`; operations only, no next-state relation |
| `Session_proofs` | what every operation of a window keeps true, for the proofs of the two modules over it |
| `TraceClients` | the screens that read, over a `Session`; composed with `CosmosSync` by `Sync == INSTANCE CosmosSync` |
| `TraceClients_proofs` | its invariants, for any number of requests, products and relayer runs |
| `ImportExcel` | the table, its editors and the loops of `handleExecuteMint`, a specification of its own |
| `ChunkedBatch` | abstract: a batch is fixed when it starts and done from the first item on, a chunk at a time |
| `ImportExcel_proofs` | its invariants, and that it implements `ChunkedBatch` |
| `Workshop` | the screens that write (step form, request form, import), over a `Session` and an `ImportExcel` |
| `Workshop_proofs` | its invariants, that it implements `ImportExcel` and, for its steps, `TwoStage` |
| `MCTruyXuatNguonGoc`, `MCAdminApproval`, `MCCosmosSync`, `MCRegisterBiz`, `MCTraceClients`, `MCWorkshop` | instances for TLC |

### Contract

`products`, `productHistory`, `manufacturers`, `productCount`, `owner` are the contract's storage, a
mapping being a total function whose unwritten slots hold blanks; `now` is `block.timestamp`. A
transaction is one step. `require` and `onlyOwner` are guards: a transaction that reverts changes
nothing and is not a step. What a mint writes into a product besides its id, owner's name and times
is one value of `Card`; the zero card is among them, since the code checks no string. A batch is one
step over a sequence of cards (`MaxBatch`). `uint256` is `0 .. MaxUint` and the increment of
`productCount` reverts at its end, as Solidity 0.8 does.

### Approval

A page is a mounted component; `requests`, `loadingId` are its `useState`, `currentHub` its prop.
A call's `pc` is the await that `handleApprove` stands at; its record is the closure (page, request,
hub). The timer's refresh runs the `fetchRequests` of that closure, so it fetches for the hub of the
click. `Mine` and `Revert` are the chain's and do not need the page. `ChangeTab` unmounts the page
while its calls go on; `Reload` ends them, and a transaction already sent stays (`orphan`). So it does when
`tx.wait()` rejects before the transaction is mined (`ReceiptFails`); after that it is one of the ends of
`MintFails`.
A server's answer is one of four: served; carried out but the answer lost; refused with an error
status; not reached. A `fetch` rejects for the second and fourth only, which is why `refused` goes on
to the next stage. Servers: `POST /api/cosmos/create-product` and `POST /api/requests/approve/:id`
are not in the backend of this commit, so they are environment, given by the constants
`CosmosAnswers` and `ApproveAnswers`: all four answers where safety is asked, none that serves where
the code is taken as shipped. A product is named by the call that minted it. `Call` and `Fetch` bound
how many runs there are; each is used once. The mount effect runs once, as in a production build; the
second run that `React.StrictMode` adds in development is one more fetch for the same hub.

### Relayer

`version[p]` is 0 for a product that is not on the chain and 1 + its number of steps after.
`docs[hub][p]` are the documents with `productId` p in the order `find` meets them, by their
versions. A run is `idle`, awaits the products, awaits the steps, is at the head of its loop, or has
an upsert that matched nothing and is about to insert: an upsert of MongoDB without a unique index
is atomic on a document it finds, and find-then-insert otherwise. An answer that has no list counts as an
empty one (`|| []`, `app.js:59, 62`): `GetNoProducts` leaves the run without a product to write, `GetNoSteps`
has it write every product bare, at version 1, whatever the database holds. `EndRun` is every way out of the
`try`; what was written stays. `FirstUncastable` says from which version on mongoose refuses a
product (an id that is no number, a step time that is no date). `Run` bounds the runs in flight: one
run is the case in which each ends within the timer's ten seconds.

### Registration

A browser has the accounts `AccountsOf` and one of them selected; the wallet is asked for it once to sign and
once more after the receipt, which is why a call records `sender` and `address`. `attached` says that the
component which started the call is still mounted: `setLoading` of one that is not changes nothing on the
screen. `ChangeTab`, `Reload`, `orphan`, `ReceiptFails` and the four answers are as in the approval, and the
wallet may refuse its address after the receipt (`RegisterFails`); `POST /api/cosmos/register-identity` is not
in the backend of this commit either. `handleRegister` checks no status, so every answer ends the call the
same way. A name and tax code are one value of `Profile`; the empty form returns early and is no step.

### Session

`storage` is `localStorage`, `window` what `App` and `Dashboard` hold. A window is at the gate, on a
dashboard, on the item page of a URL, "nowhere" (no route matches, as after `INSPECT` of an empty id) or
"crashed" (a component threw while rendering, and React took the tree down). `loggedIn` is read from the
storage when the document is loaded and is not the storage's role afterwards: that is why `Reload` and
`VisitItem` set it and `JumpItem` does not. `Opened` folds the mount of a dashboard and its first effects,
which take a pending trace out of the storage; `Entries` and `Rendered` are the two lists of tabs, the
sidebar's and `App`'s. `Roles`, `Visited` and `LoginHubs` bound which roles, entries and hubs the user
takes. One window is modelled: windows that share a `localStorage` read it at their mount only.

### Trace clients

`view` is the `useState` of the mounted component, `ask` its requests: sent, then answered by the backend
(`Serve`), then handled (`ShowTraced`, `ShowBody`, `ShowList`, `TableCrashes`), or broken on the way
(`Broken`). Requests are independent of each other, so they overtake freely. A component that is unmounted
drops its requests (`Mount`), since their setters reach nothing; one that stays keeps them, which is where an
answer for an id left behind can arrive. `Serve` answers what the database holds at that moment, or an error:
a `{ message }` body for a document not found and an `{ error }` body for a failed query are both `Failure`. A
document is an id, a hub and a version, as `CosmosSync` has it. A paste of the scanner is a request that needs
no server: the picture is read, and then it is decoded or it is no image. In the second case nothing is in
flight and `isScanning` stays (`StartDecoding`; there is no `img.onerror`, `ScanCode.jsx:33-38`), which is why
`LoadingIsAsked` leaves the scanner out. `Label` is what the table draws and `DecodedId`/`DecodedHub` what the
scanner makes of it, with `PadBase` for the four digits of the id: the relayer stores the region as 0 or 1
(`app.js:81-87`, cast by `models/Product.js:10`), the scanner looks for `VN` or `84` (`ScanCode.jsx:44-45`),
so a label of the Vietnamese hub decodes to the right id and the Australian hub, and one of the Australian hub
to id 10000 + n.

### Import

A row has every step of its lines in the file, in order, as the screen shows them; what `batchMintWithLogs` is
given of it is `MintedForm`: the first step, or `KHOI_TAO` where its description is empty. `minted` holds such
forms. `table` is the component's state (`step` 0 when it is not mounted), `editing` the name in the open editor of
each row; the step of a row is shared between the copy under edit and the table (`ProductRow.jsx:21-26`), so
`TypeStep` changes the table and `Cancel` does not take it back. A loop is a run of `handleExecuteMint`: its
closure's rows, how many are through, its transaction. `attached` is whether the component that started it is
still mounted; leaving the tab keeps the loop going, a reload cuts it, a transaction in the pool outlives
both. `minted` is a history variable: what the transactions of a loop have written, in order. The page number
has no bound in the code once rows are deleted, `MaxPage` is one. `HasContract` is TRUE in the run although
`App.js:106` passes no contract: with FALSE `handleExecuteMint` returns at once and nothing is minted.

### Workshop

`form` is the mounted form, `job` the runs of `handleAddStep` and `handleSubmit`, with the two mount points a
run may still reach: the form that started it (`form`) and the dashboard whose setters its timer calls
(`dashboard`). Tab changes detach the form, logouts and reloads the dashboard too. `onHub` and `stored` are
the two stages. The bridge gives an output only after its command ran, so an answer with an output is one that
stored the step and an answer without one stored nothing; of a lost answer either is possible. `POST /api/mint` and
`/api/requests/create` are not in the backend of this commit and are environment, with every way to answer.
The hub of a run is not followed: the trace its timer opens may be of a hub selected meanwhile. `errand`
splits the users into those at the forms and those at the import, which bounds the run and is no rule of the
code; the proofs hold for any `Errands`, all tabs included.

## Runs

| run | instance | checks | shows |
|---|---|---|---|
| `hub` | two wallets, two cards, one of them blank, ids and batches to 2, 3 steps | `TypeOK`, `IdsAreDense`, `HistoryChronological`, `InitLogWithMint`, `LedgerSpec` | storage stays consistent in every order of calls, and implements the ledger |
| `hub_orphan_step` | the same | `HistoryOpensWithInit` violated | a log on an id before its mint ends up in front of the product's first step |
| `approval` | two pages (one switches hubs and leaves), two requests, two calls, three fetches, all answers | `TypeOK`, `BusyRowIsRunning`, `StagesInOrder` | stages stay in order whatever fails and are never undone; a disabled button has a running call |
| `approval_fair` | a page for each hub, one of which turns its hub selector, leaves and reloads, three requests, two calls and fetches, fair calls, a database route that serves | `RowReleased`, `MintedIsApproved` | no row is locked for ever; no interleaving loses the last stage unnoticed |
| `approval_success` | answers as shipped: refused or unreachable | `SuccessIsComplete` violated | success is reported for nothing done |
| `sync` | two runs, two products, versions to 2, the first product uncastable from its first step on, answers with and without a list, fair | `TypeOK`, `DocsAreHistory`, `DuplicatesBounded`, `OverlapReplicaSpec`, `Converges` | documents are always of the chain's past; an id has no more of them than there are runs; nothing shown disappears; overlap and bare products heal once the chain is quiet and answers with its lists |
| `register` | two browsers, one with two accounts and one with one, two profiles, two calls, all answers | `TypeOK`, `ProfileIsRegistered`, `LoadingIsRunning`, `StrandedStays`, `StagesInOrder` | Cosmos knows registered businesses only, and a sole account under its own profile and after the hub; a registration stranded between the stages stays so; the button follows the call of its page |
| `register_switched` | one browser with two accounts | `IdentityIsConsistent` violated | an account selected in between is identified in place of the registered one |
| `tracing` | a customer's window, one product with versions to 2, one relayer run, two requests at once, a label of each kind | `TypeOK`, `LoadingIsAsked`, `ManualInOrder`, `StatusAgrees`, `AuditIsHandedOver` | every screen but the scanner spins for a request only, whatever overtakes what; the status agrees with what is shown; a pending trace is handed over |
| `item_mixed` | the same | `ItemOfItsChain` violated | an item page keeps the product of the other hub that the page before it asked for |
| `workshop` | a business with two jobs, or an administrator with a table of three rows, one of two lines and one without a description, chunks and pages of two, one loop; fair awaits | `TypeOK`, `MintedIsPrefix`, `MintingIsRunning`, `SpinsForAReason`, `LoadingIsRunning`, `CompletedIsMinted`, `RunsEnd`, `TraceIsOfThisSession`, `StagesInOrder`, `MintsInChunks` | stages and chunks stay in order, a completed table has each row on the hub with its first step, buttons follow their own run, and runs end |
| `import_completed` | a table of two rows, the first with two different steps | `AllDataIsMinted` violated | "all data" is reported although only the first line of a product was sent |

Some properties have a theorem and no run of their own. `ApprovedWasMinted`, `CosmosBehindEthereum`,
`SoleIsConsistent` and the first half of `CosmosBehindHub` follow from the `StagesInOrder` of their module,
which says more; `ActivationOrder`, `RenouncedFrozen`, `NotRepeated`, `ShownIsHistory` (which carries
`DocsAreHistory` of the relayer to the screens) and, without overlap, `IdIdentifies` and `ReplicaSpec` are
proved for every instance. `ReplicaSpec` says more than `OverlapReplicaSpec` only from the third version on,
where there is a history between the bare product and the newest to fall back to: under the screens of
`tracing` that is too large a run, and the relayer of `sync` overlaps. What a run checks besides is kept to
what only several actors or steps can break.

Bounds. Two wallets are enough for every authorisation question of the contract, which compares one caller
with one owner. Two ids and batches of two reach the counter's limit, a batch that crosses it and a log on a
neighbour; the constraint of three steps per history leaves a log before, with and after a mint. Two calls are
what two clicks need to meet on one row, two rows of one page or two pages; three fetches cover mount, switch
and timer; the fair run has two, which are the mounts of two pages or the mount and the switch of one. Two
overlapping runs are the least that race, and two products put one behind another that cannot be cast. Two
requests of a screen are what overtaking needs, and one product with two versions has an old answer and a new
one; an id that no product has comes from the labels. Three rows, the first of two lines, in chunks and pages
of two make a full and a short last chunk, a second page and a page that a deletion empties; two jobs are an
old form's and a new one's. Two calls of a registration are an old component's and a new one's, or two
browsers'; two accounts of a browser are the one that signs and the one selected next. Every pass run is
exhaustive within its bounds, and the safety properties are proved without them.

Fairness. `AdminApproval!FairSpec` is weak fairness of each call: the wallet, chain and server each answer or
fail in the end; clicks, tab changes and fetches are not forced. `CosmosSync!FairSpec` is assumed of one of the
runs that overlap only: the others may hang or fail for ever. Of that one it is weak for the timer, the end of
a loop and a cast error, which nothing can prevent for ever, and strong for the steps that a failed request or
a restart can cut short again and again: it says that what is retried for ever is not failed for ever. Without
it nothing forces a chain to answer. `Converges` supposes besides, as its premise, that from
some time on the chain answers with its lists: where it leaves them out again and again (`Forgets`) the
histories come and go with it, and nothing in the code keeps them. `Workshop!FairSpec` is weak fairness of
what each job and each loop does next: every await of a handler resolves or rejects in the end, be it the
wallet, a receipt or a `fetch`; a user who never answers the wallet is outside it. What the user does is not
forced.

Deadlock is checked for the relayer, whose timer never stops, and for the registration, whose form
can always be sent. A contract at its bounds and an approval with its calls used up really stop, and so does a
window that has crashed or whose jobs are used up; those configurations say `CHECK_DEADLOCK FALSE`.

## Proofs

TLAPS checks the following for every value of the constants that meets the named assumptions (which
say that bounds are natural numbers, that constants are functions of their domains, that `None` is
nobody).

- `TruyXuatNguonGoc_proofs`: `TypeCorrect`, `IdsDense`, `HistoryInOrder`, `InitLogOnce`,
  `ActivatedInOrder`, `RenouncedIsFinal`, `ImplementsLedger`. Each state
  property is inductive together with the type invariant, the dense ids and the clock; frame lemmas
  say what a step leaves alone, so that each property is argued on the two or three actions that
  touch it. `ImplementsLedger` maps a mint of n products to n labels in one `Issue` and a log to a `Record`.
  `LabelIsForEver` and `EntryIsForEver` say of a label under a number, and of an entry at its place in a
  history, that once there they are there ever after; both rest on the lemma of how a step may move a
  history. `OpensUnlessLoggedEarly` is the positive half of the finding `hub_orphan_step`: in a behaviour in
  which an id is not logged before it is minted (`LogsAfterMint`), its history opens with the initial step.
- `AdminApproval_proofs`: `TypeCorrect`, `ApprovedMinted`, `CosmosFollows`, `BusyRows`. The properties relate
  stored data to calls that may be over, so none is inductive: `StageInv` adds, for each place a call can
  stand at, which stages it has behind it (past the receipt it is minted, past Cosmos and so on) and that a
  minted call keeps its request. `ImplementsStages` refines `TwoStage` twice: the mints and Cosmos, the
  requests minted for and the database; `WhoWrites` names the one step that writes each store, and `StageInv`
  gives it what it copies. `SuccessComplete` is the positive half of the finding `approval_success`: where no
  server answers with an error status, a call that reports success is complete. `ServedInv` says which stages
  a call past each of them has behind it; lost answers and unreachable servers stay allowed, and a reload only
  cuts.
- `CosmosSync_proofs`: `TypeCorrect`, `DocumentsAreHistory` for any number of overlapping runs;
  `OneDocumentPerId` and `ImplementsReplica` for runs that do not overlap. `SnapshotInv` says that a
  snapshot in flight is never ahead of the chain, `AloneInv` that, with one run, it is never behind
  what is shown and that an upsert about to insert still finds nothing. With overlap three things are left,
  each for any number of runs. `BoundedDuplicates` needs `Run` to be finite: by `BoundInv` the documents of an id
  and the runs about to insert one are together at most the runs there are, since a run gets to its insert
  only while there is no document yet. `OverlapImplementsReplica` refines `OverlapSpec`; a bare
  product written over a history is one of its falls, and the only one of `Spec` (`Forget`).
- `RegisterBiz_proofs`: `TypeCorrect`, `ProfileRegistered`, `SoleConsistent`,
  `ButtonFollowsCall`. `RegisteredInv` adds that a call which has its receipt
  has its registration, and rests on the lemma that no step changes a registration; `SoleInv`
  adds that a call signs and is identified with accounts of its browser; `ButtonInv` that a page has at
  most one call attached, without which `finally` could enable the button of another. `ImplementsStages`
  refines `TwoStage` for sole wallets, and `StrandedForEver` proves that no retry helps: a sole wallet
  that is registered, not identified and without a call past its receipt is so after every step.
  `OneAccountConsistent` is the positive half of `register_switched`: with one account in every browser
  identities are consistent.
- `Session_proofs` holds lemmas only. `SessionInv` adds to the properties of a window that it is logged in
  exactly when the storage has a role, that an item page has an id, and that a trace is pending only while
  logged out; `SessionStepInv` says that every operation keeps it and hands a pending trace over. Both modules
  over `Session` rest on it.
- `TraceClients_proofs`: `TraceTypes`, `PendingIsTaken`, `AuditHandedOver`, `ScreensShowHistory`,
  `SpinnersAreAsked`, `OneManualTrace`, `StatusIsTrue`, for any number of requests and of overlapping relayer
  runs; `ScreensOnlyRead` (the whole implements `CosmosSync`) and, for runs that do not overlap,
  `OneDocumentUnderScreens` and `ReplicaUnderScreens`, for those that do `DuplicatesBoundedUnderScreens` and
  `OverlapReplicaUnderScreens`. The invariant is `SessionInv`, the relayer's (cited from `CosmosSync_proofs`
  through an instance, with `HomeOK`: a product's documents are in the database of its own hub) and
  `ScreensInv`: every answer on its way is history, a found document answers every request that names an id,
  the trace view has only such requests and, opened without an id, one at most.
- `ImportExcel_proofs`: `ImportTypes`, `MintedPrefix`, `MintingRuns`, `SpinnerHasReason`, `CompletedMinted`,
  `ImplementsBatch`. `ImportInv` says what a loop has minted by the place of its transaction (up to `at`
  before, up to `ChunkEnd` once mined), which loop owns the table while it is minting, and that a table being
  minted is not edited, which is why the rows that a completed table shows are those it was minted from
  (`CompletedMinted`). `ImplementsBatch` maps `MineChunk` to a chunk of `ChunkedBatch`, whose next chunk
  begins where the loop stands because of what `ImportInv` says is minted.
- `Workshop_proofs`: `WorkshopImports` proves `Spec => ImportSpec`, each step of the window being a step of
  the import or a stutter, and `WorkshopImportSafe` and `WorkshopBatches` carry the import's properties over;
  `WorkshopTypes`, `StepsInOrder`, `ButtonIsOfOneJob`, `TraceOfThisSession` rest on `WorkshopInv`, which says
  per place of a job what its transaction and its two stages are, and that a form in use has one job.
  `ImplementsStages` refines `TwoStage`: the steps on a hub and those on Cosmos.

Only model-checked: the liveness properties (`RowReleased`, `MintedIsApproved`, `Converges`, `RunsEnd`), which
rest on fairness and are outside the prover's reach. What safety can say of them is proved: `BusyRows` (a row
that waits has a call that can end), `ButtonIsOfOneJob` and `SpinnerHasReason`, `StrandedForEver`.
Nothing is claimed by induction over data; the only sequences that matter, histories, tables and chunks, are
argued one step at a time.

## Findings

- A log can be recorded on an id before it is minted and then precedes the initialisation step
  (`hub_orphan_step`).
- The approval's success message does not depend on the answers of two of its three stages, and the
  backend serves neither (`approval_success`).
- An account selected while the registration waits for its receipt is identified on Cosmos in place of
  the one that registered (`register_switched`).
- An item page may show, under the badge of one chain, the product of the other (`item_mixed`).
- The import says that all data is on the blockchain while it has sent the first line of each product only
  (`import_completed`).

What the code does besides, with a property that states its limits instead of a run that refutes it:

- The hub selector (`App.js:83`) changes the contract an approval mints on (`AdminApproval.jsx:35`) at once and
  the rows only when their answer arrives: a click in between mints a Vietnamese request on the Australian
  contract, or the other way round, and marks it approved. Both approval runs have a page that does so; the
  stages of such a call are in order all the same.
- A click on a second row enables the first again while its call runs, and two administrators may mint one
  request twice; no stage of either is out of order.
- Overlapping runs of the relayer leave two documents under one id, of which later runs update one
  (`app.js:89, 148`; no unique index in `models/Product.js`). The bound of `DuplicatesBounded` is attained.
- A registration whose second stage fails once cannot be completed by trying again: the contract refuses the
  second registration before the identity is posted (`StrandedStays`, `StrandedForEver`).
- A lower-case `aus` in the URL of an item is shown as the Australian hub (`ItemDetail.jsx:11`) and answered
  from the Vietnamese database (`app.js:46-50`); `ItemOfItsChain` is stated for the two hubs as the code spells
  them.

Observed while modelling, without a property: a label of the product table does not lead back to its product
(above, under Trace clients); a picture that is no image leaves the scanner spinning (`ScanCode.jsx:33-38`); a
sheet that cannot be read leaves the import at its spinner, and so does [FATAL]; the export of an import marks
every row `ON_CHAIN_VERIFIED`, minted or not, and calls `split` on codes that a sheet may hold as numbers
(`ImportExcel.jsx:137, 143`); a cancelled edit keeps what was typed into the step; after deletions the table
may stand on a page past its end.

## Not modelled

- Layout, wording and logging, the block height of the overview, `MapView.jsx`, `BlockchainVisualizer.jsx`;
  `AdminMint.jsx`, which no page mounts; the sample data of `excel.py`; the export of the import, which writes
  a file. The second run of effects that `React.StrictMode` adds in development.
- Windows that share one `localStorage`, beyond the two pages of the approval and of the registration.
- The committed `addresses.json`, which gives both hubs one contract, where the model has one for each, as
  the migration deploys them.
- The Sydney node and its page: reads of the contract whose result is logged, no state depends on them.
- The Cosmos application: its module `tracechain` keeps one parameter set behind an authority check, the
  wiring registers library modules, the zero-height export calls into library modules whose state is
  not in this repository, and the testnet commands write files once. The products and steps that the
  relayer reads live in a Cosmos module that is not in this repository either: the chain is an environment
  that creates products and appends steps, and its answers are taken to fit one page.

## Plan

The order was by how much of the system's promise rests on the part: the contract, approval, relayer and
registration with their abstractions and proofs first, then the session with the screens that read
(`TraceClients`, composed with `CosmosSync`) and the screens that write (`Workshop`, composed with
`ImportExcel`). All of it is done. What could follow:

1. two windows over one `storage` in `TraceClients`: a login in one and a reload in the other;
2. the hub of a job in `Workshop`, with the contract's batch mint (`TruyXuatNguonGoc`) in the place of
   `MineChunk`, so that two loops or two hubs mint into one counter;
3. that the spinners of the reading screens end, but for the scanner, under fairness of `Serve` and of the answers.

Left to prove: that a hub's mints in `AdminApproval` and the chunks of `ImportExcel` are issues of the ledger of
`TruyXuatNguonGoc`, which needs item 2; and the leads-to properties, which stay with TLC.

Runs are kept few: a module has one exhaustive run in which its invariants, action properties and, where
its states allow, its liveness are checked together; a second instance is made only where a property
needs other constants.

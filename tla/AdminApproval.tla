----------------------------- MODULE AdminApproval -----------------------------
(***************************************************************************)
(* Approving product requests (frontend/src/components/AdminApproval.jsx): *)
(* administrators' pages list the pending requests of the hub they show,   *)
(* and a click runs handleApprove, which mints on that hub's contract,     *)
(* creates the product on Cosmos and marks the request approved, with an   *)
(* await between each of the three.  Pages, calls, fetches, the chain and  *)
(* the servers interleave between awaits.                                  *)
(*                                                                         *)
(* A product is identified with the call that minted it.                   *)
(***************************************************************************)
EXTENDS Naturals

CONSTANTS
  Page,            \* mounted AdminApproval components, one per browser tab
  Request,         \* product requests in the databases
  Call,            \* bound: runs of handleApprove
  Fetch,           \* bound: runs of fetchRequests
  Address,         \* deployed hub contracts
  None,
  RegionOf,        \* the hub a request asks for; also the database it is in
  AddressOf,       \* contracts/addresses.json: hub -> address
  LoginRegion,     \* page -> the hub its session was opened for
  HubSwitchers,    \* pages whose user changes the hub selector
  Leavers,         \* pages whose user leaves the view or reloads the tab
  CosmosAnswers,   \* what POST /api/cosmos/create-product may do
  ApproveAnswers   \* what POST /api/requests/approve/:id may do

Hub == {"VN", "AUS"}

\* The server carries the request out and the page hears of it, carries it out
\* and the connection breaks, answers an error status, or is not reached.
Answers == {"served", "lost", "refused", "unreachable"}

ASSUME NoneAssumption    == None \notin Request \cup Page
ASSUME RegionAssumption  == RegionOf \in [Request -> Hub]
ASSUME AddressAssumption == AddressOf \in [Hub -> Address]
ASSUME PageAssumption    == /\ LoginRegion \in [Page -> Hub]
                            /\ HubSwitchers \cup Leavers \subseteq Page
ASSUME AnswerAssumption  == CosmosAnswers \cup ApproveAnswers \subseteq Answers

VARIABLES
  status,      \* request -> its status in the database
  onHub,       \* address -> products minted there
  onCosmos,    \* products created on Cosmos
  currentHub,  \* page -> the currentHub prop
  requests,    \* page -> the rows shown
  loadingId,   \* page -> the row whose button is disabled
  call,        \* call -> its place in handleApprove and its closure
  fetch        \* fetch -> its place in fetchRequests and its closure

vars == <<status, onHub, onCosmos, currentHub, requests, loadingId, call, fetch>>
page == <<currentHub, requests, loadingId>>

\* Where a call stands: "sign" awaits the wallet, "pool" and "mined" and
\* "reverted" await the receipt, "cosmos" and "approve" await the two servers,
\* "refresh" has shown success and waits for the timer, "done" and "failed" have
\* returned; "orphan" is a pending transaction that no call awaits any more, and
\* "gone" all else that a reload has cut.
Waiting == {"sign", "pool", "mined", "reverted", "cosmos", "approve"}
CallPc  == Waiting \cup {"idle", "refresh", "done", "failed", "gone", "orphan"}
FetchPc == {"idle", "vn", "aus", "answer", "over"}

\* page is None once the component that started the run is no longer mounted.
CallRecord  == [pc : CallPc, page : Page \cup {None},
                req : Request \cup {None}, hub : Hub \cup {None}]
FetchRecord == [pc : FetchPc, page : Page \cup {None},
                hub : Hub \cup {None}, data : SUBSET Request]

IdleCall  == [pc |-> "idle", page |-> None, req |-> None, hub |-> None]
IdleFetch == [pc |-> "idle", page |-> None, hub |-> None, data |-> {}]

PendingAt(hub) == {r \in Request : RegionOf[r] = hub /\ status[r] = "pending"}

-------------------------------------------------------------------------------
Init ==
  /\ status = [r \in Request |-> "pending"]
  /\ onHub = [a \in Address |-> {}]
  /\ onCosmos = {}
  /\ currentHub = LoginRegion
  /\ requests = [p \in Page |-> {}]
  /\ loadingId = [p \in Page |-> None]
  /\ call = [c \in Call |-> IdleCall]
  /\ fetch = [f \in Fetch |-> IdleFetch]

\* fetchRequests of the closure that captured hub starts, for page p.
StartFetch(f, p, hub) ==
  /\ fetch[f].pc = "idle"
  /\ fetch' = [fetch EXCEPT ![f] =
                 [pc |-> "vn", page |-> p, hub |-> hub, data |-> {}]]

\* The effect of a mounted page has run once it started a fetch.
Mounted(p) == \E f \in Fetch : fetch[f].page = p

LoadList(f, p) ==
  /\ ~ Mounted(p)
  /\ StartFetch(f, p, currentHub[p])
  /\ UNCHANGED <<status, onHub, onCosmos, page, call>>

\* GET /api/requests/pending: two queries, one after the other.
FindVN(f) ==
  /\ fetch[f].pc = "vn"
  /\ fetch' = [fetch EXCEPT ![f].pc = "aus", ![f].data = PendingAt("VN")]
  /\ UNCHANGED <<status, onHub, onCosmos, page, call>>

FindAUS(f) ==
  /\ fetch[f].pc = "aus"
  /\ fetch' = [fetch EXCEPT ![f].pc = "answer", ![f].data = @ \cup PendingAt("AUS")]
  /\ UNCHANGED <<status, onHub, onCosmos, page, call>>

\* The rows of an answer that a fetch for this hub keeps.
Shown(data, hub) == {r \in data : RegionOf[r] = hub}

ShowList(f) ==
  /\ fetch[f].pc = "answer"
  /\ fetch' = [fetch EXCEPT ![f].pc = "over"]
  /\ requests' = IF fetch[f].page = None THEN requests
                 ELSE [requests EXCEPT ![fetch[f].page] =
                         Shown(fetch[f].data, fetch[f].hub)]
  /\ UNCHANGED <<status, onHub, onCosmos, currentHub, loadingId, call>>

FetchFails(f) ==
  /\ fetch[f].pc \in {"vn", "aus", "answer"}
  /\ fetch' = [fetch EXCEPT ![f].pc = "over"]
  /\ UNCHANGED <<status, onHub, onCosmos, page, call>>

\* The hub selector of the dashboard: the prop changes, the effect fetches for
\* the new hub, the rows and the running calls stay.
SwitchHub(f, p, hub) ==
  /\ p \in HubSwitchers
  /\ Mounted(p)
  /\ hub # currentHub[p]
  /\ currentHub' = [currentHub EXCEPT ![p] = hub]
  /\ StartFetch(f, p, hub)
  /\ UNCHANGED <<status, onHub, onCosmos, requests, loadingId, call>>

\* handleApprove up to its first await; the button of a row is disabled while
\* loadingId is that row's id.
Click(c, p, r) ==
  /\ call[c].pc = "idle"
  /\ r \in requests[p]
  /\ loadingId[p] # r
  /\ loadingId' = [loadingId EXCEPT ![p] = r]
  /\ call' = [call EXCEPT ![c] =
                [pc |-> "sign", page |-> p, req |-> r, hub |-> currentHub[p]]]
  /\ UNCHANGED <<status, onHub, onCosmos, currentHub, requests, fetch>>

\* The wallet signs and sends mintFromOffchain.
SendTx(c) ==
  /\ call[c].pc = "sign"
  /\ call' = [call EXCEPT ![c].pc = "pool"]
  /\ UNCHANGED <<status, onHub, onCosmos, page, fetch>>

\* The chain executes the transaction, whether or not the page is still there.
Mine(c) ==
  /\ call[c].pc \in {"pool", "orphan"}
  /\ call' = [call EXCEPT ![c].pc = IF @ = "pool" THEN "mined" ELSE "gone"]
  /\ onHub' = [onHub EXCEPT ![AddressOf[call[c].hub]] = @ \cup {c}]
  /\ UNCHANGED <<status, onCosmos, page, fetch>>

Revert(c) ==
  /\ call[c].pc \in {"pool", "orphan"}
  /\ call' = [call EXCEPT ![c].pc = IF @ = "pool" THEN "reverted" ELSE "gone"]
  /\ UNCHANGED <<status, onHub, onCosmos, page, fetch>>

\* Mutant: the receipt's status is not looked at.
ReceiptOfAnyStatus(c) ==
  /\ call[c].pc \in {"mined", "reverted"}
  /\ call' = [call EXCEPT ![c].pc = "cosmos"]
  /\ UNCHANGED <<status, onHub, onCosmos, page, fetch>>

\* tx.wait() returns the receipt.
Receipt(c) ==
  /\ call[c].pc = "mined"
  /\ call' = [call EXCEPT ![c].pc = "cosmos"]
  /\ UNCHANGED <<status, onHub, onCosmos, page, fetch>>

\* Mutant: finally resets loadingId to false.
ReleaseToFalse(c) ==
  loadingId' = IF call[c].page = None THEN loadingId
               ELSE [loadingId EXCEPT ![call[c].page] = FALSE]

\* finally: setLoadingId(null), whichever row is loading by now.
Release(c) ==
  loadingId' = IF call[c].page = None THEN loadingId
               ELSE [loadingId EXCEPT ![call[c].page] = None]

\* Mutant: the reset is at the end of try, not in finally.
FailKeepsLoading(c) ==
  /\ call' = [call EXCEPT ![c].pc = "failed"]
  /\ UNCHANGED loadingId

\* catch, then finally.
Fail(c) ==
  /\ call' = [call EXCEPT ![c].pc = "failed"]
  /\ Release(c)

\* The wallet is missing, refuses or cannot estimate; the receipt says the
\* transaction reverted; or, mined, it does not come.
MintFails(c) ==
  /\ call[c].pc \in {"sign", "mined", "reverted"}
  /\ Fail(c)
  /\ UNCHANGED <<status, onHub, onCosmos, currentHub, requests, fetch>>

\* tx.wait() rejects while the transaction is pending, which it stays.
ReceiptFails(c) ==
  /\ call[c].pc = "pool"
  /\ call' = [call EXCEPT ![c].pc = "orphan"]
  /\ Release(c)
  /\ UNCHANGED <<status, onHub, onCosmos, currentHub, requests, fetch>>

\* Mutant: an error status of the Cosmos bridge ends the call as a success.
CreateOnCosmosReturns(c, answer) ==
  /\ call[c].pc = "cosmos"
  /\ onCosmos' = IF answer \in {"served", "lost"} THEN onCosmos \cup {c}
                 ELSE onCosmos
  /\ IF answer = "served"
     THEN call' = [call EXCEPT ![c].pc = "approve"] /\ UNCHANGED loadingId
     ELSE call' = [call EXCEPT ![c].pc = "refresh"] /\ Release(c)
  /\ UNCHANGED <<status, onHub, currentHub, requests, fetch>>

\* POST /api/cosmos/create-product: an error status is not looked at.
CreateOnCosmos(c, answer) ==
  /\ call[c].pc = "cosmos"
  /\ onCosmos' = IF answer \in {"served", "lost"} THEN onCosmos \cup {c}
                 ELSE onCosmos
  /\ IF answer \in {"served", "refused"}
     THEN call' = [call EXCEPT ![c].pc = "approve"] /\ UNCHANGED loadingId
     ELSE Fail(c)
  /\ UNCHANGED <<status, onHub, currentHub, requests, fetch>>

\* POST /api/requests/approve/:id, then the success message, the timer and
\* finally: again an error status is not looked at.
ApproveRequest(c, answer) ==
  /\ call[c].pc = "approve"
  /\ status' = IF answer \in {"served", "lost"}
               THEN [status EXCEPT ![call[c].req] = "approved"]
               ELSE status
  /\ IF answer \in {"served", "refused"}
     THEN call' = [call EXCEPT ![c].pc = "refresh"] /\ Release(c)
     ELSE Fail(c)
  /\ UNCHANGED <<onHub, onCosmos, currentHub, requests, fetch>>

\* The two-second timer runs the fetchRequests the call closed over.
Refresh(c, f) ==
  /\ call[c].pc = "refresh"
  /\ call' = [call EXCEPT ![c].pc = "done"]
  /\ StartFetch(f, call[c].page, call[c].hub)
  /\ UNCHANGED <<status, onHub, onCosmos, page>>

\* The component of page p is unmounted: what it showed is lost and the answers
\* to its fetches are dropped.
Unmount(p) ==
  /\ p \in Leavers
  /\ Mounted(p)
  /\ requests' = [requests EXCEPT ![p] = {}]
  /\ loadingId' = [loadingId EXCEPT ![p] = None]
  /\ fetch' = [f \in Fetch |-> IF fetch[f].page = p
                               THEN [fetch[f] EXCEPT !.page = None]
                               ELSE fetch[f]]
  /\ UNCHANGED <<status, onHub, onCosmos>>

\* Another entry of the sidebar and back: the running calls go on unseen.
ChangeTab(p) ==
  /\ Unmount(p)
  /\ call' = [c \in Call |-> IF call[c].page = p
                             THEN [call[c] EXCEPT !.page = None]
                             ELSE call[c]]
  /\ UNCHANGED currentHub

\* What a reload leaves of a call: its transaction, if it was sent and is not
\* mined yet.
Cut(pc) == CASE pc = "pool" -> "orphan"
             [] pc \in (Waiting \ {"pool"}) \cup {"refresh"} -> "gone"
             [] OTHER -> pc

Reload(p) ==
  /\ Unmount(p)
  /\ call' = [c \in Call |-> IF call[c].page = p
                             THEN [call[c] EXCEPT !.page = None, !.pc = Cut(@)]
                             ELSE call[c]]
  /\ currentHub' = [currentHub EXCEPT ![p] = LoginRegion[p]]

CallNext(c) ==
  \/ SendTx(c) \/ Mine(c) \/ Revert(c) \/ Receipt(c) \/ MintFails(c) \/ ReceiptFails(c)
  \/ \E answer \in CosmosAnswers : CreateOnCosmos(c, answer)
  \/ \E answer \in ApproveAnswers : ApproveRequest(c, answer)

FetchNext(f) == FindVN(f) \/ FindAUS(f) \/ ShowList(f) \/ FetchFails(f)

PageNext(p) ==
  \/ \E f \in Fetch : LoadList(f, p) \/ \E hub \in Hub : SwitchHub(f, p, hub)
  \/ \E c \in Call, r \in Request : Click(c, p, r)
  \/ ChangeTab(p) \/ Reload(p)

Next == \/ \E c \in Call : CallNext(c) \/ \E f \in Fetch : Refresh(c, f)
        \/ \E f \in Fetch : FetchNext(f)
        \/ \E p \in Page : PageNext(p)

Spec == Init /\ [][Next]_vars

\* The wallet, the chain and the servers answer every call sooner or later;
\* nothing forces anybody to click, nor the user to stay.
FairSpec == Spec /\ \A c \in Call : WF_vars(CallNext(c))

-------------------------------------------------------------------------------
(* What the approval keeps true. *)

\* Every variable holds a value of its kind.
TypeOK ==
  /\ status \in [Request -> {"pending", "approved"}]
  /\ onHub \in [Address -> SUBSET Call]
  /\ onCosmos \subseteq Call
  /\ currentHub \in [Page -> Hub]
  /\ requests \in [Page -> SUBSET Request]
  /\ loadingId \in [Page -> Request \cup {None}]
  /\ call \in [Call -> CallRecord]
  /\ fetch \in [Fetch -> FetchRecord]

Minted == UNION {onHub[a] : a \in Address}

\* The database says approved only of a request minted on a hub before, whatever
\* reloads, lost answers and other administrators did meanwhile (the order of the
\* three stages, AdminApproval.jsx:38-65).
ApprovedWasMinted ==
  \A r \in Request : status[r] = "approved" => \E c \in Minted : call[c].req = r

\* Cosmos holds no product that no hub contract holds: each one was created by a
\* call that had its own receipt (AdminApproval.jsx:49-53).
CosmosBehindEthereum == onCosmos \subseteq Minted

\* Approving implements its stages: products are created on Cosmos one by one out of
\* those minted, and requests approved one by one out of those that a minted product
\* was clicked for; no stage is ever undone, by whatever other administrators,
\* reloads and errors do (AdminApproval.jsx:38-65).
MintThenBridge  == INSTANCE TwoStage WITH first <- Minted, second <- onCosmos
MintThenApprove == INSTANCE TwoStage WITH
                     first  <- {call[c].req : c \in Minted},
                     second <- {r \in Request : status[r] = "approved"}
StagesInOrder == MintThenBridge!Spec /\ MintThenApprove!Spec

\* A disabled button has a reason: the row a page shows as loading is being
\* approved by a call of that page that has not returned (AdminApproval.jsx:26,
\* 73), so no row stays locked after an error.
BusyRowIsRunning ==
  \A p \in Page : loadingId[p] # None =>
    \E c \in Call : /\ call[c].page = p
                    /\ call[c].req = loadingId[p]
                    /\ call[c].pc \in Waiting

\* A disabled button is enabled again: the wallet, the chain or a server that
\* fails never locks a row for ever (finally, AdminApproval.jsx:72-74).
RowReleased ==
  \A p \in Page, r \in Request : loadingId[p] = r ~> loadingId[p] # r

\* A request whose mint has its receipt ends up approved, unless the page reports an
\* error or is reloaded: with a database route that serves, no interleaving of
\* calls, answers and views left drops the last stage (AdminApproval.jsx:47-65).
MintedIsApproved ==
  \A c \in Call, r \in Request :
    call[c].pc = "mined" /\ call[c].req = r ~>
      status[r] = "approved" \/ call[c].pc \in {"failed", "gone"}

\* Not kept: "Phê duyệt hoàn tất trên đa chuỗi." (AdminApproval.jsx:67), a call
\* that reports success has its product on both chains and its request approved.
SuccessIsComplete ==
  \A c \in Call : call[c].pc \in {"refresh", "done"} =>
    c \in Minted /\ c \in onCosmos /\ status[call[c].req] = "approved"
===============================================================================

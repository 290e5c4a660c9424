----------------------------- MODULE TraceClients -----------------------------
(***************************************************************************)
(* What a window reads of the backend: the trace view, the item page, the  *)
(* product table with its QR labels, the scanner and the overview, over the *)
(* databases that the relayer fills (CosmosSync).  A screen asks when it is *)
(* mounted and when an effect says so; the backend reads its database and  *)
(* the answer arrives in two steps, in any order or not at all.  A screen  *)
(* that is left drops its answers.                                         *)
(***************************************************************************)
EXTENDS Session, Naturals, Sequences, FiniteSets

CONSTANTS
  N, OriginOf, FirstUncastable, Run, MaxVersion,   \* of CosmosSync
  Ask,       \* bound: requests and decodings in flight at once
  Typed,     \* bound: the ids a user types
  Foreign,   \* QR codes that the product table did not draw
  NoCode,    \* a clipboard without one
  PadBase    \* what four digits can count

VARIABLES
  version, docs, run,   \* of CosmosSync
  view,                 \* the state of the mounted component
  ask,                  \* its requests
  clipboard             \* the QR code the user has taken a picture of

Sync == INSTANCE CosmosSync

vars    == <<storage, window, version, docs, run, view, ask, clipboard>>
chain   == <<version, docs, run>>
session == <<storage, window>>

Doc    == [id : Sync!Product, hub : Hub, version : Sync!Version]
Answer == [ok : BOOLEAN, docs : SUBSET Doc]

Nothing == [ok |-> TRUE, docs |-> {}]
Failure == [ok |-> FALSE, docs |-> {}]   \* a body { message } or { error }

\* id and hub are the form's of the trace view, or what the scanner decoded.
View == [id : Id \cup {NoId}, hub : Region \cup {""}, shown : Answer,
         loading : BOOLEAN, status : {"", "info", "success", "error"}]

BlankView == [id |-> NoId, hub |-> "", shown |-> Nothing, loading |-> FALSE,
              status |-> ""]

\* A code is a text for the region and the id in at least four digits.
Prefix == {"VN", "AUS", "0", "1", "84"}
Code   == [prefix : Prefix, id : Id]

AskRecord == [pc : {"idle", "sent", "answered", "read", "decode"},
              region : Region \cup Prefix \cup {""}, id : Id \cup {NoId},
              answer : Answer]

IdleAsk == [pc |-> "idle", region |-> "", id |-> NoId, answer |-> Nothing]
AllIdle == [q \in Ask |-> IdleAsk]

\* The component a window shows.
ScreenOf(w) == IF w.page = "dashboard" THEN w.tab ELSE w.page
Screen      == ScreenOf(window)
Lists       == {"products", "overview"}

\* A request for a list has no id.
Sent(region, id) == [IdleAsk EXCEPT !.pc = "sent", !.region = region, !.id = id]

\* getModels of a region as the URL spells it.
Db(region) == IF region = "AUS" THEN "AUS" ELSE "VN"

\* The label the product table draws for a document: its region, which the relayer
\* stores as 0 or 1, and its id.
Label(d) == [prefix |-> IF d.hub = "VN" THEN "0" ELSE "1", id |-> d.id]

\* The digits of a code in one number, those of its region included, and its hub.
DecodedId(code) ==
  code.id + PadBase * (CASE code.prefix = "1" -> 1 [] code.prefix = "84" -> 84
                         [] OTHER -> 0)

\* Mutant: the region is the prefix as it was read.
RawHub(code) == code.prefix

DecodedHub(code) == IF code.prefix \in {"VN", "84"} THEN "VN" ELSE "AUS"

ASSUME SyncAssumption ==   \* what CosmosSync assumes
  /\ N \in Nat /\ MaxVersion \in Nat
  /\ DOMAIN OriginOf = Sync!Product
  /\ FirstUncastable \in [Sync!Product -> Nat]
ASSUME ProductAssumption == Sync!Product \cup Typed \subseteq Id
ASSUME CodeAssumption ==
  /\ Foreign \subseteq Code
  /\ \A code \in Foreign \cup {Label(d) : d \in Doc} : DecodedId(code) \in Id

-------------------------------------------------------------------------------
Init ==
  /\ SessionInit
  /\ Sync!Init
  /\ view = BlankView
  /\ ask = AllIdle
  /\ clipboard = NoCode

\* A component as its first effects leave it, and its first request.
Fresh(w) ==
  LET s == ScreenOf(w) IN
  IF s = "trace"
  THEN [BlankView EXCEPT !.id = w.traceId, !.hub = w.hub,
                         !.loading = w.traceId # NoId,
                         !.status = IF w.traceId = NoId THEN "" ELSE "info"]
  ELSE [BlankView EXCEPT !.loading = s \in {"item", "products"}]

FirstAsk(w) ==
  LET s == ScreenOf(w) IN
  IF s \in Lists \/ s = "item" \/ (s = "trace" /\ w.traceId # NoId)
  THEN {[AllIdle EXCEPT ![q] = Sent(w.hub, IF s \in Lists THEN NoId ELSE w.traceId)]
          : q \in Ask}
  ELSE {AllIdle}

\* The old component is gone with its requests.
Mount == view' = Fresh(window') /\ ask' \in FirstAsk(window')

\* The button of an item page is there once the page has something to show.
Navigate ==
  /\ \/ \E role \in Roles, hub \in Hub, secret \in BOOLEAN : Submit(role, hub, secret)
     \/ \E region \in Region, id \in Typed : VisitItem(region, id)
     \/ \E tab \in Tab : ClickEntry(tab)
     \/ Logout \/ Reload \/ Return
     \/ ~ view.loading /\ view.shown # Nothing /\ OpenAudit
  /\ Mount
  /\ UNCHANGED <<chain, clipboard>>

\* The mounted component asks once more; the earlier requests go on.
AskFor(q, region, id) ==
  /\ ask[q].pc = "idle"
  /\ ask' = [ask EXCEPT ![q] = Sent(region, id)]

\* handleTrace with this id and hub in the form.
Trace(id, hub) ==
  /\ view' = [view EXCEPT !.id = id, !.hub = hub, !.loading = TRUE, !.status = "info"]
  /\ \E q \in Ask : AskFor(q, hub, id)

\* Mutant: the button stays enabled.
PressAnyTime ==
  /\ Screen = "trace"
  /\ view.id # NoId
  /\ Trace(view.id, view.hub)
  /\ UNCHANGED <<session, chain, clipboard>>

PressTrace ==
  /\ Screen = "trace"
  /\ view.id # NoId
  /\ ~ view.loading
  /\ Trace(view.id, view.hub)
  /\ UNCHANGED <<session, chain, clipboard>>

\* The id or the hub of the form is edited: with an id from outside every edit runs
\* handleTrace again, loading or not.
EditTrace(id, hub) ==
  /\ Screen = "trace"
  /\ (id = view.id) # (hub = view.hub)
  /\ IF window.traceId # NoId /\ id # NoId THEN Trace(id, hub)
     ELSE view' = [view EXCEPT !.id = id, !.hub = hub] /\ UNCHANGED ask
  /\ UNCHANGED <<session, chain, clipboard>>

\* The hub selector of the dashboard and the effects that depend on currentHub.
SwitchHub(hub) ==
  /\ SelectHub(hub)
  /\ CASE Screen \in Lists ->
            /\ view' = [view EXCEPT !.loading = Screen = "products"]
            /\ \E q \in Ask : AskFor(q, hub, NoId)
       [] Screen = "trace" /\ window.traceId # NoId
              /\ <<window.traceId, hub>> # <<view.id, view.hub>> ->
            Trace(window.traceId, hub)
       [] OTHER -> UNCHANGED <<view, ask>>
  /\ UNCHANGED <<chain, clipboard>>

\* Another URL of the same route: the component stays, its effect runs again.
Jump(region, id) ==
  /\ JumpItem(region, id)
  /\ view' = [view EXCEPT !.loading = TRUE]
  /\ \E q \in Ask : AskFor(q, region, id)
  /\ UNCHANGED <<chain, clipboard>>

\* The rows of the product table, once it is not loading.
Row(d) == Screen = "products" /\ ~ view.loading /\ d \in view.shown.docs

Inspect(d) ==
  /\ Row(d)
  /\ OpenItem(window.hub, d.id)
  /\ Mount
  /\ UNCHANGED <<chain, clipboard>>

GenerateQR(d) ==
  /\ Row(d)
  /\ clipboard' = Label(d)
  /\ UNCHANGED <<session, chain, view, ask>>

CopyForeign(code) ==
  /\ clipboard' = code
  /\ UNCHANGED <<session, chain, view, ask>>

\* handlePaste: the picture is read.
Paste(q) ==
  /\ Screen = "scan"
  /\ clipboard # NoCode
  /\ ask[q].pc = "idle"
  /\ ask' = [ask EXCEPT ![q] = [IdleAsk EXCEPT !.pc = "read",
               !.region = clipboard.prefix, !.id = clipboard.id]]
  /\ UNCHANGED <<session, view, chain, clipboard>>

\* robustDecoding: what was decoded is reset, what the status says is not.  The image
\* loads, or it never does, which nothing handles.
StartDecoding(q) ==
  /\ Screen = "scan"
  /\ ask[q].pc = "read"
  /\ \/ ask' = [ask EXCEPT ![q].pc = "decode"]
     \/ ask' = [ask EXCEPT ![q] = IdleAsk]
  /\ view' = [view EXCEPT !.loading = TRUE, !.id = NoId, !.hub = ""]
  /\ UNCHANGED <<session, chain, clipboard>>

Decode(q) ==
  LET code == [prefix |-> ask[q].region, id |-> ask[q].id] IN
  /\ ask[q].pc = "decode"
  /\ ask' = [ask EXCEPT ![q] = IdleAsk]
  /\ view' = [view EXCEPT !.loading = FALSE, !.status = "success",
                          !.id = DecodedId(code), !.hub = DecodedHub(code)]
  /\ UNCHANGED <<session, chain, clipboard>>

DecodeFails(q) ==
  /\ ask[q].pc = "decode"
  /\ ask' = [ask EXCEPT ![q] = IdleAsk]
  /\ view' = [view EXCEPT !.loading = FALSE, !.status = "error"]
  /\ UNCHANGED <<session, chain, clipboard>>

\* The two buttons under a decoded code.
OpenScanned ==
  /\ Screen = "scan" /\ view.status = "success"
  /\ \/ OpenItem(view.hub, view.id)
     \/ ShowTrace(view.id)
  /\ Mount
  /\ UNCHANGED <<chain, clipboard>>

-------------------------------------------------------------------------------
(* The backend's routes and the handlers of their answers. *)

DocOf(h, p, i) == [id |-> p, hub |-> h, version |-> docs[h][p][i]]

\* GET /api/products and GET /api/trace: all documents, or the first with the id.
Found(region, id) ==
  LET h     == Db(region)
      all   == UNION {{DocOf(h, p, i) : i \in DOMAIN docs[h][p]} : p \in Sync!Product}
      first == {DocOf(h, p, 1) : p \in {q \in Sync!Product : q = id /\ docs[h][q] # <<>>}}
  IN CASE id = NoId   -> [ok |-> TRUE, docs |-> all]
       [] first # {}  -> [ok |-> TRUE, docs |-> first]
       [] OTHER       -> Failure

\* The backend finds, or answers that it does not or that it failed.
Serve(q) ==
  /\ ask[q].pc = "sent"
  /\ \E answer \in {Found(ask[q].region, ask[q].id), Failure} :
       ask' = [ask EXCEPT ![q].pc = "answered", ![q].answer = answer]
  /\ UNCHANGED <<session, chain, view, clipboard>>

Arrived(q) == ask[q].pc = "answered" /\ ask' = [ask EXCEPT ![q] = IdleAsk]

\* Mutant: the product of an earlier answer stays under the error.
RefuseKeepsProduct == view' = [view EXCEPT !.loading = FALSE, !.status = "error"]

Refuse == view' = [view EXCEPT !.loading = FALSE, !.status = "error", !.shown = Nothing]

ShowTraced(q) ==
  /\ Screen = "trace"
  /\ Arrived(q)
  /\ IF ask[q].answer.ok
     THEN view' = [view EXCEPT !.loading = FALSE, !.status = "success",
                               !.shown = ask[q].answer]
     ELSE Refuse
  /\ UNCHANGED <<session, chain, clipboard>>

\* The item page and the overview take whatever body they get.
ShowBody(q) ==
  /\ Screen \in {"item", "overview"}
  /\ Arrived(q)
  /\ view' = [view EXCEPT !.loading = FALSE, !.shown = ask[q].answer]
  /\ UNCHANGED <<session, chain, clipboard>>

\* The table renders a list; a body that is none ends the rendering of the window.
ShowList(q) ==
  /\ Screen = "products"
  /\ ask[q].answer.ok
  /\ Arrived(q)
  /\ view' = [view EXCEPT !.loading = FALSE, !.shown = ask[q].answer]
  /\ UNCHANGED <<session, chain, clipboard>>

TableCrashes(q) ==
  /\ Screen = "products"
  /\ ask[q].pc = "answered" /\ ~ ask[q].answer.ok
  /\ window' = Bare("crashed", window.loggedIn)
  /\ view' = BlankView
  /\ ask' = AllIdle
  /\ UNCHANGED <<storage, chain, clipboard>>

\* Mutant: catch does not end the loading of a table or an item page.
BrokenKeepsLoading(q) ==
  /\ ask[q].pc \in {"sent", "answered"}
  /\ ask' = [ask EXCEPT ![q] = IdleAsk]
  /\ IF Screen = "trace" THEN Refuse ELSE UNCHANGED view
  /\ UNCHANGED <<session, chain, clipboard>>

\* The fetch rejects.
Broken(q) ==
  /\ ask[q].pc \in {"sent", "answered"}
  /\ ask' = [ask EXCEPT ![q] = IdleAsk]
  /\ CASE Screen = "trace"    -> Refuse
       [] Screen = "overview" -> view' = [view EXCEPT !.shown = Nothing]
       [] OTHER               -> view' = [view EXCEPT !.loading = FALSE]
  /\ UNCHANGED <<session, chain, clipboard>>

SyncNext ==
  /\ Sync!Next
  /\ UNCHANGED <<session, view, ask, clipboard>>

AskNext(q) ==
  \/ Paste(q) \/ StartDecoding(q) \/ Decode(q) \/ DecodeFails(q)
  \/ Serve(q) \/ ShowTraced(q) \/ ShowBody(q) \/ ShowList(q)
  \/ TableCrashes(q) \/ Broken(q)

Next ==
  \/ SyncNext \/ Navigate \/ PressTrace \/ OpenScanned
  \/ \E id \in Typed \cup {NoId, view.id}, hub \in Hub \cup {view.hub} :
       EditTrace(id, hub)
  \/ \E hub \in Hub : SwitchHub(hub)
  \/ \E region \in Region, id \in Typed : Jump(region, id)
  \/ \E d \in view.shown.docs : Inspect(d) \/ GenerateQR(d)
  \/ \E code \in Foreign : CopyForeign(code)
  \/ \E q \in Ask : AskNext(q)

Spec == Init /\ [][Next]_vars

-------------------------------------------------------------------------------
(* What the screens keep true. *)

Busy == {q \in Ask : ask[q].pc # "idle"}

\* Every variable of the session and of the screens holds a value of its kind.
TypeOK ==
  /\ SessionTypeOK
  /\ view \in View
  /\ ask \in [Ask -> AskRecord]
  /\ clipboard \in Code \cup {NoCode}

\* From the chain over the relayer, the database and the route to the screen: every
\* document a window shows, or is about to, is a version its product has had on the
\* chain, and of the database of the product's own hub (app.js:64-89, 100-129).
OnScreen == view.shown.docs \cup UNION {ask[q].answer.docs : q \in Ask}

ShownIsHistory ==
  \A d \in OnScreen : d.hub = Sync!Home(d.id) /\ d.version \in 1 .. version[d.id]

\* A trace view, an item page or a table that says it is loading has a request in
\* flight that will end it: no overlap of edits, jumps, hub switches and failures
\* leaves a spinner behind (TraceView.jsx:25, ItemDetail.jsx:27, ProductTable.jsx:18).
\* Not so the scanner: a picture that is no image sets isScanning, and with img.onload
\* alone nothing resets it (ScanCode.jsx:33-38).
LoadingIsAsked == view.loading /\ Screen # "scan" => Busy # {}

\* "đảm bảo không lấy nhầm dữ liệu chain kia" (ItemDetail.jsx:19), never the data of
\* the other chain: an item page that waits for nothing shows the hub its URL names.
\* False: the answer for the URL before it may come last, and a request that fails
\* leaves the product of the page before (:25, :28-31).
ItemOfItsChain ==
  Screen = "item" /\ window.hub \in Hub /\ Busy = {} =>
    \A d \in view.shown.docs : d.hub = window.hub

\* A trace view that was opened without an id has one request at a time and says so:
\* its answers cannot overtake each other (TraceView.jsx:71). With an id from
\* outside each edit asks again and this is lost (TraceView.jsx:38).
ManualInOrder ==
  Screen = "trace" /\ window.traceId = NoId =>
    Cardinality(Busy) <= 1 /\ (view.loading <=> Busy # {})

\* What a trace view says agrees with what it shows, whichever answer came last: a
\* product under "success", none under an error, and no "info" that nothing ends.
StatusAgrees ==
  Screen = "trace" =>
    /\ view.status = "success" => view.shown.docs # {}
    /\ view.status = "error" => view.shown = Nothing
    /\ view.status = "info" => view.loading

\* What CosmosSync promises of the databases, under the screens that read them.
IdIdentifies == Sync!IdIdentifies
ReplicaSpec  == Sync!ReplicaSpec
===============================================================================

-------------------------- MODULE TraceClients_proofs --------------------------
(***************************************************************************)
(* Theorems about what a window shows, for any number of products, requests *)
(* and runs of the relayer, overlapping or not: the session keeps its       *)
(* promises whatever is on the screen, the documents shown are history of   *)
(* the chain, and no screen is left spinning or contradicts itself.         *)
(***************************************************************************)
EXTENDS TraceClients, Session_proofs, FiniteSetTheorems

Relayer == INSTANCE CosmosSync_proofs

-------------------------------------------------------------------------------
(* The relayer under the screens: CosmosSync_proofs proves its invariant. *)

\* The documents of a product are in the database of its own hub.
HomeOK == \A h \in Hub, p \in Sync!Product : docs[h][p] # <<>> => h = Sync!Home(p)

RelayerInv == Relayer!TypeOK /\ Relayer!SnapshotInv /\ HomeOK

LEMMA RelayerAssumption ==
  /\ N \in Nat /\ MaxVersion \in Nat
  /\ DOMAIN OriginOf = Relayer!Product
  /\ FirstUncastable \in [Relayer!Product -> Nat]
  BY SyncAssumption DEF Sync!Product, Relayer!Product

LEMMA SameRelayer ==
  /\ Sync!Init => Relayer!Init
  /\ Sync!Next => Relayer!Next
  /\ Sync!Product = Relayer!Product /\ Sync!Version = Relayer!Version
  /\ Relayer!Hub = Hub
  /\ \A p : Sync!Home(p) = Relayer!Home(p)
<1>1. Sync!Init => Relayer!Init
  BY DEF Sync!Init, Sync!Product, Sync!Hub, Sync!IdleRun, Sync!NothingSeen,
         Relayer!Init, Relayer!Product, Relayer!Hub, Relayer!IdleRun, Relayer!NothingSeen
<1>2. /\ Sync!Product = Relayer!Product /\ Sync!Version = Relayer!Version
      /\ Relayer!Hub = Hub
      /\ \A p : Sync!Home(p) = Relayer!Home(p)
  BY DEF Sync!Product, Relayer!Product, Sync!Version, Relayer!Version, Relayer!Hub, Hub,
         Sync!Home, Relayer!Home, Sync!HubOf, Relayer!HubOf
<1>3. Sync!Next => Relayer!Next
  BY DEF Sync!Next, Sync!Restart, Sync!Grow, Sync!RunNext, Sync!Tick, Sync!GetProducts,
         Sync!GetSteps, Sync!Finish, Sync!RequestFails, Sync!Upsert, Sync!Insert,
         Sync!CastFails, Sync!EndRun, Sync!IsNext, Sync!Castable, Sync!IdleRun,
         Sync!NothingSeen, Sync!Product, Sync!Home, Sync!HubOf, Sync!GetNoProducts,
         Sync!GetNoSteps, Sync!Bare, Relayer!GetNoProducts, Relayer!GetNoSteps,
         Relayer!Bare, Relayer!Next, Relayer!Restart, Relayer!Grow, Relayer!RunNext, Relayer!Tick,
         Relayer!GetProducts, Relayer!GetSteps, Relayer!Finish, Relayer!RequestFails,
         Relayer!Upsert, Relayer!Insert, Relayer!CastFails, Relayer!EndRun,
         Relayer!IsNext, Relayer!Castable, Relayer!IdleRun, Relayer!NothingSeen,
         Relayer!Product, Relayer!Home, Relayer!HubOf
<1>4. QED
  BY <1>1, <1>2, <1>3

LEMMA RelayerInit == Sync!Init => RelayerInv
<1> SUFFICES ASSUME Sync!Init PROVE RelayerInv
  OBVIOUS
<1>1. Relayer!TypeOK /\ Relayer!SnapshotInv
  BY SameRelayer, RelayerAssumption, Relayer!TypeInit, Relayer!SnapshotInit
<1>2. HomeOK
  BY DEF HomeOK, Sync!Init, Sync!Product, Sync!Hub, Hub
<1>3. QED
  BY <1>1, <1>2 DEF RelayerInv

LEMMA RelayerStep ==
  ASSUME RelayerInv, Sync!Next
  PROVE  RelayerInv' /\ \A p \in Sync!Product : version[p] <= version'[p]
<1>1. /\ Relayer!TypeOK /\ Relayer!SnapshotInv /\ [Relayer!Next]_Relayer!vars
  BY SameRelayer DEF RelayerInv
<1>2. Relayer!TypeOK' /\ Relayer!SnapshotInv'
  BY <1>1, RelayerAssumption, Relayer!TypeStep, Relayer!SnapshotStep
<1>3. /\ version \in [Sync!Product -> Sync!Version]
      /\ docs \in [Hub -> [Sync!Product -> Seq(Sync!Version)]]
  BY <1>1, SameRelayer DEF Relayer!TypeOK
<1>4. \A p \in Sync!Product : version[p] <= version'[p]
  <2>1. \A p \in Sync!Product : version[p] \in Nat
    BY <1>3, SyncAssumption DEF Sync!Version
  <2>2. \/ UNCHANGED version
        \/ \E p \in Sync!Product : version' = [version EXCEPT ![p] = @ + 1]
    BY DEF Sync!Next, Sync!Restart, Sync!Grow, Sync!RunNext, Sync!Tick, Sync!GetProducts,
           Sync!GetSteps, Sync!GetNoProducts, Sync!GetNoSteps, Sync!Finish,
           Sync!RequestFails, Sync!Upsert, Sync!Insert, Sync!CastFails, Sync!EndRun
  <2>3. QED
    BY <1>3, <2>1, <2>2
<1>5. \/ UNCHANGED docs
      \/ \E p \in Sync!Product : \E list :
           docs' = [docs EXCEPT ![Sync!Home(p)] = [@ EXCEPT ![p] = list]]
  <2>1. CASE \E s \in Run, p \in Sync!Product : Sync!Upsert(s, p)
    <3>1. PICK s \in Run, p \in Sync!Product : Sync!Upsert(s, p)
      BY <2>1
    <3>2. \/ UNCHANGED docs
          \/ docs' = [docs EXCEPT ![Sync!Home(p)][p][1] = run[s].seen[p]]
      BY <3>1 DEF Sync!Upsert
    <3>3. QED
      BY <3>2
  <2>2. CASE \E s \in Run, p \in Sync!Product : Sync!Insert(s, p)
    <3>1. PICK s \in Run, p \in Sync!Product : Sync!Insert(s, p)
      BY <2>2
    <3>2. docs' = [docs EXCEPT ![Sync!Home(p)][p] = Append(@, run[s].seen[p])]
      BY <3>1 DEF Sync!Insert
    <3>3. QED
      BY <3>2
  <2>3. CASE ~ \E s \in Run, p \in Sync!Product : Sync!Upsert(s, p) \/ Sync!Insert(s, p)
    BY <2>3 DEF Sync!Next, Sync!Restart, Sync!Grow, Sync!RunNext, Sync!Tick,
       Sync!GetProducts, Sync!GetSteps, Sync!GetNoProducts, Sync!GetNoSteps,
       Sync!Finish, Sync!RequestFails, Sync!CastFails, Sync!EndRun
  <2>4. QED
    BY <2>1, <2>2, <2>3
<1>6. HomeOK'
  <2>1. CASE UNCHANGED docs
    BY <2>1 DEF RelayerInv, HomeOK, Sync!Product, Sync!Home, Sync!HubOf
  <2>2. ASSUME NEW p \in Sync!Product, NEW list,
               docs' = [docs EXCEPT ![Sync!Home(p)] = [@ EXCEPT ![p] = list]]
        PROVE  HomeOK'
    <3>1. \A h \in Hub, q \in Sync!Product :
            docs'[h][q] # docs[h][q] => h = Sync!Home(p) /\ q = p
      BY <1>3, <2>2
    <3>2. \A h \in Hub, q \in Sync!Product : docs'[h][q] # <<>> => h = Sync!Home(q)
      BY <3>1 DEF RelayerInv, HomeOK
    <3>3. QED
      BY <3>2 DEF HomeOK, Sync!Product, Sync!Home, Sync!HubOf
  <2>3. QED
    BY <1>5, <2>1, <2>2
<1>7. QED
  BY <1>2, <1>4, <1>6 DEF RelayerInv

LEMMA RelayerStays ==
  ASSUME RelayerInv, UNCHANGED chain
  PROVE  RelayerInv' /\ UNCHANGED version
<1>1. UNCHANGED Relayer!vars
  BY DEF chain, Relayer!vars
<1>2. Relayer!TypeOK' /\ Relayer!SnapshotInv'
  BY <1>1, RelayerAssumption, Relayer!TypeStep, Relayer!SnapshotStep DEF RelayerInv
<1>3. HomeOK' /\ UNCHANGED version
  BY DEF chain, RelayerInv, HomeOK, Sync!Product, Sync!Home, Sync!HubOf
<1>4. QED
  BY <1>2, <1>3 DEF RelayerInv

-------------------------------------------------------------------------------
(* The inductive invariant of the screens. *)

\* A version that a product has had, with the hub it belongs to.
Historic(d) == d.hub = Sync!Home(d.id) /\ d.version \in 1 .. version[d.id]

Codes == Foreign \cup {Label(d) : d \in Doc}

\* A decoding is of a code there is; a document asked for by its id is one document.
GoodAsk(r) ==
  /\ r \in AskRecord
  /\ r.pc \in {"read", "decode"} => [prefix |-> r.region, id |-> r.id] \in Codes
  /\ r.pc = "answered" /\ r.id # NoId /\ r.answer.ok => r.answer.docs # {}

AskOK == ask \in [Ask -> AskRecord] /\ \A q \in Ask : GoodAsk(ask[q])

HistoryOK ==
  /\ \A d \in view.shown.docs : Historic(d)
  /\ \A q \in Ask : \A d \in ask[q].answer.docs : Historic(d)

\* What each screen says of its requests.
ScreenOK ==
  /\ view.loading /\ Screen # "scan" => \E q \in Ask : ask[q].pc # "idle"
  /\ Screen = "overview" => ~ view.loading
  /\ Screen = "trace" =>
       \A q \in Ask : ask[q].pc # "idle" =>
         ask[q].id # NoId /\ ask[q].pc \notin {"read", "decode"}
  /\ Screen = "trace" /\ window.traceId = NoId =>
       /\ \A q \in Ask : ask[q].pc # "idle" => view.loading
       /\ \A q, k \in Ask : ask[q].pc # "idle" /\ ask[k].pc # "idle" => q = k

ScreensInv ==
  view \in View /\ AskOK /\ clipboard \in Codes \cup {NoCode} /\ HistoryOK
    /\ ScreenOK /\ StatusAgrees

LEMMA NothingIsAnswer ==
  /\ Nothing \in Answer /\ Nothing.ok /\ Nothing.docs = {}
  /\ Failure \in Answer /\ ~ Failure.ok /\ Failure.docs = {}
<1>1. Nothing \in Answer /\ Failure \in Answer
  BY DEF Nothing, Failure, Answer
<1>2. QED
  BY <1>1 DEF Nothing, Failure

LEMMA IdleAskGood ==
  /\ IdleAsk \in AskRecord /\ GoodAsk(IdleAsk)
  /\ IdleAsk.pc = "idle" /\ IdleAsk.answer = Nothing
<1>1. IdleAsk \in AskRecord
  BY NothingIsAnswer DEF IdleAsk, AskRecord
<1>2. IdleAsk.pc = "idle" /\ IdleAsk.answer = Nothing
  BY DEF IdleAsk
<1>3. QED
  BY <1>1, <1>2 DEF GoodAsk

LEMMA SentGood ==
  ASSUME NEW region \in Region \cup {""}, NEW id \in Id \cup {NoId}
  PROVE  /\ GoodAsk(Sent(region, id)) /\ Sent(region, id) \in AskRecord
         /\ Sent(region, id).pc = "sent" /\ Sent(region, id).id = id
         /\ Sent(region, id).answer = Nothing
<1> DEFINE r == [IdleAsk EXCEPT !.pc = "sent", !.region = region, !.id = id]
<1>1. r \in AskRecord
  BY IdleAskGood DEF AskRecord
<1>2. r.pc = "sent" /\ r.id = id /\ r.answer = Nothing
  BY IdleAskGood DEF AskRecord
<1>3. r = Sent(region, id)
  BY DEF Sent
<1> HIDE DEF r
<1>4. QED
  BY <1>1, <1>2, <1>3 DEF GoodAsk

LEMMA BlankViewGood ==
  /\ BlankView \in View /\ BlankView.shown = Nothing /\ ~ BlankView.loading
  /\ BlankView.status = ""
<1>1. BlankView \in View
  BY NothingIsAnswer DEF BlankView, View
<1>2. QED
  BY <1>1 DEF BlankView

Status == {"", "info", "success", "error"}

\* The values that a handler sets in a view, all at once.
ViewOf(id, hub, shown, loading, status) ==
  [id |-> id, hub |-> hub, shown |-> shown, loading |-> loading, status |-> status]

LEMMA ViewOfGood ==
  ASSUME NEW id \in Id \cup {NoId}, NEW hub \in Region \cup {""}, NEW shown \in Answer,
         NEW loading \in BOOLEAN, NEW status \in Status
  PROVE  ViewOf(id, hub, shown, loading, status) \in View
  BY DEF ViewOf, View, Status

LEMMA ViewTypes ==
  ASSUME view \in View
  PROVE  /\ view.id \in Id \cup {NoId} /\ view.hub \in Region \cup {""}
         /\ view.shown \in Answer /\ view.loading \in BOOLEAN /\ view.status \in Status
         /\ view = ViewOf(view.id, view.hub, view.shown, view.loading, view.status)
  BY DEF View, ViewOf, Status

\* Answers that a step leaves alone stay history.
LEMMA HistoricStays ==
  ASSUME NEW d, Historic(d), UNCHANGED version
  PROVE  Historic(d)'
  BY DEF Historic, Sync!Home, Sync!HubOf

LEMMA FreshGood ==
  ASSUME NEW w \in Window
  PROVE  /\ Fresh(w) \in View /\ Fresh(w).shown = Nothing
         /\ Fresh(w).loading <=> \/ ScreenOf(w) \in {"item", "products"}
                                 \/ ScreenOf(w) = "trace" /\ w.traceId # NoId
         /\ Fresh(w).status = IF ScreenOf(w) = "trace" /\ w.traceId # NoId
                              THEN "info" ELSE ""
<1> DEFINE s == ScreenOf(w)
           busy == w.traceId # NoId
           status == IF w.traceId = NoId THEN "" ELSE "info"
           listed == s \in {"item", "products"}
<1>1. /\ busy \in BOOLEAN /\ listed \in BOOLEAN
      /\ status \in Status
      /\ w.traceId \in Id \cup {NoId} /\ w.hub \in Region \cup {""}
  <2>1. busy \in BOOLEAN /\ listed \in BOOLEAN
    OBVIOUS
  <2>2. status \in Status
    BY DEF Status
  <2>3. w.traceId \in Id \cup {NoId} /\ w.hub \in Region \cup {""}
    BY DEF Window
  <2>4. QED
    BY <2>1, <2>2, <2>3
<1>2. CASE s = "trace"
  <2> DEFINE v == ViewOf(w.traceId, w.hub, Nothing, busy, status)
  <2>1. Fresh(w) = v
    BY <1>2 DEF Fresh, BlankView, ViewOf
  <2> HIDE DEF busy, status
  <2>2. v \in View
    BY <1>1, NothingIsAnswer, ViewOfGood
  <2>3. v.shown = Nothing /\ v.loading = busy /\ v.status = status
    BY DEF ViewOf
  <2> HIDE DEF v
  <2>4. QED
    BY <1>2, <2>1, <2>2, <2>3 DEF busy, status
<1>3. CASE s # "trace"
  <2> DEFINE blank == ""
  <2> DEFINE v == ViewOf(NoId, blank, Nothing, listed, blank)
  <2>1. Fresh(w) = v
    BY <1>3 DEF Fresh, BlankView, ViewOf
  <2>2. blank \in Status /\ blank \in Region \cup {""} /\ NoId \in Id \cup {NoId}
    BY DEF Status
  <2> HIDE DEF listed, blank
  <2>3. v \in View
    BY <1>1, <2>2, NothingIsAnswer, ViewOfGood
  <2>4. v.shown = Nothing /\ v.loading = listed /\ v.status = blank
    BY DEF ViewOf
  <2> HIDE DEF v
  <2>5. QED
    BY <1>3, <2>1, <2>3, <2>4 DEF listed, blank
<1>4. QED
  BY <1>2, <1>3

LEMMA FirstAskGood ==
  ASSUME NEW w \in Window, NEW a \in FirstAsk(w)
  PROVE  /\ a \in [Ask -> AskRecord]
         /\ \A k \in Ask : GoodAsk(a[k]) /\ a[k].answer = Nothing
         /\ ScreenOf(w) \in {"item", "products"} => \E k \in Ask : a[k].pc # "idle"
         /\ ScreenOf(w) = "trace" /\ w.traceId = NoId => \A k \in Ask : a[k].pc = "idle"
         /\ ScreenOf(w) = "trace" /\ w.traceId # NoId =>
              /\ \E k \in Ask : a[k].pc # "idle"
              /\ \A k \in Ask : a[k].pc # "idle" =>
                   a[k].id # NoId /\ a[k].pc \notin {"read", "decode"}
<1> DEFINE s == ScreenOf(w)
           asks == s \in Lists \/ s = "item" \/ (s = "trace" /\ w.traceId # NoId)
           id == IF s \in Lists THEN NoId ELSE w.traceId
<1>1. w.hub \in Region \cup {""} /\ id \in Id \cup {NoId}
  BY DEF Window
<1>2. CASE asks
  <2>1. PICK q \in Ask : a = [AllIdle EXCEPT ![q] = Sent(w.hub, id)]
    BY <1>2 DEF FirstAsk
  <2> DEFINE r == Sent(w.hub, id)
  <2>2. /\ GoodAsk(r) /\ r \in AskRecord /\ r.pc = "sent" /\ r.id = id
        /\ r.answer = Nothing
    BY <1>1, SentGood
  <2> HIDE DEF r, id
  <2>3. a = [AllIdle EXCEPT ![q] = r]
    BY <2>1 DEF r, id
  <2>4. a \in [Ask -> AskRecord]
    BY <2>2, <2>3, IdleAskGood DEF AllIdle
  <2>5. \A k \in Ask : a[k] = IF k = q THEN r ELSE IdleAsk
    BY <2>3 DEF AllIdle
  <2>6. \A k \in Ask : GoodAsk(a[k]) /\ a[k].answer = Nothing
    BY <2>2, <2>5, IdleAskGood
  <2>7. /\ \E k \in Ask : a[k].pc # "idle"
        /\ \A k \in Ask : a[k].pc # "idle" => a[k].pc = "sent" /\ a[k].id = id
    BY <2>2, <2>5, IdleAskGood
  <2>8. s = "trace" => w.traceId # NoId /\ id = w.traceId
    BY <1>2 DEF Lists, id
  <2>9. QED
    BY <2>4, <2>6, <2>7, <2>8
<1>3. CASE ~ asks
  <2>1. a = AllIdle
    BY <1>3 DEF FirstAsk
  <2>2. a \in [Ask -> AskRecord] /\ \A k \in Ask : a[k] = IdleAsk
    BY <2>1, IdleAskGood DEF AllIdle
  <2>3. \A k \in Ask : GoodAsk(a[k]) /\ a[k].answer = Nothing /\ a[k].pc = "idle"
    BY <2>2, IdleAskGood
  <2>4. s \notin {"item", "products"} /\ (s = "trace" => w.traceId = NoId)
    BY <1>3 DEF Lists
  <2>5. QED
    BY <2>2, <2>3, <2>4
<1>4. QED
  BY <1>2, <1>3

\* A component that is mounted has nothing of the one before it.
LEMMA MountStep ==
  ASSUME ScreensInv, SessionTypeOK', Mount, UNCHANGED clipboard
  PROVE  ScreensInv'
<1> DEFINE w == window'
<1>1. w \in Window /\ view' = Fresh(w) /\ ask' \in FirstAsk(w)
  BY DEF SessionTypeOK, Mount
<1>2. Screen' = ScreenOf(w)
  BY DEF Screen
<1> HIDE DEF w
<1>3. view' \in View /\ view'.shown = Nothing
  BY <1>1, FreshGood
<1>4. AskOK' /\ \A k \in Ask : ask'[k].answer = Nothing
  BY <1>1, FirstAskGood DEF AskOK, GoodAsk
<1>5. HistoryOK'
  BY <1>3, <1>4, NothingIsAnswer DEF HistoryOK
<1>6. ScreenOK'
  <2>1. w.traceId = window'.traceId
    BY DEF w
  <2>2. view'.loading => \E q \in Ask : ask'[q].pc # "idle"
    BY <1>1, FreshGood, FirstAskGood
  <2>3. Screen' = "overview" => ~ view'.loading
    BY <1>1, <1>2, FreshGood
  <2>4. Screen' = "trace" => /\ w.traceId = NoId => \A k \in Ask : ask'[k].pc = "idle"
                             /\ \A k \in Ask : ask'[k].pc # "idle" =>
                                  ask'[k].id # NoId /\ ask'[k].pc \notin {"read", "decode"}
    BY <1>1, <1>2, FirstAskGood
  <2>5. QED
    BY <2>1, <2>2, <2>3, <2>4 DEF ScreenOK
<1>7. StatusAgrees'
  BY <1>1, <1>2, FreshGood DEF StatusAgrees
<1>8. QED
  BY <1>3, <1>4, <1>5, <1>6, <1>7 DEF ScreensInv

-------------------------------------------------------------------------------
(* What a screen asks. *)

LEMMA OneAsk ==
  ASSUME AskOK, NEW q \in Ask, NEW r, GoodAsk(r), ask' = [ask EXCEPT ![q] = r]
  PROVE  AskOK' /\ \A k \in Ask : ask'[k] = IF k = q THEN r ELSE ask[k]
<1>1. r \in AskRecord /\ ask \in [Ask -> AskRecord]
  BY DEF GoodAsk, AskOK
<1>2. ask' \in [Ask -> AskRecord]
  BY <1>1
<1>3. \A k \in Ask : ask'[k] = IF k = q THEN r ELSE ask[k]
  BY <1>1
<1>4. \A k \in Ask : GoodAsk(ask'[k])
  BY <1>3 DEF AskOK
<1>5. QED
  BY <1>2, <1>3, <1>4 DEF AskOK, GoodAsk

LEMMA AskedOnce ==
  ASSUME AskOK, NEW q \in Ask, NEW region \in Region \cup {""}, NEW id \in Id \cup {NoId},
         AskFor(q, region, id)
  PROVE  /\ AskOK'
         /\ \A k \in Ask : IF k = q THEN /\ ask'[k].pc = "sent" /\ ask'[k].id = id
                                         /\ ask'[k].answer = Nothing
                           ELSE ask'[k] = ask[k]
<1> DEFINE r == Sent(region, id)
<1>1. GoodAsk(r) /\ r.pc = "sent" /\ r.id = id /\ r.answer = Nothing
  BY SentGood
<1>2. ask' = [ask EXCEPT ![q] = r]
  BY DEF AskFor
<1> HIDE DEF r
<1>3. AskOK' /\ \A k \in Ask : ask'[k] = IF k = q THEN r ELSE ask[k]
  BY <1>1, <1>2, OneAsk
<1>4. QED
  BY <1>1, <1>3

\* What is shown was in the window already.
LEMMA HistoryStep ==
  ASSUME HistoryOK, UNCHANGED version,
         \A k \in Ask : ask'[k].answer = Nothing \/ ask'[k].answer = ask[k].answer,
         \/ view'.shown = Nothing \/ view'.shown = view.shown
         \/ \E k \in Ask : view'.shown = ask[k].answer
  PROVE  HistoryOK'
<1>1. \A d \in view'.shown.docs : Historic(d)'
  BY NothingIsAnswer, HistoricStays DEF HistoryOK
<1>2. \A k \in Ask : \A d \in ask'[k].answer.docs : Historic(d)'
  BY NothingIsAnswer, HistoricStays DEF HistoryOK
<1>3. QED
  BY <1>1, <1>2 DEF HistoryOK

LEMMA TraceStep ==
  ASSUME ScreensInv, NEW id \in Id, NEW hub \in Region \cup {""}, Trace(id, hub),
         UNCHANGED <<chain, clipboard>>, Screen = "trace", Screen' = "trace",
         window'.traceId = window.traceId, window.traceId = NoId => ~ view.loading
  PROVE  ScreensInv'
<1> DEFINE b == TRUE
           v == ViewOf(id, hub, view.shown, b, "info")
<1>1. view \in View /\ AskOK /\ HistoryOK /\ ScreenOK
  BY DEF ScreensInv
<1>2. view' = v
  BY <1>1 DEF Trace, View, ViewOf
<1>3. b \in BOOLEAN /\ b /\ "info" \in Status
  BY DEF Status
<1> HIDE DEF b
<1>4. v \in View
  BY <1>1, <1>3, ViewTypes, ViewOfGood
<1>5. v.shown = view.shown /\ v.loading = b /\ v.status = "info"
  BY DEF ViewOf
<1> HIDE DEF v
<1>6. PICK q \in Ask : AskFor(q, hub, id)
  BY DEF Trace
<1>7. /\ AskOK'
      /\ \A k \in Ask : IF k = q THEN /\ ask'[k].pc = "sent" /\ ask'[k].id = id
                                      /\ ask'[k].answer = Nothing
                        ELSE ask'[k] = ask[k]
  BY <1>1, <1>6, AskedOnce
<1>8. HistoryOK'
  BY <1>1, <1>2, <1>5, <1>7, HistoryStep DEF chain
<1>9. ScreenOK'
  <2>1. view'.loading /\ ask'[q].pc # "idle"
    BY <1>2, <1>3, <1>5, <1>7
  <2>2. \A k \in Ask : ask'[k].pc # "idle" =>
          ask'[k].id # NoId /\ ask'[k].pc \notin {"read", "decode"}
    BY <1>1, <1>7, IdAssumption DEF ScreenOK
  <2>3. window'.traceId = NoId => \A k \in Ask : ask'[k].pc # "idle" => k = q
    BY <1>1, <1>7 DEF ScreenOK
  <2>4. QED
    BY <2>1, <2>2, <2>3 DEF ScreenOK
<1>10. StatusAgrees'
  BY <1>2, <1>3, <1>5 DEF StatusAgrees
<1>11. QED
  BY <1>1, <1>2, <1>4, <1>7, <1>8, <1>9, <1>10 DEF ScreensInv, Codes

\* A request is over, and nothing loads any more.
LEMMA SettledStep ==
  ASSUME ScreensInv, NEW q \in Ask, ask[q].pc # "idle",
         ask' = [ask EXCEPT ![q] = IdleAsk], UNCHANGED <<session, chain, clipboard>>,
         view' \in View, ~ view'.loading, StatusAgrees',
         view'.shown = Nothing \/ view'.shown = view.shown \/ view'.shown = ask[q].answer
  PROVE  ScreensInv'
<1>1. AskOK /\ HistoryOK /\ ScreenOK
  BY DEF ScreensInv
<1>2. AskOK' /\ \A k \in Ask : ask'[k] = IF k = q THEN IdleAsk ELSE ask[k]
  BY <1>1, IdleAskGood, OneAsk
<1>3. HistoryOK'
  BY <1>1, <1>2, IdleAskGood, HistoryStep DEF chain
<1>4. Screen' = Screen /\ window' = window
  BY DEF session, Screen
<1>5. \A k \in Ask : ask'[k].pc # "idle" => ask'[k] = ask[k] /\ k # q
  BY <1>2, IdleAskGood
<1>6. ScreenOK'
  BY <1>1, <1>4, <1>5 DEF ScreenOK
<1>7. QED
  BY <1>2, <1>3, <1>6 DEF ScreensInv, Codes

LEMMA PasteStep ==
  ASSUME ScreensInv, NEW q \in Ask, Paste(q)
  PROVE  ScreensInv'
<1> DEFINE r == [IdleAsk EXCEPT !.pc = "read", !.region = clipboard.prefix,
                                !.id = clipboard.id]
<1>1. view \in View /\ AskOK /\ HistoryOK /\ ScreenOK
  BY DEF ScreensInv
<1>6. clipboard \in Codes /\ clipboard \in Code
  <2>1. \A d \in Doc : Label(d) \in Code
    BY ProductAssumption DEF Label, Code, Prefix, Doc
  <2>2. clipboard \in Codes
    BY DEF Paste, ScreensInv
  <2>3. QED
    BY <2>1, <2>2, CodeAssumption DEF Codes
<1>7. clipboard.prefix \in Prefix /\ clipboard.id \in Id
      /\ clipboard = [prefix |-> clipboard.prefix, id |-> clipboard.id]
  BY <1>6 DEF Code
<1>8. r \in AskRecord
  BY <1>7, IdleAskGood DEF AskRecord
<1>9. /\ r.pc = "read" /\ r.region = clipboard.prefix /\ r.id = clipboard.id
      /\ r.answer = Nothing
  BY IdleAskGood DEF AskRecord
<1>10. ask' = [ask EXCEPT ![q] = r]
  BY DEF Paste
<1> HIDE DEF r
<1>11. GoodAsk(r)
  BY <1>6, <1>7, <1>8, <1>9 DEF GoodAsk
<1>12. AskOK' /\ \A k \in Ask : ask'[k] = IF k = q THEN r ELSE ask[k]
  BY <1>1, <1>10, <1>11, OneAsk
<1>13. HistoryOK'
  BY <1>1, <1>9, <1>12, HistoryStep DEF Paste, chain
<1>14. Screen' = "scan" /\ UNCHANGED view
  BY DEF Paste, session, Screen
<1>15. ScreenOK' /\ StatusAgrees'
  BY <1>14 DEF ScreenOK, StatusAgrees
<1>16. QED
  BY <1>1, <1>12, <1>13, <1>14, <1>15 DEF ScreensInv, Codes, Paste

LEMMA StartDecodingStep ==
  ASSUME ScreensInv, NEW q \in Ask, StartDecoding(q)
  PROVE  ScreensInv'
<1> DEFINE b == TRUE
           none == ""
           v == ViewOf(NoId, none, view.shown, b, view.status)
           r == [ask[q] EXCEPT !.pc = "decode"]
<1>1. view \in View /\ AskOK /\ HistoryOK /\ ScreenOK
  BY DEF ScreensInv
<1>2. view' = v
  BY <1>1 DEF StartDecoding, View, ViewOf
<1>3. b \in BOOLEAN /\ none \in Region \cup {""} /\ NoId \in Id \cup {NoId}
  OBVIOUS
<1> HIDE DEF b, none
<1>4. v \in View
  BY <1>1, <1>3, ViewTypes, ViewOfGood
<1>5. v.shown = view.shown
  BY DEF ViewOf
<1> HIDE DEF v
<1>6. ask[q] \in AskRecord /\ ask[q].pc = "read" /\ GoodAsk(ask[q])
  BY <1>1 DEF AskOK, StartDecoding
<1>7. r \in AskRecord
  BY <1>6 DEF AskRecord
<1>8. /\ r.pc = "decode" /\ r.region = ask[q].region /\ r.id = ask[q].id
      /\ r.answer = ask[q].answer
  BY <1>6 DEF AskRecord
<1>9. ask' = [ask EXCEPT ![q] = r] \/ ask' = [ask EXCEPT ![q] = IdleAsk]
  BY <1>1 DEF StartDecoding, AskOK
<1> HIDE DEF r
<1>10. GoodAsk(r)
  BY <1>6, <1>7, <1>8 DEF GoodAsk
<1>11. AskOK' /\ \A k \in Ask : ask'[k].answer = Nothing \/ ask'[k].answer = ask[k].answer
  <2>1. PICK x \in {r, IdleAsk} : ask' = [ask EXCEPT ![q] = x]
    BY <1>9
  <2>2. GoodAsk(x) /\ (x.answer = Nothing \/ x.answer = ask[q].answer)
    BY <1>8, <1>10, IdleAskGood
  <2>3. AskOK' /\ \A k \in Ask : ask'[k] = IF k = q THEN x ELSE ask[k]
    BY <1>1, <2>1, <2>2, OneAsk
  <2>4. QED
    BY <2>2, <2>3
<1>12. HistoryOK'
  BY <1>1, <1>2, <1>5, <1>11, HistoryStep DEF StartDecoding, chain
<1>13. Screen' = "scan"
  BY DEF StartDecoding, session, Screen
<1>14. ScreenOK' /\ StatusAgrees'
  BY <1>13 DEF ScreenOK, StatusAgrees
<1>15. QED
  BY <1>2, <1>4, <1>11, <1>12, <1>14 DEF ScreensInv, Codes, StartDecoding

LEMMA DecodeStep ==
  ASSUME ScreensInv, NEW q \in Ask, Decode(q) \/ DecodeFails(q)
  PROVE  ScreensInv'
<1> DEFINE code == [prefix |-> ask[q].region, id |-> ask[q].id]
           b == FALSE
           done == ViewOf(DecodedId(code), DecodedHub(code), view.shown, b, "success")
           failed == ViewOf(view.id, view.hub, view.shown, b, "error")
<1>1. view \in View /\ AskOK /\ ScreenOK
  BY DEF ScreensInv
<1>2. view' = done \/ view' = failed
  BY <1>1 DEF Decode, DecodeFails, View, ViewOf
<1>3. /\ ask[q].pc = "decode" /\ ask' = [ask EXCEPT ![q] = IdleAsk]
      /\ UNCHANGED <<session, chain, clipboard>>
  BY DEF Decode, DecodeFails
<1>4. b \in BOOLEAN /\ ~ b /\ "success" \in Status /\ "error" \in Status
  BY DEF Status
<1> HIDE DEF b
<1>5. code \in Codes
  BY <1>1, <1>3 DEF AskOK, GoodAsk
<1> HIDE DEF code
<1>6. DecodedId(code) \in Id
  BY <1>5, CodeAssumption DEF Codes
<1>7. DecodedHub(code) \in Region \cup {""}
  BY DEF DecodedHub, Region, Hub
<1>8. done \in View /\ failed \in View
  BY <1>1, <1>4, <1>6, <1>7, ViewTypes, ViewOfGood
<1>9. /\ done.shown = view.shown /\ done.loading = b
      /\ failed.shown = view.shown /\ failed.loading = b
  BY DEF ViewOf
<1> HIDE DEF done, failed
<1>10. Screen' # "trace"
  BY <1>1, <1>3 DEF ScreenOK, Screen, session
<1>11. view' \in View /\ ~ view'.loading /\ view'.shown = view.shown /\ StatusAgrees'
  BY <1>2, <1>4, <1>8, <1>9, <1>10 DEF StatusAgrees
<1>12. QED
  BY <1>3, <1>11, SettledStep

-------------------------------------------------------------------------------
(* What a screen is answered. *)

LEMMA RefuseView ==
  ASSUME view \in View, Refuse
  PROVE  /\ view' \in View /\ ~ view'.loading /\ view'.status = "error"
         /\ view'.shown = Nothing
<1> DEFINE b == FALSE
           v == ViewOf(view.id, view.hub, Nothing, b, "error")
<1>1. view' = v
  BY DEF Refuse, View, ViewOf
<1>2. b \in BOOLEAN /\ ~ b /\ "error" \in Status
  BY DEF Status
<1> HIDE DEF b
<1>3. v \in View
  BY <1>2, ViewTypes, NothingIsAnswer, ViewOfGood
<1>4. v.shown = Nothing /\ v.loading = b /\ v.status = "error"
  BY DEF ViewOf
<1>5. QED
  BY <1>1, <1>2, <1>3, <1>4

\* The view that takes an answer, with the status it shows or another one.
LEMMA ShownView ==
  ASSUME view \in View, NEW answer \in Answer, NEW status \in Status,
         \/ view' = [view EXCEPT !.loading = FALSE, !.status = status, !.shown = answer]
         \/ /\ view' = [view EXCEPT !.loading = FALSE, !.shown = answer]
            /\ status = view.status
  PROVE  /\ view' \in View /\ ~ view'.loading /\ view'.status = status
         /\ view'.shown = answer
<1> DEFINE b == FALSE
           v == ViewOf(view.id, view.hub, answer, b, status)
<1>1. view' = v
  BY DEF View, ViewOf
<1>2. b \in BOOLEAN /\ ~ b
  OBVIOUS
<1> HIDE DEF b
<1>3. v \in View
  BY <1>2, ViewTypes, ViewOfGood
<1>4. v.shown = answer /\ v.loading = b /\ v.status = status
  BY DEF ViewOf
<1>5. QED
  BY <1>1, <1>2, <1>3, <1>4

LEMMA ShowStep ==
  ASSUME ScreensInv, NEW q \in Ask, ShowTraced(q) \/ ShowBody(q) \/ ShowList(q)
  PROVE  ScreensInv'
<1>1. view \in View /\ AskOK /\ ScreenOK
  BY DEF ScreensInv
<1>2. /\ ask[q].pc = "answered" /\ ask' = [ask EXCEPT ![q] = IdleAsk]
      /\ UNCHANGED <<session, chain, clipboard>>
  BY DEF ShowTraced, ShowBody, ShowList, Arrived
<1>3. ask[q].answer \in Answer
  BY <1>1 DEF AskOK, AskRecord
<1>4. Screen' = Screen
  BY <1>2 DEF Screen, session
<1>5. CASE ShowTraced(q) /\ ask[q].answer.ok
  <2>1. /\ Screen = "trace"
        /\ view' = [view EXCEPT !.loading = FALSE, !.status = "success",
                                !.shown = ask[q].answer]
    BY <1>5 DEF ShowTraced
  <2>2. /\ view' \in View /\ ~ view'.loading /\ view'.status = "success"
        /\ view'.shown = ask[q].answer
    BY <1>1, <1>3, <2>1, ShownView DEF Status
  <2>3. ask[q].answer.docs # {}
    BY <1>1, <1>2, <1>5, <2>1 DEF ScreenOK, AskOK, GoodAsk
  <2>4. StatusAgrees'
    BY <2>2, <2>3 DEF StatusAgrees
  <2>5. QED
    BY <1>2, <2>2, <2>4, SettledStep
<1>6. CASE ShowTraced(q) /\ ~ ask[q].answer.ok
  <2>1. Refuse
    BY <1>6 DEF ShowTraced
  <2>2. /\ view' \in View /\ ~ view'.loading /\ view'.status = "error"
        /\ view'.shown = Nothing
    BY <1>1, <2>1, RefuseView
  <2>3. StatusAgrees'
    BY <2>2 DEF StatusAgrees
  <2>4. QED
    BY <1>2, <2>2, <2>3, SettledStep
<1>7. CASE ShowBody(q) \/ ShowList(q)
  <2>1. /\ Screen # "trace"
        /\ view' = [view EXCEPT !.loading = FALSE, !.shown = ask[q].answer]
    BY <1>7 DEF ShowBody, ShowList
  <2>2. view' \in View /\ ~ view'.loading /\ view'.shown = ask[q].answer
    BY <1>1, <1>3, <2>1, ViewTypes, ShownView
  <2>3. StatusAgrees'
    BY <1>4, <2>1 DEF StatusAgrees
  <2>4. QED
    BY <1>2, <2>2, <2>3, SettledStep
<1>8. QED
  BY <1>5, <1>6, <1>7

LEMMA BrokenStep ==
  ASSUME ScreensInv, NEW q \in Ask, Broken(q)
  PROVE  ScreensInv'
<1>1. view \in View /\ AskOK /\ ScreenOK
  BY DEF ScreensInv
<1>2. /\ ask[q].pc # "idle" /\ ask' = [ask EXCEPT ![q] = IdleAsk]
      /\ UNCHANGED <<session, chain, clipboard>>
  BY DEF Broken
<1>3. Screen' = Screen
  BY <1>2 DEF Screen, session
<1>4. CASE Screen = "trace"
  <2>1. /\ view' \in View /\ ~ view'.loading /\ view'.status = "error"
        /\ view'.shown = Nothing
    BY <1>1, <1>4, RefuseView DEF Broken
  <2>2. StatusAgrees'
    BY <2>1 DEF StatusAgrees
  <2>3. QED
    BY <1>2, <2>1, <2>2, SettledStep
<1>5. CASE Screen = "overview"
  <2> DEFINE v == ViewOf(view.id, view.hub, Nothing, view.loading, view.status)
  <2>1. view' = v
    BY <1>1, <1>5 DEF Broken, View, ViewOf
  <2>2. v \in View
    BY <1>1, ViewTypes, NothingIsAnswer, ViewOfGood
  <2>3. v.shown = Nothing /\ v.loading = view.loading
    BY DEF ViewOf
  <2> HIDE DEF v
  <2>4. ~ view.loading
    BY <1>1, <1>5 DEF ScreenOK
  <2>5. StatusAgrees'
    BY <1>3, <1>5 DEF StatusAgrees
  <2>6. QED
    BY <1>2, <2>1, <2>2, <2>3, <2>4, <2>5, SettledStep
<1>6. CASE Screen \notin {"trace", "overview"}
  <2> DEFINE b == FALSE
             v == ViewOf(view.id, view.hub, view.shown, b, view.status)
  <2>1. view' = v
    BY <1>1, <1>6 DEF Broken, View, ViewOf
  <2>2. b \in BOOLEAN /\ ~ b
    OBVIOUS
  <2> HIDE DEF b
  <2>3. v \in View
    BY <1>1, <2>2, ViewTypes, ViewOfGood
  <2>4. v.shown = view.shown /\ v.loading = b
    BY DEF ViewOf
  <2> HIDE DEF v
  <2>5. StatusAgrees'
    BY <1>3, <1>6 DEF StatusAgrees
  <2>6. QED
    BY <1>2, <2>1, <2>2, <2>3, <2>4, <2>5, SettledStep
<1>7. QED
  BY <1>4, <1>5, <1>6

\* What the backend finds is in its databases, and there only is what DocsAreHistory
\* says; one document answers for an id, or an error does.
LEMMA FoundGood ==
  ASSUME RelayerInv, NEW region, NEW id
  PROVE  /\ Found(region, id) \in Answer
         /\ id # NoId /\ Found(region, id).ok => Found(region, id).docs # {}
         /\ \A d \in Found(region, id).docs : Historic(d)
<1> DEFINE h == Db(region)
           all == UNION {{DocOf(h, p, i) : i \in DOMAIN docs[h][p]} : p \in Sync!Product}
           first == {DocOf(h, p, 1) :
                       p \in {q \in Sync!Product : q = id /\ docs[h][q] # <<>>}}
<1>1. h \in Hub
  BY DEF Db, Hub
<1>2. \A p \in Sync!Product : docs[h][p] \in Seq(Sync!Version)
  BY <1>1, SameRelayer DEF RelayerInv, Relayer!TypeOK
<1>3. \A p \in Sync!Product : \A i \in 1 .. Len(docs[h][p]) :
        docs[h][p][i] \in 1 .. version[p]
  <2>1. Relayer!DocsAreHistory
    BY DEF RelayerInv, Relayer!SnapshotInv
  <2>2. QED
    BY <1>1, <2>1, SameRelayer DEF Relayer!DocsAreHistory
<1>4. ASSUME NEW p \in Sync!Product, NEW i \in DOMAIN docs[h][p]
      PROVE  DocOf(h, p, i) \in Doc /\ Historic(DocOf(h, p, i))
  <2>1. i \in 1 .. Len(docs[h][p]) /\ docs[h][p] # <<>>
    BY <1>2
  <2>2. docs[h][p][i] \in Sync!Version /\ docs[h][p][i] \in 1 .. version[p]
    BY <1>2, <1>3, <2>1
  <2>3. h = Sync!Home(p)
    BY <1>1, <2>1 DEF RelayerInv, HomeOK
  <2>4. DocOf(h, p, i) \in Doc
    BY <1>1, <2>2 DEF DocOf, Doc
  <2>5. Historic(DocOf(h, p, i))
    BY <2>2, <2>3 DEF DocOf, Historic
  <2>6. QED
    BY <2>4, <2>5
<1>5. \A p \in Sync!Product : docs[h][p] # <<>> => 1 \in DOMAIN docs[h][p]
  BY <1>2
<1> HIDE DEF h
<1>6. /\ all \subseteq Doc /\ \A d \in all : Historic(d)
      /\ first \subseteq Doc /\ \A d \in first : Historic(d)
  BY <1>4, <1>5
<1> HIDE DEF all, first
<1>7. Found(region, id) = CASE id = NoId  -> [ok |-> TRUE, docs |-> all]
                            [] first # {} -> [ok |-> TRUE, docs |-> first]
                            [] OTHER      -> Failure
  BY DEF Found, all, first, h
<1>8. \/ id = NoId /\ Found(region, id) = [ok |-> TRUE, docs |-> all]
      \/ first # {} /\ Found(region, id) = [ok |-> TRUE, docs |-> first]
      \/ Found(region, id) = Failure
  BY <1>7
<1>9. ASSUME NEW some, some \subseteq Doc, \A d \in some : Historic(d),
              id = NoId \/ some # {}, Found(region, id) = [ok |-> TRUE, docs |-> some]
       PROVE  /\ Found(region, id) \in Answer
              /\ id # NoId /\ Found(region, id).ok => Found(region, id).docs # {}
              /\ \A d \in Found(region, id).docs : Historic(d)
  <2>1. Found(region, id).docs = some
    BY <1>9
  <2>2. Found(region, id) \in Answer
    BY <1>9 DEF Answer
  <2>3. QED
    BY <1>9, <2>1, <2>2
<1>10. CASE Found(region, id) = Failure
  BY <1>10, NothingIsAnswer
<1>11. QED
  BY <1>6, <1>8, <1>9, <1>10

LEMMA ServeStep ==
  ASSUME RelayerInv, ScreensInv, NEW q \in Ask, Serve(q)
  PROVE  ScreensInv'
<1>1. view \in View /\ AskOK /\ HistoryOK /\ ScreenOK /\ StatusAgrees
  BY DEF ScreensInv
<1>2. PICK answer \in {Found(ask[q].region, ask[q].id), Failure} :
        ask' = [ask EXCEPT ![q].pc = "answered", ![q].answer = answer]
  BY DEF Serve
<1>3. ask[q] \in AskRecord /\ ask[q].pc = "sent"
  BY <1>1 DEF AskOK, Serve
<1>4. /\ answer \in Answer /\ \A d \in answer.docs : Historic(d)
      /\ ask[q].id # NoId /\ answer.ok => answer.docs # {}
  BY FoundGood, NothingIsAnswer
<1> DEFINE r == [ask[q] EXCEPT !.pc = "answered", !.answer = answer]
<1>5. ask' = [ask EXCEPT ![q] = r]
  BY <1>1, <1>2 DEF AskOK
<1>6. r \in AskRecord
  BY <1>3, <1>4 DEF AskRecord
<1>7. r.pc = "answered" /\ r.id = ask[q].id /\ r.answer = answer
  BY <1>3 DEF AskRecord
<1> HIDE DEF r
<1>8. GoodAsk(r)
  BY <1>4, <1>6, <1>7 DEF GoodAsk
<1>9. AskOK' /\ \A k \in Ask : ask'[k] = IF k = q THEN r ELSE ask[k]
  BY <1>1, <1>5, <1>8, OneAsk
<1>10. UNCHANGED <<version, view, window, clipboard>> /\ Screen' = Screen
  BY DEF Serve, chain, session, Screen
<1>11. HistoryOK'
  <2>1. \A d \in view'.shown.docs : Historic(d)'
    BY <1>1, <1>10, HistoricStays DEF HistoryOK
  <2>2. \A k \in Ask : \A d \in ask'[k].answer.docs : Historic(d)'
    BY <1>1, <1>4, <1>7, <1>9, <1>10, HistoricStays DEF HistoryOK
  <2>3. QED
    BY <2>1, <2>2 DEF HistoryOK
<1>12. ScreenOK'
  <2>1. \A k \in Ask : /\ ask'[k].pc # "idle" <=> ask[k].pc # "idle"
                       /\ ask'[k].id = ask[k].id
                       /\ ask'[k].pc \in {"read", "decode"}
                            <=> ask[k].pc \in {"read", "decode"}
    BY <1>3, <1>7, <1>9
  <2>2. QED
    BY <1>1, <1>10, <2>1 DEF ScreenOK
<1>13. StatusAgrees'
  BY <1>1, <1>10 DEF StatusAgrees
<1>14. QED
  BY <1>1, <1>9, <1>10, <1>11, <1>12, <1>13 DEF ScreensInv, Codes

-------------------------------------------------------------------------------
(* What the user and the relayer do. *)

LEMMA EditStep ==
  ASSUME ScreensInv, NEW id \in Id \cup {NoId}, NEW hub \in Region \cup {""},
         EditTrace(id, hub)
  PROVE  ScreensInv'
<1>1. /\ view \in View /\ AskOK /\ HistoryOK /\ ScreenOK /\ StatusAgrees
      /\ clipboard \in Codes \cup {NoCode}
  BY DEF ScreensInv
<1>2. /\ Screen = "trace" /\ UNCHANGED <<session, chain, clipboard>>
      /\ Screen' = Screen /\ window' = window /\ UNCHANGED version
  BY DEF EditTrace, session, chain, Screen
<1>3. CASE window.traceId # NoId /\ id # NoId
  <2>1. Trace(id, hub) /\ id \in Id
    BY <1>3 DEF EditTrace
  <2>2. QED
    BY <1>2, <1>3, <2>1, TraceStep
<1>4. CASE ~ (window.traceId # NoId /\ id # NoId)
  <2> DEFINE v == ViewOf(id, hub, view.shown, view.loading, view.status)
  <2>1. view' = v /\ UNCHANGED ask
    BY <1>1, <1>4 DEF EditTrace, View, ViewOf
  <2>2. v \in View
    BY <1>1, ViewTypes, ViewOfGood
  <2>3. /\ v.shown = view.shown /\ v.loading = view.loading /\ v.status = view.status
    BY DEF ViewOf
  <2> HIDE DEF v
  <2>4. AskOK' /\ HistoryOK'
    BY <1>1, <1>2, <2>1, <2>3, HistoryStep DEF AskOK, GoodAsk, Codes
  <2>5. ScreenOK' /\ StatusAgrees'
    BY <1>1, <1>2, <2>1, <2>3 DEF ScreenOK, StatusAgrees
  <2>6. QED
    BY <1>1, <1>2, <2>1, <2>2, <2>4, <2>5 DEF ScreensInv, Codes
<1>5. QED
  BY <1>3, <1>4

LEMMA PressStep ==
  ASSUME ScreensInv, PressTrace
  PROVE  ScreensInv'
<1>1. view.id \in Id /\ view.hub \in Region \cup {""}
  BY ViewTypes DEF ScreensInv, PressTrace
<1>2. /\ Screen = "trace" /\ UNCHANGED <<chain, clipboard>> /\ ~ view.loading
      /\ Screen' = "trace" /\ window' = window /\ Trace(view.id, view.hub)
  BY DEF PressTrace, session, Screen
<1>3. QED
  BY <1>1, <1>2, TraceStep

\* A list or an item page asks once more.
LEMMA AskedStep ==
  ASSUME ScreensInv, NEW q \in Ask, NEW region \in Region \cup {""},
         NEW id \in Id \cup {NoId}, AskFor(q, region, id),
         NEW loading \in BOOLEAN, view' = [view EXCEPT !.loading = loading],
         UNCHANGED <<chain, clipboard>>, Screen' # "trace",
         Screen' = "overview" => ~ loading
  PROVE  ScreensInv'
<1> DEFINE v == ViewOf(view.id, view.hub, view.shown, loading, view.status)
<1>1. view \in View /\ AskOK /\ HistoryOK /\ ScreenOK
  BY DEF ScreensInv
<1>2. view' = v
  BY <1>1 DEF View, ViewOf
<1>3. v \in View
  BY <1>1, ViewTypes, ViewOfGood
<1>4. v.shown = view.shown /\ v.loading = loading
  BY DEF ViewOf
<1> HIDE DEF v
<1>5. /\ AskOK'
      /\ \A k \in Ask : IF k = q THEN /\ ask'[k].pc = "sent" /\ ask'[k].id = id
                                      /\ ask'[k].answer = Nothing
                        ELSE ask'[k] = ask[k]
  BY <1>1, AskedOnce
<1>6. HistoryOK'
  BY <1>1, <1>2, <1>4, <1>5, HistoryStep DEF chain
<1>7. ScreenOK' /\ StatusAgrees'
  BY <1>2, <1>4, <1>5 DEF ScreenOK, StatusAgrees
<1>8. QED
  BY <1>2, <1>3, <1>5, <1>6, <1>7 DEF ScreensInv, Codes

LEMMA SwitchStep ==
  ASSUME SessionInv, ScreensInv, NEW hub \in Hub, SwitchHub(hub)
  PROVE  ScreensInv'
<1>1. /\ view \in View /\ AskOK /\ HistoryOK /\ ScreenOK /\ StatusAgrees
      /\ window \in Window
  BY DEF ScreensInv, SessionInv, SessionTypeOK
<1>2. /\ window' = [window EXCEPT !.hub = hub] /\ UNCHANGED <<chain, clipboard>>
  BY DEF SwitchHub, SelectHub
<1>3. /\ window'.page = window.page /\ window'.tab = window.tab
      /\ window'.traceId = window.traceId
  BY <1>1, <1>2 DEF Window
<1>4. Screen' = Screen
  BY <1>3 DEF Screen, ScreenOf
<1>5. hub \in Region \cup {""}
  BY DEF Region
<1> DEFINE again == window.traceId # NoId /\ <<window.traceId, hub>> # <<view.id, view.hub>>
<1>6. CASE Screen \in Lists
  <2> DEFINE b == Screen = "products"
  <2>1. b \in BOOLEAN /\ (Screen = "overview" => ~ b) /\ NoId \in Id \cup {NoId}
    OBVIOUS
  <2>2. view' = [view EXCEPT !.loading = b] /\ \E q \in Ask : AskFor(q, hub, NoId)
    BY <1>6 DEF SwitchHub, Lists
  <2>3. Screen' # "trace"
    BY <1>4, <1>6 DEF Lists
  <2> HIDE DEF b
  <2>4. QED
    BY <1>2, <1>4, <1>5, <2>1, <2>2, <2>3, AskedStep
<1>7. CASE Screen = "trace" /\ again
  <2>1. Trace(window.traceId, hub)
    BY <1>7 DEF SwitchHub, Lists
  <2>2. window.traceId \in Id
    BY <1>1, <1>7 DEF Window
  <2>3. QED
    BY <1>2, <1>3, <1>4, <1>5, <1>7, <2>1, <2>2, TraceStep
<1>8. CASE Screen \notin Lists /\ ~ (Screen = "trace" /\ again)
  <2>1. UNCHANGED <<view, ask>>
    BY <1>8 DEF SwitchHub
  <2>2. AskOK' /\ HistoryOK'
    BY <1>1, <1>2, <2>1, HistoryStep DEF AskOK, GoodAsk, Codes, chain
  <2>3. ScreenOK' /\ StatusAgrees'
    BY <1>1, <1>3, <1>4, <2>1 DEF ScreenOK, StatusAgrees
  <2>4. QED
    BY <1>1, <1>2, <2>1, <2>2, <2>3 DEF ScreensInv, Codes
<1>9. QED
  BY <1>6, <1>7, <1>8

LEMMA JumpStep ==
  ASSUME ScreensInv, NEW region \in Region, NEW id \in Id, Jump(region, id)
  PROVE  ScreensInv'
<1> DEFINE b == TRUE
<1>1. b \in BOOLEAN /\ view' = [view EXCEPT !.loading = b]
      /\ \E q \in Ask : AskFor(q, region, id)
  BY DEF Jump
<1>2. Screen' = "item"
  BY DEF Jump, JumpItem, ItemPage, Bare, Screen, ScreenOf
<1>3. UNCHANGED <<chain, clipboard>>
  BY DEF Jump
<1> HIDE DEF b
<1>4. QED
  BY <1>1, <1>2, <1>3, AskedStep

\* The chain may grow, and the user may take a picture of a code.
LEMMA QuietStep ==
  ASSUME RelayerInv, RelayerInv', ScreensInv, UNCHANGED <<session, view, ask>>,
         clipboard' \in Codes \cup {NoCode},
         \A p \in Sync!Product : version[p] <= version'[p]
  PROVE  ScreensInv'
<1>1. \A p \in Sync!Product : version[p] \in Nat /\ version'[p] \in Nat
  BY SameRelayer, SyncAssumption DEF RelayerInv, Relayer!TypeOK, Sync!Version
<1>2. \A d \in Doc : Historic(d) => Historic(d)'
  <2> SUFFICES ASSUME NEW d \in Doc, Historic(d) PROVE Historic(d)'
    OBVIOUS
  <2>1. d.id \in Sync!Product /\ d.version \in Nat
    BY SyncAssumption DEF Doc, Sync!Version
  <2>2. d.version \in 1 .. version'[d.id]
    BY <1>1, <2>1 DEF Historic
  <2>3. QED
    BY <2>2 DEF Historic, Sync!Home, Sync!HubOf
<1>3. /\ view \in View /\ AskOK /\ HistoryOK /\ ScreenOK /\ StatusAgrees
  BY DEF ScreensInv
<1>4. view.shown.docs \subseteq Doc /\ \A q \in Ask : ask[q].answer.docs \subseteq Doc
  BY <1>3 DEF AskOK, View, AskRecord, Answer
<1>5. HistoryOK'
  BY <1>2, <1>3, <1>4 DEF HistoryOK
<1>6. AskOK' /\ ScreenOK' /\ StatusAgrees'
  BY <1>3 DEF AskOK, GoodAsk, Codes, ScreenOK, StatusAgrees, Screen, session
<1>7. QED
  BY <1>3, <1>5, <1>6 DEF ScreensInv, Codes

LEMMA CrashStep ==
  ASSUME ScreensInv, NEW q \in Ask, TableCrashes(q)
  PROVE  ScreensInv'
<1>1. view' = BlankView /\ ask' = AllIdle /\ UNCHANGED clipboard
  BY DEF TableCrashes
<1>2. Screen' = "crashed"
  BY DEF TableCrashes, Bare, Screen, ScreenOf
<1>3. AskOK' /\ \A k \in Ask : ask'[k].answer = Nothing
  BY <1>1, IdleAskGood DEF AllIdle, AskOK, GoodAsk
<1>4. HistoryOK'
  BY <1>1, <1>3, BlankViewGood, NothingIsAnswer DEF HistoryOK
<1>5. ScreenOK' /\ StatusAgrees'
  BY <1>1, <1>2, BlankViewGood DEF ScreenOK, StatusAgrees
<1>6. QED
  BY <1>1, <1>3, <1>4, <1>5, BlankViewGood DEF ScreensInv, Codes

-------------------------------------------------------------------------------
(* All of it together. *)

Inv == SessionInv /\ RelayerInv /\ ScreensInv

LEMMA InvInit == Init => Inv
<1> SUFFICES ASSUME Init PROVE Inv
  OBVIOUS
<1>1. SessionInv /\ RelayerInv
  BY SessionInitInv, RelayerInit DEF Init
<1>2. view = BlankView /\ ask = AllIdle /\ clipboard = NoCode
  BY DEF Init
<1>3. AskOK /\ \A k \in Ask : ask[k] = IdleAsk
  BY <1>2, IdleAskGood DEF AllIdle, AskOK
<1>4. HistoryOK
  BY <1>2, <1>3, BlankViewGood, IdleAskGood, NothingIsAnswer DEF HistoryOK
<1>5. ScreenOK /\ StatusAgrees
  BY <1>2, <1>3, BlankViewGood, IdleAskGood DEF ScreenOK, StatusAgrees
<1>6. QED
  BY <1>1, <1>2, <1>3, <1>4, <1>5, BlankViewGood DEF Inv, ScreensInv

\* Every step is one of the session's or leaves the session alone.
LEMMA SessionSteps ==
  ASSUME Inv, [Next]_vars
  PROVE  SessionStep \/ UNCHANGED session
<1>1. window \in Window /\ view \in View
  BY DEF Inv, SessionInv, SessionTypeOK, ScreensInv
<1>2. CASE Navigate
  BY <1>2, ProductAssumption DEF Navigate, SessionStep, ClickEntry, Entries, Tab, Rendered
<1>3. CASE OpenScanned
  <2>1. view.hub \in Region \cup {""} /\ view.id \in Id \cup {NoId}
    BY <1>1, ViewTypes
  <2>2. QED
    BY <1>3, <2>1 DEF OpenScanned, SessionStep
<1>4. ASSUME NEW d \in view.shown.docs, Inspect(d)
      PROVE  SessionStep
  <2>1. d.id \in Id
    BY <1>1, ProductAssumption DEF View, Answer, Doc
  <2>2. window.hub \in Region \cup {""}
    BY <1>1 DEF Window
  <2>3. QED
    BY <1>4, <2>1, <2>2 DEF Inspect, SessionStep
<1>5. ASSUME NEW hub \in Hub, SwitchHub(hub)
      PROVE  SessionStep
  BY <1>5 DEF SwitchHub, SessionStep
<1>6. ASSUME NEW region \in Region, NEW id \in Typed, Jump(region, id)
      PROVE  SessionStep
  BY <1>6, ProductAssumption DEF Jump, SessionStep
<1>7. ASSUME NEW q \in Ask, TableCrashes(q)
      PROVE  SessionStep
  BY <1>7 DEF TableCrashes, SessionStep
<1>8. CASE SyncNext \/ PressTrace \/ UNCHANGED vars
  BY <1>8 DEF SyncNext, PressTrace, session, vars
<1>9. ASSUME NEW id, NEW hub, EditTrace(id, hub)
      PROVE  UNCHANGED session
  BY <1>9 DEF EditTrace
<1>10. ASSUME NEW d, GenerateQR(d) \/ CopyForeign(d)
       PROVE  UNCHANGED session
  BY <1>10 DEF GenerateQR, CopyForeign
<1>11. ASSUME NEW q \in Ask, AskNext(q), ~ TableCrashes(q)
       PROVE  UNCHANGED session
  BY <1>11 DEF AskNext, Paste, StartDecoding, Decode, DecodeFails, Serve, ShowTraced,
               ShowBody, ShowList, Broken
<1>12. QED
  BY <1>2, <1>3, <1>4, <1>5, <1>6, <1>7, <1>8, <1>9, <1>10, <1>11 DEF Next

LEMMA SessionKept ==
  ASSUME Inv, [Next]_vars
  PROVE  SessionInv' /\ (storage.pendingId # NoId => UNCHANGED session \/ Handed(storage))
<1>1. CASE SessionStep
  BY <1>1, SessionStepInv DEF Inv
<1>2. CASE UNCHANGED session
  BY <1>2 DEF session, Inv, SessionInv, SessionTypeOK, NoBlankTab, NotRepeated, LoginOK,
              ItemOK, PendingOK
<1>3. QED
  BY <1>1, <1>2, SessionSteps

LEMMA InvStep == Inv /\ [Next]_vars => Inv'
<1> SUFFICES ASSUME Inv, [Next]_vars PROVE Inv'
  OBVIOUS
<1>1. SessionInv /\ RelayerInv /\ ScreensInv
  BY DEF Inv
<1>2. SessionInv' /\ SessionTypeOK'
  BY SessionKept DEF SessionInv
<1>3. CASE SyncNext
  <2>1. RelayerInv' /\ \A p \in Sync!Product : version[p] <= version'[p]
    BY <1>1, <1>3, RelayerStep DEF SyncNext
  <2>2. ScreensInv'
    BY <1>1, <1>3, <2>1, QuietStep DEF SyncNext, ScreensInv
  <2>3. QED
    BY <1>2, <2>1, <2>2 DEF Inv
<1>4. ASSUME UNCHANGED chain, ScreensInv' PROVE Inv'
  BY <1>1, <1>2, <1>4, RelayerStays DEF Inv
<1>5. ASSUME UNCHANGED chain, UNCHANGED <<session, view, ask>>,
             clipboard' \in Codes \cup {NoCode}
      PROVE  Inv'
  <2>1. RelayerInv' /\ UNCHANGED version
    BY <1>1, <1>5, RelayerStays
  <2>2. \A p \in Sync!Product : version[p] <= version'[p]
    BY <1>1, <2>1, SameRelayer, SyncAssumption
       DEF RelayerInv, Relayer!TypeOK, Sync!Version
  <2>3. QED
    BY <1>1, <1>2, <1>5, <2>1, <2>2, QuietStep DEF Inv
<1>6. CASE UNCHANGED vars
  BY <1>1, <1>5, <1>6 DEF vars, chain, session, ScreensInv
<1>7. ASSUME Mount, UNCHANGED <<chain, clipboard>> PROVE Inv'
  BY <1>1, <1>2, <1>4, <1>7, MountStep
<1>8. CASE Navigate \/ OpenScanned
  BY <1>7, <1>8 DEF Navigate, OpenScanned
<1>9. ASSUME NEW d \in view.shown.docs, Inspect(d) \/ GenerateQR(d) PROVE Inv'
  <2>1. d \in Doc
    BY <1>1 DEF ScreensInv, View, Answer
  <2>2. CASE GenerateQR(d)
    BY <1>5, <2>1, <2>2 DEF GenerateQR, Codes
  <2>3. CASE Inspect(d)
    BY <1>7, <2>3 DEF Inspect
  <2>4. QED
    BY <1>9, <2>2, <2>3
<1>10. ASSUME NEW code \in Foreign, CopyForeign(code) PROVE Inv'
  BY <1>5, <1>10 DEF CopyForeign, Codes
<1>11. CASE PressTrace
  BY <1>1, <1>4, <1>11, PressStep DEF PressTrace
<1>12. ASSUME NEW id \in Typed \cup {NoId, view.id}, NEW hub \in Hub \cup {view.hub},
              EditTrace(id, hub)
       PROVE  Inv'
  <2>1. id \in Id \cup {NoId} /\ hub \in Region \cup {""}
    BY <1>1, ProductAssumption, ViewTypes DEF ScreensInv, Region
  <2>2. QED
    BY <1>1, <1>4, <1>12, <2>1, EditStep DEF EditTrace
<1>13. ASSUME NEW hub \in Hub, SwitchHub(hub) PROVE Inv'
  BY <1>1, <1>4, <1>13, SwitchStep DEF SwitchHub
<1>14. ASSUME NEW region \in Region, NEW id \in Typed, Jump(region, id) PROVE Inv'
  BY <1>1, <1>4, <1>14, ProductAssumption, JumpStep DEF Jump
<1>15. ASSUME NEW q \in Ask, AskNext(q) PROVE Inv'
  <2>1. UNCHANGED chain
    BY <1>15 DEF AskNext, Paste, StartDecoding, Decode, DecodeFails, Serve, ShowTraced,
                 ShowBody, ShowList, TableCrashes, Broken
  <2>2. ScreensInv'
    BY <1>1, <1>15, PasteStep, StartDecodingStep, DecodeStep, ServeStep, ShowStep, BrokenStep, CrashStep
       DEF AskNext
  <2>3. QED
    BY <1>4, <2>1, <2>2
<1>16. QED
  BY <1>3, <1>6, <1>8, <1>9, <1>10, <1>11, <1>12, <1>13, <1>14, <1>15 DEF Next

\* What the session, the relayer and the screens keep true together, for any number
\* of requests (TraceView.jsx, ItemDetail.jsx, ProductTable.jsx, app.js:54-129).
THEOREM TraceIsInvariant == Spec => []Inv
  BY InvInit, InvStep, PTL DEF Spec

\* Types: whatever is scanned, typed and answered, ids, hubs and answers are of their
\* kinds (ScanCode.jsx:43-45, app.js:100-129).
THEOREM TraceTypes == Spec => []TypeOK
<1>1. Foreign \subseteq Code /\ \A d \in Doc : Label(d) \in Code
  BY CodeAssumption, ProductAssumption DEF Label, Code, Prefix, Doc
<1>2. Inv => TypeOK
  BY <1>1 DEF Inv, SessionInv, ScreensInv, AskOK, Codes, TypeOK
<1>3. QED
  BY <1>2, TraceIsInvariant, PTL

\* An open dashboard has taken the pending trace out of the storage (App.js:63).
THEOREM PendingIsTaken == Spec => []NotRepeated
<1>1. Inv => NotRepeated
  BY DEF Inv, SessionInv
<1>2. QED
  BY <1>1, TraceIsInvariant, PTL

\* A trace that waits for a login waits on, or a dashboard opens on it
\* (ItemDetail.jsx:35, App.js:54).
THEOREM AuditHandedOver == Spec => AuditIsHandedOver
<1>1. Inv /\ [Next]_vars =>
        [storage.pendingId # NoId =>
           \/ storage'.pendingId # NoId
           \/ /\ window'.page = "dashboard" /\ window'.tab = "trace"
              /\ window'.traceId = storage.pendingId
              /\ window'.hub = storage.pendingHub]_<<storage, window>>
  BY SessionKept DEF Handed, session
<1>2. QED
  BY <1>1, TraceIsInvariant, PTL DEF Spec, AuditIsHandedOver

\* Whatever is on the screen, or about to be, its product has been on the chain, and
\* it is from the database of the product's own hub (app.js:64-89, 100-129).
THEOREM ScreensShowHistory == Spec => []ShownIsHistory
<1>1. Inv => ShownIsHistory
  BY DEF Inv, ScreensInv, HistoryOK, Historic, ShownIsHistory, OnScreen
<1>2. QED
  BY <1>1, TraceIsInvariant, PTL

\* No spinner outside the scanner without a request that will end it (TraceView.jsx:25,
\* ItemDetail.jsx:27, ProductTable.jsx:18): in any order of answers, jumps, edits, hub
\* switches and failures.  The scanner's may stay (ScanCode.jsx:33-38).
THEOREM SpinnersAreAsked == Spec => []LoadingIsAsked
<1>1. Inv => LoadingIsAsked
  BY DEF Inv, ScreensInv, ScreenOK, LoadingIsAsked, Busy
<1>2. QED
  BY <1>1, TraceIsInvariant, PTL

\* A trace view without an id from outside asks one thing at a time
\* (TraceView.jsx:71).
THEOREM OneManualTrace == Spec => []ManualInOrder
<1>1. ASSUME Inv, Screen = "trace", window.traceId = NoId
      PROVE  Cardinality(Busy) <= 1 /\ (view.loading <=> Busy # {})
  <2>1. ScreenOK
    BY <1>1 DEF Inv, ScreensInv
  <2>2. view.loading <=> Busy # {}
    BY <1>1, <2>1 DEF ScreenOK, Busy
  <2>3. CASE Busy = {}
    BY <2>2, <2>3, FS_EmptySet
  <2>4. CASE Busy # {}
    <3>1. PICK q : q \in Busy
      BY <2>4
    <3>2. Busy = {q}
      BY <1>1, <2>1, <3>1 DEF ScreenOK, Busy
    <3>3. Cardinality(Busy) = 1
      BY <3>2, FS_Singleton
    <3>4. QED
      BY <2>2, <3>3
  <2>5. QED
    BY <2>3, <2>4
<1>2. Inv => ManualInOrder
  BY <1>1 DEF ManualInOrder
<1>3. QED
  BY <1>2, TraceIsInvariant, PTL

\* What a trace view says agrees with what it shows (TraceView.jsx:14-27).
THEOREM StatusIsTrue == Spec => []StatusAgrees
<1>1. Inv => StatusAgrees
  BY DEF Inv, ScreensInv
<1>2. QED
  BY <1>1, TraceIsInvariant, PTL

-------------------------------------------------------------------------------
(* The composition. *)

LEMMA RelayerSteps == [Next]_vars => [Relayer!Next]_Relayer!vars
<1> SUFFICES ASSUME [Next]_vars PROVE Relayer!Next \/ UNCHANGED chain
  BY DEF chain, Relayer!vars
<1>1. CASE SyncNext
  BY <1>1, SameRelayer DEF SyncNext
<1>2. CASE Navigate \/ PressTrace \/ OpenScanned \/ UNCHANGED vars
  BY <1>2 DEF Navigate, PressTrace, OpenScanned, vars, chain
<1>3. ASSUME NEW x, NEW y,
             EditTrace(x, y) \/ SwitchHub(x) \/ Jump(x, y) \/ Inspect(x)
               \/ GenerateQR(x) \/ CopyForeign(x)
      PROVE  UNCHANGED chain
  BY <1>3 DEF EditTrace, SwitchHub, Jump, Inspect, GenerateQR, CopyForeign
<1>4. ASSUME NEW q \in Ask, AskNext(q) PROVE UNCHANGED chain
  BY <1>4 DEF AskNext, Paste, StartDecoding, Decode, DecodeFails, Serve, ShowTraced,
              ShowBody, ShowList, TableCrashes, Broken
<1>5. QED
  BY <1>1, <1>2, <1>3, <1>4 DEF Next

\* The relayer under the screens is the relayer of CosmosSync: nothing that a window
\* does reaches the databases.
THEOREM ScreensOnlyRead == Spec => Relayer!Spec
<1>1. Init => Relayer!Init
  BY SameRelayer DEF Init
<1>2. QED
  BY <1>1, RelayerSteps, PTL DEF Spec, Relayer!Spec

\* So an id has one document under the screens too, while runs do not overlap.
THEOREM OneDocumentUnderScreens ==
  ASSUME \A s, t \in Run : s = t
  PROVE  Spec => []IdIdentifies
<1>1. Relayer!Spec => []Relayer!IdIdentifies
  BY RelayerAssumption, Relayer!OneDocumentPerId
<1>2. Relayer!IdIdentifies => IdIdentifies
  BY DEF Relayer!IdIdentifies, IdIdentifies, Sync!IdIdentifies, Sync!Product,
         Relayer!Product, Sync!Hub, Relayer!Hub
<1>3. QED
  BY <1>1, <1>2, ScreensOnlyRead, PTL

\* And the backend is a replica of the chain under the screens, while runs do not
\* overlap: what it answers for a product moves forward, never ahead of the chain, or
\* drops to the bare product of an answer without a list (app.js:54-118).
THEOREM ReplicaUnderScreens ==
  ASSUME \A s, t \in Run : s = t
  PROVE  Spec => ReplicaSpec
<1>1. Relayer!Spec => Relayer!ReplicaSpec
  BY RelayerAssumption, Relayer!ImplementsReplica
<1>2. /\ \A p : Relayer!Shown(p) = Sync!Shown(p) /\ Relayer!Shown(p)' = Sync!Shown(p)'
      /\ Relayer!Product = Sync!Product
  BY DEF Relayer!Shown, Sync!Shown, Relayer!Home, Sync!Home, Relayer!HubOf, Sync!HubOf,
         Relayer!Product, Sync!Product
<1>3. Relayer!Replica!Init => Sync!Replica!Init
  BY <1>2 DEF Relayer!Replica!Init, Sync!Replica!Init
<1>4. [Relayer!Replica!Next]_(Relayer!Replica!vars) => [Sync!Replica!Next]_(Sync!Replica!vars)
  <2>1. UNCHANGED Relayer!Replica!vars => UNCHANGED Sync!Replica!vars
    BY <1>2 DEF Relayer!Replica!vars, Sync!Replica!vars
  <2>2. \A p \in Sync!Product : Relayer!Replica!Grow(p) => Sync!Replica!Grow(p)
    BY <1>2 DEF Relayer!Replica!Grow, Sync!Replica!Grow
  <2>3. \A p \in Sync!Product : Relayer!Replica!CatchUp(p) => Sync!Replica!CatchUp(p)
    BY <1>2 DEF Relayer!Replica!CatchUp, Sync!Replica!CatchUp
  <2>4. \A p \in Sync!Product : Relayer!Replica!Forget(p) => Sync!Replica!Forget(p)
    BY <1>2 DEF Relayer!Replica!Forget, Sync!Replica!Forget
  <2>5. QED
    BY <1>2, <2>1, <2>2, <2>3, <2>4 DEF Relayer!Replica!Next, Sync!Replica!Next
<1>5. QED
  BY <1>1, <1>3, <1>4, ScreensOnlyRead, PTL
     DEF ReplicaSpec, Sync!ReplicaSpec, Sync!Replica!Spec,
         Relayer!ReplicaSpec, Relayer!Replica!Spec

\* With runs that overlap too, an id has at most as many documents as there can be
\* runs in flight, whatever the window does (app.js:89, 148).
THEOREM DuplicatesBoundedUnderScreens ==
  ASSUME IsFiniteSet(Run)
  PROVE  Spec => []Sync!DuplicatesBounded
<1>1. IsFiniteSet(Run) => Relayer!IsFiniteSet(Run)
  BY DEF IsFiniteSet, Relayer!IsFiniteSet
<1>2. Sync!Cardinality(Run) = Relayer!Cardinality(Run)
  BY DEF Sync!Cardinality, Relayer!Cardinality, Sync!IsFiniteSet, Relayer!IsFiniteSet
<1>3. Relayer!Spec => []Relayer!DuplicatesBounded
  BY <1>1, RelayerAssumption, Relayer!BoundedDuplicates
<1>4. Relayer!DuplicatesBounded => Sync!DuplicatesBounded
  BY <1>2 DEF Relayer!DuplicatesBounded, Sync!DuplicatesBounded, Sync!Product,
              Relayer!Product, Sync!Hub, Relayer!Hub
<1>5. QED
  BY <1>3, <1>4, ScreensOnlyRead, PTL

\* And what the screens read may fall back, but is always a version of the chain, and
\* a product once answered for never disappears from them (app.js:89, 148).
THEOREM OverlapReplicaUnderScreens == Spec => Sync!OverlapReplicaSpec
<1>1. Relayer!Spec => Relayer!OverlapReplicaSpec
  BY RelayerAssumption, Relayer!OverlapImplementsReplica
<1>2. /\ \A p : Relayer!Shown(p) = Sync!Shown(p) /\ Relayer!Shown(p)' = Sync!Shown(p)'
      /\ Relayer!Product = Sync!Product
  BY DEF Relayer!Shown, Sync!Shown, Relayer!Home, Sync!Home, Relayer!HubOf, Sync!HubOf,
         Relayer!Product, Sync!Product
<1>3. Relayer!Replica!Init => Sync!Replica!Init
  BY <1>2 DEF Relayer!Replica!Init, Sync!Replica!Init
<1>4. [Relayer!Replica!OverlapNext]_(Relayer!Replica!vars)
        => [Sync!Replica!OverlapNext]_(Sync!Replica!vars)
  <2>1. UNCHANGED Relayer!Replica!vars => UNCHANGED Sync!Replica!vars
    BY <1>2 DEF Relayer!Replica!vars, Sync!Replica!vars
  <2>2. \A p \in Sync!Product : Relayer!Replica!Grow(p) => Sync!Replica!Grow(p)
    BY <1>2 DEF Relayer!Replica!Grow, Sync!Replica!Grow
  <2>3. \A p \in Sync!Product : Relayer!Replica!Overtake(p) => Sync!Replica!Overtake(p)
    BY <1>2 DEF Relayer!Replica!Overtake, Sync!Replica!Overtake
  <2>4. QED
    BY <1>2, <2>1, <2>2, <2>3 DEF Relayer!Replica!OverlapNext, Sync!Replica!OverlapNext
<1>5. QED
  BY <1>1, <1>3, <1>4, ScreensOnlyRead, PTL
     DEF Sync!OverlapReplicaSpec, Sync!Replica!OverlapSpec,
         Relayer!OverlapReplicaSpec, Relayer!Replica!OverlapSpec

===============================================================================

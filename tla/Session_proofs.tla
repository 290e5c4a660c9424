---------------------------- MODULE Session_proofs ----------------------------
(***************************************************************************)
(* What the operations of a window keep true, whichever screens are        *)
(* modelled over it: Workshop_proofs and TraceClients_proofs cite these    *)
(* facts for their own steps.                                              *)
(***************************************************************************)
EXTENDS Session, TLAPS

\* A window is logged in as the storage says, and only an item page names an item.
LoginOK == window.loggedIn <=> storage.role # ""
ItemOK  == window.page = "item" => window.traceId \in Id

\* A trace waits for a login, which hands it over.
PendingOK == storage.pendingId # NoId => ~ window.loggedIn

SessionInv ==
  SessionTypeOK /\ NoBlankTab /\ NotRepeated /\ LoginOK /\ ItemOK /\ PendingOK

\* The operations of Session, and the window whose component crashes.
SessionStep ==
  \/ \E role \in Roles, hub \in Hub, secret \in BOOLEAN : Submit(role, hub, secret)
  \/ Logout \/ Reload \/ Return \/ OpenAudit
  \/ \E region \in Region, id \in Id : VisitItem(region, id) \/ JumpItem(region, id)
  \/ \E region \in Region \cup {""}, id \in Id \cup {NoId} : OpenItem(region, id)
  \/ \E tab \in Tab : ClickEntry(tab)
  \/ \E hub \in Hub : SelectHub(hub)
  \/ \E id \in Id \cup {NoId} : ShowTrace(id)
  \/ window' = Bare("crashed", window.loggedIn) /\ UNCHANGED storage

\* Every entry the sidebar offers a role is one App renders for it.
LEMMA EntriesRendered == \A role : Entries(role) \subseteq Rendered(role)
  BY DEF Entries, Rendered

LEMMA RenderedTabs == \A role : Rendered(role) \subseteq Tab
  BY DEF Rendered, Tab

LEMMA BareWindow ==
  ASSUME NEW page \in {"gate", "nowhere", "crashed"}, NEW in \in BOOLEAN
  PROVE  /\ Bare(page, in) \in Window
         /\ Bare(page, in).page = page /\ Bare(page, in).loggedIn = in
<1>1. Bare(page, in) \in Window
  BY DEF Bare, Window, Page
<1>2. Bare(page, in).page = page /\ Bare(page, in).loggedIn = in
  BY DEF Bare
<1>3. QED
  BY <1>1, <1>2

LEMMA ItemWindow ==
  ASSUME NEW in \in BOOLEAN, NEW region \in Region \cup {""}, NEW id \in Id
  PROVE  LET w == ItemPage(in, region, id)
         IN  w \in Window /\ w.page = "item" /\ w.loggedIn = in /\ w.traceId = id
<1> DEFINE bare == Bare("item", in)
           w == [bare EXCEPT !.hub = region, !.traceId = id]
<1>1. bare \in Window
  BY DEF Bare, Window, Page
<1>2. bare.page = "item" /\ bare.loggedIn = in
  BY DEF Bare
<1>3. w = ItemPage(in, region, id)
  BY DEF ItemPage
<1> HIDE DEF bare
<1>4. w \in Window
  BY <1>1 DEF Window
<1>5. w.page = "item" /\ w.loggedIn = in /\ w.traceId = id
  BY <1>1, <1>2 DEF Window
<1> HIDE DEF w
<1>6. QED
  BY <1>3, <1>4, <1>5

\* What EnterRoot opens.
LEMMA OpenedWindow ==
  ASSUME NEW st \in Storage
  PROVE  /\ Opened(st) \in Window /\ Opened(st).page = "dashboard"
         /\ Opened(st).loggedIn /\ Opened(st).role = st.role
         /\ Opened(st).tab = IF st.pendingId = NoId THEN "overview" ELSE "trace"
         /\ Opened(st).traceId = st.pendingId
         /\ st.pendingId # NoId => Opened(st).hub = st.pendingHub
<1> DEFINE hub == CASE st.pendingId # NoId -> st.pendingHub
                    [] st.pendingId = NoId /\ st.region # "" -> st.region
                    [] OTHER -> "VN"
           tab == IF st.pendingId = NoId THEN "overview" ELSE "trace"
           w == [page |-> "dashboard", loggedIn |-> TRUE, role |-> st.role,
                 hub |-> hub, tab |-> tab, traceId |-> st.pendingId]
<1>1. /\ st.role \in Role \cup {""} /\ st.region \in Hub \cup {""}
      /\ st.pendingId \in Id \cup {NoId} /\ st.pendingHub \in Region \cup {""}
  BY DEF Storage
<1>2. hub \in Region \cup {""} /\ (st.pendingId # NoId => hub = st.pendingHub)
  BY <1>1 DEF Region, Hub
<1>3. tab \in Tab
  BY DEF Tab, Rendered
<1>4. Opened(st) = w
  BY DEF Opened
<1> HIDE DEF hub, tab
<1>5. w \in Window
  BY <1>1, <1>2, <1>3 DEF Window, Page
<1>6. /\ w.page = "dashboard" /\ w.loggedIn /\ w.role = st.role /\ w.hub = hub
      /\ w.tab = tab /\ w.traceId = st.pendingId
  OBVIOUS
<1> HIDE DEF w
<1>7. QED
  BY <1>2, <1>4, <1>5, <1>6 DEF tab

LEMMA ClearedStorage ==
  /\ Cleared \in Storage /\ Cleared.role = "" /\ Cleared.pendingId = NoId
  BY DEF Cleared, Storage

\* A pending trace is still there, or shown on a dashboard.
Handed(st) ==
  \/ storage'.pendingId # NoId
  \/ /\ window'.page = "dashboard" /\ window'.tab = "trace"
     /\ window'.traceId = st.pendingId /\ window'.hub = st.pendingHub

LEMMA EnterRootStep ==
  ASSUME NEW in \in BOOLEAN, NEW st \in Storage, in <=> st.role # "",
         EnterRoot(in, st)
  PROVE  SessionInv' /\ (st.pendingId # NoId => Handed(st))
<1>1. CASE in
  <2> DEFINE new == [st EXCEPT !.pendingId = NoId, !.pendingHub = ""]
  <2>1. window' = Opened(st) /\ storage' = new
    BY <1>1 DEF EnterRoot
  <2>2. new \in Storage
    BY DEF Storage
  <2>3. new.pendingId = NoId /\ new.role = st.role
    BY DEF Storage
  <2> HIDE DEF new
  <2>4. SessionTypeOK'
    BY <2>1, <2>2, OpenedWindow DEF SessionTypeOK, Storage, Window
  <2>5. NoBlankTab'
    BY <2>1, OpenedWindow DEF NoBlankTab, Rendered
  <2>6. NotRepeated' /\ LoginOK' /\ ItemOK' /\ PendingOK'
    BY <1>1, <2>1, <2>3, OpenedWindow DEF NotRepeated, LoginOK, ItemOK, PendingOK
  <2>7. st.pendingId # NoId => Handed(st)
    BY <2>1, OpenedWindow DEF Handed
  <2>8. QED
    BY <2>4, <2>5, <2>6, <2>7 DEF SessionInv
<1>2. CASE ~ in
  <2>1. window' = Bare("gate", FALSE) /\ storage' = st
    BY <1>2 DEF EnterRoot
  <2>2. /\ Bare("gate", FALSE) \in Window /\ Bare("gate", FALSE).page = "gate"
        /\ ~ Bare("gate", FALSE).loggedIn
    BY BareWindow
  <2>3. SessionTypeOK'
    BY <2>1, <2>2 DEF SessionTypeOK, Storage, Window
  <2>4. /\ NoBlankTab' /\ NotRepeated' /\ LoginOK' /\ ItemOK' /\ PendingOK'
    BY <1>2, <2>1, <2>2 DEF NoBlankTab, NotRepeated, LoginOK, ItemOK, PendingOK
  <2>5. st.pendingId # NoId => Handed(st)
    BY <2>1 DEF Handed
  <2>6. QED
    BY <2>3, <2>4, <2>5 DEF SessionInv
<1>3. QED
  BY <1>1, <1>2

\* A step to a window that is no dashboard and leaves the storage alone.
LEMMA LeaveDashboard ==
  ASSUME SessionInv, UNCHANGED storage, window' \in Window,
         window'.page \notin {"dashboard"}, window'.loggedIn <=> storage.role # "",
         window'.page = "item" => window'.traceId \in Id
  PROVE  SessionInv' /\ (storage.pendingId # NoId => Handed(storage))
<1>1. SessionTypeOK'
  BY DEF SessionInv, SessionTypeOK, Storage, Window
<1>2. storage' = storage /\ window'.page # "dashboard"
  OBVIOUS
<1>3. NoBlankTab' /\ NotRepeated' /\ LoginOK' /\ ItemOK'
  BY <1>2 DEF NoBlankTab, NotRepeated, LoginOK, ItemOK
<1>4. PendingOK'
  BY <1>2 DEF SessionInv, LoginOK, PendingOK
<1>5. storage.pendingId # NoId => Handed(storage)
  BY <1>2 DEF Handed
<1>6. QED
  BY <1>1, <1>3, <1>4, <1>5 DEF SessionInv

\* A step within the dashboard.
LEMMA StayOnDashboard ==
  ASSUME SessionInv, UNCHANGED storage, window.page = "dashboard",
         window' \in Window, window'.page = "dashboard",
         window'.loggedIn = window.loggedIn, window'.role = window.role,
         window'.tab \in Rendered(window.role)
  PROVE  SessionInv' /\ storage.pendingId = NoId
<1>1. SessionTypeOK'
  BY DEF SessionInv, SessionTypeOK, Storage, Window
<1>2. NoBlankTab' /\ NotRepeated' /\ storage.pendingId = NoId
  BY DEF SessionInv, NoBlankTab, NotRepeated, Rendered
<1>3. LoginOK' /\ ItemOK' /\ PendingOK'
  BY DEF SessionInv, LoginOK, ItemOK, PendingOK
<1>4. QED
  BY <1>1, <1>2, <1>3 DEF SessionInv

LEMMA SessionInitInv == SessionInit => SessionInv
<1> SUFFICES ASSUME SessionInit PROVE SessionInv
  OBVIOUS
<1>1. storage = Cleared /\ window = Bare("gate", FALSE)
  BY DEF SessionInit
<1>2. window \in Window /\ window.page = "gate" /\ ~ window.loggedIn
  BY <1>1, BareWindow
<1>3. storage \in Storage /\ storage.role = "" /\ storage.pendingId = NoId
  BY <1>1, ClearedStorage
<1>4. QED
  BY <1>2, <1>3 DEF SessionInv, SessionTypeOK, NoBlankTab, NotRepeated, LoginOK,
                    ItemOK, PendingOK

LEMMA SessionStepInv ==
  ASSUME SessionInv, SessionStep
  PROVE  SessionInv' /\ (storage.pendingId # NoId => Handed(storage))
<1>1. /\ storage \in Storage /\ window \in Window
      /\ window.loggedIn \in BOOLEAN /\ (window.loggedIn <=> storage.role # "")
      /\ window.page = "item" => window.traceId \in Id
      /\ window.hub \in Region \cup {""}
      /\ window.page = "dashboard" => storage.pendingId = NoId
  BY DEF SessionInv, SessionTypeOK, LoginOK, ItemOK, NotRepeated, Window
<1>2. ASSUME NEW role \in Roles, NEW hub \in Hub, NEW secret \in BOOLEAN,
             Submit(role, hub, secret)
      PROVE  SessionInv' /\ (storage.pendingId # NoId => Handed(storage))
  <2> DEFINE st == [storage EXCEPT !.role = role, !.region = hub]
  <2>1. role \in Role /\ role # ""
    BY RoleAssumption DEF Role
  <2>2. st \in Storage
    BY <1>1, <2>1 DEF Storage
  <2>3. /\ st.role = role /\ st.pendingId = storage.pendingId
        /\ st.pendingHub = storage.pendingHub
    BY <1>1 DEF Storage
  <2>4. EnterRoot(TRUE, st)
    BY <1>2 DEF Submit
  <2> HIDE DEF st
  <2>5. SessionInv' /\ (st.pendingId # NoId => Handed(st))
    BY <2>1, <2>2, <2>3, <2>4, EnterRootStep
  <2>6. QED
    BY <2>3, <2>5 DEF Handed
<1>3. CASE Logout
  <2>1. storage' = Cleared /\ window' = Bare("gate", FALSE)
    BY <1>3 DEF Logout
  <2>2. window' \in Window /\ window'.page = "gate" /\ ~ window'.loggedIn
    BY <2>1, BareWindow
  <2>3. storage' \in Storage /\ storage'.role = "" /\ storage'.pendingId = NoId
    BY <2>1, ClearedStorage
  <2>4. SessionTypeOK'
    BY <2>2, <2>3 DEF SessionTypeOK, Storage, Window
  <2>5. NoBlankTab' /\ NotRepeated' /\ LoginOK' /\ ItemOK' /\ PendingOK'
    BY <2>2, <2>3 DEF NoBlankTab, NotRepeated, LoginOK, ItemOK, PendingOK
  <2>6. QED
    BY <1>1, <1>3, <2>4, <2>5 DEF SessionInv, Logout
<1>4. CASE Reload
  <2> DEFINE in == storage.role # ""
  <2>1. CASE window.page = "item"
    <3> DEFINE w == [window EXCEPT !.loggedIn = in]
    <3>1. window' = w /\ UNCHANGED storage
      BY <1>4, <2>1 DEF Reload
    <3>2. in \in BOOLEAN
      OBVIOUS
    <3> HIDE DEF in
    <3>3. w \in Window
      BY <1>1, <3>2 DEF Window
    <3>4. w.page = "item" /\ w.loggedIn = in /\ w.traceId = window.traceId
      BY <1>1, <2>1 DEF Window
    <3> HIDE DEF w
    <3>5. QED
      BY <1>1, <2>1, <3>1, <3>3, <3>4, LeaveDashboard DEF in
  <2>2. CASE window.page = "nowhere"
    <3>1. window' = Bare("nowhere", in) /\ UNCHANGED storage /\ in \in BOOLEAN
      BY <1>4, <2>2 DEF Reload
    <3>2. window' \in Window /\ window'.page = "nowhere" /\ window'.loggedIn = in
      BY <3>1, BareWindow
    <3>3. QED
      BY <1>1, <3>1, <3>2, LeaveDashboard
  <2>3. CASE window.page \notin {"item", "nowhere"}
    BY <1>1, <1>4, <2>3, EnterRootStep DEF Reload
  <2>4. QED
    BY <2>1, <2>2, <2>3
<1>5. CASE Return
  BY <1>1, <1>5, EnterRootStep DEF Return
<1>6. CASE OpenAudit
  <2> DEFINE st == [storage EXCEPT !.pendingId = window.traceId,
                                   !.pendingHub = window.hub]
  <2>1. EnterRoot(window.loggedIn, st) /\ window.traceId \in Id
    BY <1>1, <1>6 DEF OpenAudit
  <2>2. st \in Storage
    BY <1>1, <2>1 DEF Storage
  <2>3. st.role = storage.role /\ st.pendingId = window.traceId
    BY <1>1 DEF Storage
  <2>4. SessionInv'
    BY <1>1, <2>1, <2>2, <2>3, EnterRootStep
  <2>5. ASSUME storage.pendingId # NoId PROVE Handed(storage)
    <3>1. ~ window.loggedIn
      BY <2>5 DEF SessionInv, PendingOK
    <3>2. storage' = st
      BY <2>1, <3>1 DEF EnterRoot
    <3>3. QED
      BY <2>1, <2>3, <3>2, IdAssumption DEF Handed
  <2>6. QED
    BY <2>4, <2>5
<1>7. ASSUME NEW region \in Region \cup {""}, NEW id \in Id, NEW in \in BOOLEAN,
             in <=> storage.role # "", window' = ItemPage(in, region, id),
             UNCHANGED storage
      PROVE  SessionInv' /\ (storage.pendingId # NoId => Handed(storage))
  <2>1. /\ window' \in Window /\ window'.page = "item" /\ window'.loggedIn = in
        /\ window'.traceId = id
    BY <1>7, ItemWindow
  <2>2. QED
    BY <1>7, <2>1, LeaveDashboard
<1>8. ASSUME NEW region \in Region, NEW id \in Id,
             VisitItem(region, id) \/ JumpItem(region, id)
      PROVE  SessionInv' /\ (storage.pendingId # NoId => Handed(storage))
  <2>1. (storage.role # "") \in BOOLEAN
    OBVIOUS
  <2>2. QED
    BY <1>1, <1>7, <1>8, <2>1 DEF VisitItem, JumpItem
<1>9. ASSUME NEW region \in Region \cup {""}, NEW id \in Id \cup {NoId},
             OpenItem(region, id)
      PROVE  SessionInv' /\ (storage.pendingId # NoId => Handed(storage))
  <2>1. CASE id = NoId
    <3>1. window' = Bare("nowhere", window.loggedIn) /\ UNCHANGED storage
      BY <1>9, <2>1 DEF OpenItem
    <3>2. /\ window' \in Window /\ window'.page = "nowhere"
          /\ window'.loggedIn = window.loggedIn
      BY <1>1, <3>1, BareWindow
    <3>3. QED
      BY <1>1, <3>1, <3>2, LeaveDashboard
  <2>2. CASE id # NoId
    BY <1>1, <1>7, <1>9, <2>2 DEF OpenItem
  <2>3. QED
    BY <2>1, <2>2
<1>10. ASSUME window.page = "dashboard", UNCHANGED storage, NEW tab \in Rendered(window.role),
              NEW hub \in Region \cup {""}, NEW id \in Id \cup {NoId},
              window' = [window EXCEPT !.hub = hub, !.tab = tab, !.traceId = id]
       PROVE  SessionInv' /\ (storage.pendingId # NoId => Handed(storage))
  <2> DEFINE w == [window EXCEPT !.hub = hub, !.tab = tab, !.traceId = id]
  <2>1. tab \in Tab
    BY RenderedTabs
  <2>2. w \in Window
    BY <1>1, <2>1 DEF Window
  <2>3. /\ w.page = window.page /\ w.loggedIn = window.loggedIn
        /\ w.role = window.role /\ w.tab = tab
    BY <1>1 DEF Window
  <2> HIDE DEF w
  <2>4. window' = w
    BY <1>10 DEF w
  <2>5. QED
    BY <1>10, <2>2, <2>3, <2>4, StayOnDashboard
<1>11. /\ window.hub \in Region \cup {""} /\ window.traceId \in Id \cup {NoId}
       /\ window.page = "dashboard" => window.tab \in Rendered(window.role)
  BY <1>1 DEF Window, SessionInv, NoBlankTab
<1>12. ASSUME NEW tab \in Tab, ClickEntry(tab)
       PROVE  SessionInv' /\ (storage.pendingId # NoId => Handed(storage))
  <2>1. tab \in Rendered(window.role)
    BY <1>12, EntriesRendered DEF ClickEntry
  <2>2. window' = [window EXCEPT !.hub = window.hub, !.tab = tab,
                                 !.traceId = window.traceId]
    BY <1>1, <1>12 DEF ClickEntry, Window
  <2>3. QED
    BY <1>10, <1>11, <1>12, <2>1, <2>2 DEF ClickEntry
<1>13. ASSUME NEW hub \in Hub, SelectHub(hub)
       PROVE  SessionInv' /\ (storage.pendingId # NoId => Handed(storage))
  <2>1. window' = [window EXCEPT !.hub = hub, !.tab = window.tab,
                                 !.traceId = window.traceId]
    BY <1>1, <1>13 DEF SelectHub, Window
  <2>2. hub \in Region \cup {""}
    BY DEF Region
  <2>3. QED
    BY <1>10, <1>11, <1>13, <2>1, <2>2 DEF SelectHub
<1>14. ASSUME NEW id \in Id \cup {NoId}, ShowTrace(id)
       PROVE  SessionInv' /\ (storage.pendingId # NoId => Handed(storage))
  <2>1. window' = [window EXCEPT !.hub = window.hub, !.tab = "trace", !.traceId = id]
    BY <1>1, <1>14 DEF ShowTrace, Window
  <2>2. "trace" \in Rendered(window.role) /\ window.hub \in Region \cup {""}
    BY <1>1 DEF Rendered
  <2>3. window.page = "dashboard" /\ UNCHANGED storage
    BY <1>14 DEF ShowTrace
  <2>4. QED
    BY <1>10, <2>1, <2>2, <2>3
<1>15. CASE window' = Bare("crashed", window.loggedIn) /\ UNCHANGED storage
  <2>1. /\ window' \in Window /\ window'.page = "crashed"
        /\ window'.loggedIn = window.loggedIn
    BY <1>1, <1>15, BareWindow
  <2>2. QED
    BY <1>1, <1>15, <2>1, LeaveDashboard
<1>16. QED
  BY <1>2, <1>3, <1>4, <1>5, <1>6, <1>8, <1>9, <1>12, <1>13, <1>14, <1>15
     DEF SessionStep

===============================================================================

------------------------------- MODULE Session -------------------------------
(***************************************************************************)
(* One browser window of the frontend: the login gate (LoginGate.jsx), the  *)
(* dashboard with its sidebar (App.js, Sidebar.jsx) and the item page of a  *)
(* URL (the route and the two buttons of ItemDetail.jsx), over the          *)
(* localStorage that the windows of a browser share.  The module has no     *)
(* next-state relation of its own: the screens that a window shows are      *)
(* modelled over it in TraceClients and Workshop.                           *)
(***************************************************************************)
CONSTANTS
  Id,       \* product ids, as a URL or a form holds them
  NoId,     \* the empty string
  Roles,    \* bound: the roles the user logs in with
  Visited   \* bound: the sidebar entries the user presses

Hub  == {"VN", "AUS"}
Role == {"customer", "business", "admin"}

\* A URL may spell its region otherwise.
Region == Hub \cup {"aus"}

ASSUME IdAssumption   == NoId \notin Id
ASSUME RoleAssumption == Roles \subseteq Role

VARIABLES
  storage,   \* localStorage
  window     \* what App and Dashboard of this window hold

Storage == [role : Role \cup {""}, region : Hub \cup {""},
            pendingId : Id \cup {NoId}, pendingHub : Region \cup {""}]

Cleared == [role |-> "", region |-> "", pendingId |-> NoId, pendingHub |-> ""]

\* The tabs the sidebar offers a role, and those App renders something for.
Entries(role) ==
  {"overview", "products", "scan", "map", "register-biz", "sydney-node"}
    \cup (IF role = "admin" THEN {"import-excel", "admin-approval", "add-step"}
          ELSE IF role = "business" THEN {"biz-request", "add-step"} ELSE {})

Rendered(role) ==
  {"overview", "products", "scan", "register-biz", "biz-request", "sydney-node",
   "trace", "map"}
    \cup (IF role = "admin" THEN {"import-excel", "admin-approval", "add-step"}
          ELSE IF role = "business" THEN {"add-step"} ELSE {})

Tab == Rendered("admin")

\* hub and traceId are the dashboard's currentHub and activeTraceId, or the region
\* and the id of an item page's URL.  Nothing is rendered "nowhere", where no route
\* matches, and after a component has "crashed".
Page   == {"gate", "dashboard", "item", "nowhere", "crashed"}
Window == [page : Page, loggedIn : BOOLEAN, role : Role \cup {""},
           hub : Region \cup {""}, tab : Tab \cup {""}, traceId : Id \cup {NoId}]

Bare(page, loggedIn) ==
  [page |-> page, loggedIn |-> loggedIn, role |-> "", hub |-> "", tab |-> "",
   traceId |-> NoId]

ItemPage(loggedIn, region, id) ==
  [Bare("item", loggedIn) EXCEPT !.hub = region, !.traceId = id]

\* Mutant: the hub of a pending trace is the hub of the session.
OpenedOnSessionHub(st) ==
  [page |-> "dashboard", loggedIn |-> TRUE, role |-> st.role,
   hub |-> IF st.region = "" THEN "VN" ELSE st.region,
   tab |-> IF st.pendingId = NoId THEN "overview" ELSE "trace",
   traceId |-> st.pendingId]

\* A dashboard after its mount and its first effects: a pending trace is shown.
Opened(st) ==
  [page |-> "dashboard", loggedIn |-> TRUE, role |-> st.role,
   hub |-> CASE st.pendingId # NoId -> st.pendingHub
             [] st.pendingId = NoId /\ st.region # "" -> st.region
             [] OTHER -> "VN",
   tab |-> IF st.pendingId = NoId THEN "overview" ELSE "trace",
   traceId |-> st.pendingId]

SessionInit ==
  /\ storage = Cleared
  /\ window = Bare("gate", FALSE)

\* The path "/" with this storage: the dashboard, which takes a pending trace out
\* of the storage, or the gate.
EnterRoot(loggedIn, st) ==
  /\ window' = IF loggedIn THEN Opened(st) ELSE Bare("gate", FALSE)
  /\ storage' = IF loggedIn THEN [st EXCEPT !.pendingId = NoId, !.pendingHub = ""]
                ELSE st

\* The form of the gate is submitted; secret says that the password is right.
Submit(role, region, secret) ==
  /\ window.page = "gate"
  /\ role = "admin" => secret
  /\ EnterRoot(TRUE, [storage EXCEPT !.role = role, !.region = region])

Logout ==
  /\ window.page = "dashboard"
  /\ storage' = Cleared
  /\ window' = Bare("gate", FALSE)

\* The document is loaded again, and App reads the storage.
Reload ==
  LET in == storage.role # "" IN
  CASE window.page = "item"    -> /\ window' = [window EXCEPT !.loggedIn = in]
                                  /\ UNCHANGED storage
    [] window.page = "nowhere" -> window' = Bare("nowhere", in) /\ UNCHANGED storage
    [] OTHER                   -> EnterRoot(in, storage)

\* The URL of an item is typed or followed from outside.
VisitItem(region, id) ==
  /\ window' = ItemPage(storage.role # "", region, id)
  /\ UNCHANGED storage

\* navigate(`/item/...`) of a dashboard; an empty id leads nowhere.
OpenItem(region, id) ==
  /\ window.page = "dashboard"
  /\ window' = IF id = NoId THEN Bare("nowhere", window.loggedIn)
               ELSE ItemPage(window.loggedIn, region, id)
  /\ UNCHANGED storage

\* The history of the browser leads from one item page to another.
JumpItem(region, id) ==
  /\ window.page = "item"
  /\ <<region, id>> # <<window.hub, window.traceId>>
  /\ window' = ItemPage(window.loggedIn, region, id)
  /\ UNCHANGED storage

\* navigate(-1), or the browser's button, back to "/".
Return ==
  /\ window.page \in {"item", "nowhere"}
  /\ EnterRoot(window.loggedIn, storage)

\* handleOpenAudit.
OpenAudit ==
  /\ window.page = "item"
  /\ EnterRoot(window.loggedIn, [storage EXCEPT !.pendingId = window.traceId,
                                                !.pendingHub = window.hub])

ClickEntry(tab) ==
  /\ window.page = "dashboard"
  /\ tab \in Entries(window.role) \cap Visited
  /\ tab # window.tab
  /\ window' = [window EXCEPT !.tab = tab]
  /\ UNCHANGED storage

SelectHub(hub) ==
  /\ window.page = "dashboard"
  /\ hub # window.hub
  /\ window' = [window EXCEPT !.hub = hub]
  /\ UNCHANGED storage

\* setActiveTraceId and setActiveTab('trace') of the scanner and of the step form.
ShowTrace(id) ==
  /\ window.page = "dashboard"
  /\ window' = [window EXCEPT !.tab = "trace", !.traceId = id]
  /\ UNCHANGED storage

-------------------------------------------------------------------------------
(* What a window keeps true. *)

\* The storage and the window hold values of their kinds.
SessionTypeOK == storage \in Storage /\ window \in Window

\* A dashboard always has something to show: whatever role it is opened with and
\* whichever entries, scans and timers move it, App renders the tab it is on (the
\* conditions of App.js:101-115 and of Sidebar.jsx:51-91 are written twice).
NoBlankTab == window.page = "dashboard" => window.tab \in Rendered(window.role)

\* "xóa đi để không bị lặp lại khi F5" (App.js:63): an open dashboard leaves no
\* pending trace in the storage that a reload would show again.
NotRepeated == window.page = "dashboard" => storage.pendingId = NoId

\* A trace asked for on an item page while logged out waits in the storage, over
\* reloads and other item pages, until a dashboard opens on it and on its hub or a
\* newer request takes its place (ItemDetail.jsx:35, App.js:54).
AuditIsHandedOver ==
  [][storage.pendingId # NoId =>
       \/ storage'.pendingId # NoId
       \/ /\ window'.page = "dashboard" /\ window'.tab = "trace"
          /\ window'.traceId = storage.pendingId
          /\ window'.hub = storage.pendingHub]_<<storage, window>>
===============================================================================

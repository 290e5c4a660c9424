------------------------------- MODULE Workshop -------------------------------
(***************************************************************************)
(* What a window writes: the step form (AddStep.jsx), the request form of a *)
(* business (BusinessRequestForm.jsx) and the batch import, on the tabs of  *)
(* a Session.  A submitted form goes on after its tab is left, and after a  *)
(* logout; a reload ends it, except for a transaction that is sent.         *)
(***************************************************************************)
EXTENDS Session, ImportExcel

CONSTANTS
  Job,       \* bound: runs of handleAddStep and handleSubmit
  Errands,   \* bound: the sets of tabs that a user keeps to
  LoginHubs  \* bound: the hubs that users log in to

VARIABLES
  errand,    \* the tabs this user keeps to
  form,      \* the state of the mounted form
  job,       \* job -> its place in its handler and its closure
  onHub,     \* the jobs whose step is on a hub contract
  stored     \* the jobs whose step is on Cosmos, or whose request is at the server

vars  == <<storage, window, importVars, errand, form, job, onHub, stored>>
forms == <<form, job, onHub, stored>>

\* key is the id of the product, or the business and its region; filled is whether
\* the other required fields are.
Form == [key : Id \cup {NoId}, filled : BOOLEAN, loading : BOOLEAN,
         status : {"", "info", "success", "error"}]

BlankForm == [key |-> NoId, filled |-> FALSE, loading |-> FALSE, status |-> ""]

\* "sign", "wait" and "bridge" are the awaits of handleAddStep, "post" is the one of
\* handleSubmit; "timer" has shown success, "silent" has not for want of an output.
Pending   == {"sign", "wait", "bridge", "post"}
JobRecord == [pc : Pending \cup {"idle", "timer", "success", "silent", "failed", "cut"},
              tx : {"none", "pool", "mined", "reverted"}, key : Id \cup {NoId},
              form : BOOLEAN, dashboard : BOOLEAN]

IdleJob == [pc |-> "idle", tx |-> "none", key |-> NoId, form |-> FALSE,
            dashboard |-> FALSE]

FormTabs == {"add-step", "biz-request"}
Screen   == IF window.page = "dashboard" THEN window.tab ELSE window.page

ASSUME ErrandAssumption == \A tabs \in Errands : tabs \subseteq Tab
ASSUME LoginAssumption  == LoginHubs \subseteq Hub

Init ==
  /\ SessionInit /\ ImportInit
  /\ errand \in Errands
  /\ form = BlankForm
  /\ job = [j \in Job |-> IdleJob]
  /\ onHub = {} /\ stored = {}

-------------------------------------------------------------------------------
(* Moving between the tabs. *)

\* Mutant: a job still answers to the form, although it is a new one.
DetachedDashboardOnly(kept, cut) ==
  job' = [j \in Job |-> [job[j] EXCEPT
            !.dashboard = @ /\ kept,
            !.pc = IF cut /\ @ \in Pending \cup {"timer"} THEN "cut" ELSE @]]

\* The form of every job is unmounted; the dashboard's setters work for it as long
\* as the dashboard is kept; a reload cuts it.
Detached(kept, cut) ==
  job' = [j \in Job |-> [job[j] EXCEPT
            !.form = FALSE, !.dashboard = @ /\ kept,
            !.pc = IF cut /\ @ \in Pending \cup {"timer"} THEN "cut" ELSE @]]

Remount(kept, cut) ==
  /\ form' = BlankForm
  /\ Detached(kept, cut)
  /\ CASE cut \/ Screen = "import-excel"      -> LeaveImport(cut)
       [] ~ cut /\ Screen' = "import-excel"   -> OpenImport
       [] OTHER                               -> UNCHANGED importVars
  /\ UNCHANGED <<errand, onHub, stored>>

ChangeTab(tab) ==
  /\ tab \in errand
  /\ ClickEntry(tab)
  /\ Remount(TRUE, FALSE)

LogIn(role, hub) ==
  /\ Submit(role, hub, TRUE)
  /\ Remount(FALSE, FALSE)

LogOut == Logout /\ Remount(FALSE, FALSE)

ReloadPage == Reload /\ Remount(FALSE, TRUE)

\* currentHub is a prop: whatever is mounted stays, and a running job keeps its hub.
ChangeHub(hub) ==
  /\ SelectHub(hub)
  /\ UNCHANGED <<importVars, errand, forms>>

-------------------------------------------------------------------------------
(* The forms. *)

Elsewhere == <<storage, window, importVars, errand>>

\* The fields are not disabled while a job is running.
Type(key, filled) ==
  /\ Screen \in FormTabs
  /\ form' = [form EXCEPT !.key = key, !.filled = filled]
  /\ UNCHANGED <<Elsewhere, job, onHub, stored>>

\* handleAddStep with an id or a title missing; the browser itself holds back a
\* request form that is not filled in.
Reject ==
  /\ Screen = "add-step"
  /\ ~ form.loading
  /\ form.key = NoId \/ ~ form.filled
  /\ form' = [form EXCEPT !.status = "error"]
  /\ UNCHANGED <<Elsewhere, job, onHub, stored>>

\* handleAddStep and handleSubmit up to their first await.
SubmitForm(j) ==
  /\ Screen \in FormTabs
  /\ ~ form.loading /\ form.key # NoId /\ form.filled
  /\ job[j].pc = "idle"
  /\ form' = [form EXCEPT !.loading = TRUE, !.status = "info"]
  /\ job' = [job EXCEPT ![j] =
       [pc |-> IF Screen = "add-step" THEN "sign" ELSE "post", tx |-> "none",
        key |-> form.key, form |-> TRUE, dashboard |-> TRUE]]
  /\ UNCHANGED <<Elsewhere, onHub, stored>>

\* The wallet signs and sends addProductionLog.
SendStep(j) ==
  /\ job[j].pc = "sign"
  /\ job' = [job EXCEPT ![j].pc = "wait", ![j].tx = "pool"]
  /\ UNCHANGED <<Elsewhere, form, onHub, stored>>

MineStep(j) ==
  /\ job[j].tx = "pool"
  /\ job' = [job EXCEPT ![j].tx = "mined"]
  /\ onHub' = onHub \cup {j}
  /\ UNCHANGED <<Elsewhere, form, stored>>

RevertStep(j) ==
  /\ job[j].tx = "pool"
  /\ job' = [job EXCEPT ![j].tx = "reverted"]
  /\ UNCHANGED <<Elsewhere, form, onHub, stored>>

\* Mutant: tx.wait() is not awaited.
StepNotAwaited(j) ==
  /\ job[j].pc = "wait"
  /\ job' = [job EXCEPT ![j].pc = "bridge"]
  /\ UNCHANGED <<Elsewhere, form, onHub, stored>>

\* tx.wait() returns.
StepReceipt(j) ==
  /\ job[j].pc = "wait" /\ job[j].tx = "mined"
  /\ job' = [job EXCEPT ![j].pc = "bridge"]
  /\ UNCHANGED <<Elsewhere, form, onHub, stored>>

\* The end of a handler: what it does to the form, if that is still mounted.
EndJob(j, pc, end) ==
  /\ job' = [job EXCEPT ![j].pc = pc]
  /\ form' = IF job[j].form THEN end ELSE form

\* POST /api/mint answers, with the output of the command if it ran: the fields are
\* emptied in either case.
BridgeAnswers(j, output) ==
  /\ job[j].pc = "bridge"
  /\ stored' = IF output THEN stored \cup {j} ELSE stored
  /\ IF output THEN EndJob(j, "timer", [BlankForm EXCEPT !.status = "success"])
     ELSE EndJob(j, "silent", [BlankForm EXCEPT !.status = form.status])
  /\ UNCHANGED <<Elsewhere, onHub>>

\* POST /api/requests/create answers: the form goes back to the closure's fields,
\* less those of the product.
RequestCreated(j) ==
  /\ job[j].pc = "post"
  /\ stored' = stored \cup {j}
  /\ EndJob(j, "success", [BlankForm EXCEPT !.key = job[j].key, !.status = "success"])
  /\ UNCHANGED <<Elsewhere, onHub>>

\* The server has done what it was asked, and the answer is lost.
AnswerLost(j) ==
  /\ job[j].pc \in {"bridge", "post"}
  /\ stored' = stored \cup {j}
  /\ EndJob(j, "failed", [form EXCEPT !.loading = FALSE, !.status = "error"])
  /\ UNCHANGED <<Elsewhere, onHub>>

\* Mutant: setLoading(false) is at the end of try.
FailKeepsLoading(j) ==
  /\ job[j].pc \in Pending
  /\ EndJob(j, "failed", [form EXCEPT !.status = "error"])
  /\ UNCHANGED <<Elsewhere, onHub, stored>>

\* catch and finally: no wallet, a refusal, a revert, an error status or no answer.
\* The fields keep what was typed.
JobFails(j) ==
  /\ job[j].pc \in Pending
  /\ EndJob(j, "failed", [form EXCEPT !.loading = FALSE, !.status = "error"])
  /\ UNCHANGED <<Elsewhere, onHub, stored>>

\* Mutant: the timer's setters reach a dashboard that was opened since.
TimerOfAnyDashboard(j) ==
  /\ job[j].pc = "timer"
  /\ IF window.page = "dashboard"
     THEN /\ ShowTrace(job[j].key)
          /\ form' = BlankForm
          /\ job' = [k \in Job |-> [job[k] EXCEPT !.form = FALSE,
                                     !.pc = IF k = j THEN "success" ELSE @]]
          /\ IF Screen = "import-excel" THEN LeaveImport(FALSE)
             ELSE UNCHANGED importVars
     ELSE /\ job' = [job EXCEPT ![j].pc = "success"]
          /\ UNCHANGED <<storage, window, importVars, form>>
  /\ UNCHANGED <<errand, onHub, stored>>

\* The timer takes the dashboard that the form was on, if it is still there, from
\* whichever tab to the trace of the step.
TimerFires(j) ==
  /\ job[j].pc = "timer"
  /\ IF job[j].dashboard
     THEN /\ ShowTrace(job[j].key)
          /\ form' = BlankForm
          /\ job' = [k \in Job |-> [job[k] EXCEPT !.form = FALSE,
                                     !.pc = IF k = j THEN "success" ELSE @]]
          /\ IF Screen = "import-excel" THEN LeaveImport(FALSE)
             ELSE UNCHANGED importVars
     ELSE /\ job' = [job EXCEPT ![j].pc = "success"]
          /\ UNCHANGED <<storage, window, importVars, form>>
  /\ UNCHANGED <<errand, onHub, stored>>

ImportGoesOn == ImportStep /\ UNCHANGED <<storage, window, errand, forms>>

JobNext(j) ==
  \/ SubmitForm(j) \/ SendStep(j) \/ MineStep(j) \/ RevertStep(j) \/ StepReceipt(j)
  \/ \E output \in BOOLEAN : BridgeAnswers(j, output)
  \/ RequestCreated(j) \/ AnswerLost(j) \/ JobFails(j) \/ TimerFires(j)

Next ==
  \/ ImportGoesOn \/ LogOut \/ ReloadPage \/ Reject
  \/ \E tab \in Tab : ChangeTab(tab)
  \/ \E role \in Roles, hub \in LoginHubs : LogIn(role, hub)
  \/ \E hub \in Hub : ChangeHub(hub)
  \/ \E key \in Id \cup {NoId}, filled \in BOOLEAN : Type(key, filled)
  \/ \E j \in Job : JobNext(j)

Spec == Init /\ [][Next]_vars

\* The wallet, the chain and the servers answer, or an await fails; timers fire.
\* Nobody has to start anything, nor to stay.
FairSpec ==
  /\ Spec
  /\ \A j \in Job :
       /\ WF_vars(SendStep(j) \/ StepReceipt(j) \/ JobFails(j) \/ RequestCreated(j)
                    \/ \E output \in BOOLEAN : BridgeAnswers(j, output))
       /\ WF_vars(TimerFires(j))
  /\ \A l \in Loop : WF_vars(ImportGoesOn /\ (SendChunk(l) \/ ChunkReceipt(l) \/ Fatal(l)))

-------------------------------------------------------------------------------
(* What the workshop keeps true. *)

\* Every variable holds a value of its kind.
TypeOK ==
  /\ SessionTypeOK /\ ImportTypeOK
  /\ errand \in Errands
  /\ form \in Form
  /\ job \in [Job -> JobRecord]
  /\ onHub \subseteq Job /\ stored \subseteq Job

\* No step is on Cosmos that is not on a hub, and none is reported as logged that is
\* not on both, whatever tabs, logouts, reloads and lost answers come in between
\* (the order of the two stages, AddStep.jsx:36-68).
CosmosBehindHub ==
  \A j \in Job :
    /\ job[j].tx # "none" /\ j \in stored => j \in onHub
    /\ job[j].pc \in {"timer", "success"} => j \in stored

\* Logging steps implements its two stages: Cosmos takes steps one by one out of
\* those on a hub, and neither chain ever loses one (AddStep.jsx:36-68).
LogThenBridge == INSTANCE TwoStage WITH
  first  <- onHub,
  second <- {j \in stored : job[j].tx # "none"}
StagesInOrder == LogThenBridge!Spec

\* The button of a form is disabled as long as the one job it started is running: a
\* form mounted anew is neither held by the job of the last one nor released by it
\* (AddStep.jsx:83, BusinessRequestForm.jsx:40).
LoadingIsRunning ==
  LET own == {j \in Job : job[j].form /\ job[j].pc \in Pending} IN
  /\ form.loading <=> own # {}
  /\ \A j, k \in own : j = k

\* A trace that nobody clicked for is opened in the session that logged the step, and
\* for a step that is on both chains (AddStep.jsx:70-74).
TraceIsOfThisSession ==
  [][window.page = "dashboard" /\ window'.tab = "trace" /\ window.tab # "trace" =>
       \E j \in Job : job[j].dashboard /\ j \in onHub /\ j \in stored
                        /\ window'.traceId = job[j].key]_vars

\* What was submitted comes to an end: the button of a form comes back and a mint is
\* over, if the wallet, the chain and the servers answer or fail (AddStep.jsx:83,
\* BusinessRequestForm.jsx:40, ImportExcel.jsx:115, 121).  The icon of the import may
\* turn on: after [FATAL], or over a file that cannot be read, the step stays 2.
RunsEnd == (form.loading \/ table.minting) ~> ~ (form.loading \/ table.minting)
===============================================================================

---------------------------- MODULE Workshop_proofs ----------------------------
(***************************************************************************)
(* Theorems about a window at work, for any number of jobs, loops, products *)
(* and hubs, whatever the user does in between: every step of the window is *)
(* a step of the import or leaves it alone, so what ImportExcel_proofs says *)
(* of the import holds here; the session keeps its promises; and the jobs   *)
(* of the two forms keep the order of their stages.                         *)
(***************************************************************************)
EXTENDS Workshop, ImportExcel_proofs, Session_proofs

-------------------------------------------------------------------------------
(* The window composes the session and the import. *)

LEMMA RemountImports ==
  ASSUME NEW kept \in BOOLEAN, NEW cut \in BOOLEAN, Remount(kept, cut)
  PROVE  [ImportNext]_importVars
  BY DEF Remount, ImportNext

LEMMA TimerImports ==
  ASSUME NEW j \in Job, TimerFires(j)
  PROVE  [ImportNext]_importVars
<1>1. \/ LeaveImport(FALSE) \/ UNCHANGED importVars
  BY DEF TimerFires
<1>2. QED
  BY <1>1 DEF ImportNext

LEMMA JobImports ==
  ASSUME NEW j \in Job, JobNext(j)
  PROVE  [ImportNext]_importVars
<1>1. CASE TimerFires(j)
  BY <1>1, TimerImports
<1>2. CASE SubmitForm(j) \/ SendStep(j) \/ MineStep(j) \/ RevertStep(j) \/ StepReceipt(j)
  BY <1>2 DEF SubmitForm, SendStep, MineStep, RevertStep, StepReceipt, Elsewhere
<1>3. CASE \/ \E output \in BOOLEAN : BridgeAnswers(j, output)
           \/ RequestCreated(j) \/ AnswerLost(j) \/ JobFails(j)
  BY <1>3 DEF BridgeAnswers, RequestCreated, AnswerLost, JobFails, Elsewhere
<1>4. QED
  BY <1>1, <1>2, <1>3 DEF JobNext

LEMMA NextImports == [Next]_vars => [ImportNext]_importVars
<1> SUFFICES ASSUME [Next]_vars PROVE [ImportNext]_importVars
  OBVIOUS
<1>1. CASE UNCHANGED vars
  BY <1>1 DEF vars
<1>2. CASE ImportGoesOn
  BY <1>2 DEF ImportGoesOn, ImportNext
<1>3. CASE \/ LogOut \/ ReloadPage \/ \E tab \in Tab : ChangeTab(tab)
           \/ \E role \in Roles, hub \in LoginHubs : LogIn(role, hub)
  BY <1>3, RemountImports DEF LogOut, ReloadPage, ChangeTab, LogIn
<1>4. CASE \/ \E hub \in Hub : ChangeHub(hub)
           \/ Reject \/ \E key \in Id \cup {NoId}, filled \in BOOLEAN : Type(key, filled)
  BY <1>4 DEF ChangeHub, Reject, Type, Elsewhere
<1>5. CASE \E j \in Job : JobNext(j)
  BY <1>5, JobImports
<1>6. QED
  BY <1>1, <1>2, <1>3, <1>4, <1>5 DEF Next

\* A window at work imports as ImportExcel says, whatever else it does.
THEOREM WorkshopImports == Spec => ImportSpec
<1>1. Init => ImportInit
  BY DEF Init
<1>2. QED
  BY <1>1, NextImports, PTL DEF Spec, ImportSpec

-------------------------------------------------------------------------------
(* The jobs of the forms. *)

\* What the place of a job says of its step, of the hub and of what is stored.
GoodJob(r, mined, kept) ==
  /\ r \in JobRecord
  /\ r.pc = "idle" => ~ r.form
  /\ r.pc \in {"idle", "sign"} => r.tx = "none" /\ ~ kept
  /\ r.pc = "post" => r.tx = "none"
  /\ r.pc \in {"bridge", "timer"} => r.tx = "mined"
  /\ r.pc \in {"timer", "success"} => kept
  /\ r.tx # "none" /\ kept => r.tx = "mined"
  /\ r.tx = "mined" => mined

JobsOK ==
  /\ job \in [Job -> JobRecord] /\ onHub \subseteq Job /\ stored \subseteq Job
  /\ \A j \in Job : GoodJob(job[j], j \in onHub, j \in stored)

\* The job that the button of the form is disabled for.
OwnJob(r) == r.form /\ r.pc \in Pending

FormOK ==
  /\ form \in Form
  /\ form.loading => \E j \in Job : OwnJob(job[j])
  /\ \A j \in Job : OwnJob(job[j]) => form.loading
  /\ \A j, k \in Job : OwnJob(job[j]) /\ OwnJob(job[k]) => j = k

\* The dashboard of this window writes no pending trace.
WindowOK == SessionInv /\ storage.pendingId = NoId

WorkshopInv == WindowOK /\ errand \in Errands /\ FormOK /\ JobsOK

LEMMA BlankFormGood == BlankForm \in Form /\ ~ BlankForm.loading
<1>1. BlankForm \in Form
  BY DEF BlankForm, Form
<1>2. QED
  BY <1>1 DEF BlankForm

\* A step that gives one job a good record.
LEMMA OneJob ==
  ASSUME WorkshopInv, NEW j \in Job, NEW r,
         GoodJob(r, j \in onHub', j \in stored'),
         job' = [job EXCEPT ![j] = r],
         onHub' \in {onHub, onHub \cup {j}}, stored' \in {stored, stored \cup {j}}
  PROVE  JobsOK' /\ \A k \in Job : job'[k] = IF k = j THEN r ELSE job[k]
<1>1. /\ job \in [Job -> JobRecord] /\ onHub \subseteq Job /\ stored \subseteq Job
      /\ \A k \in Job : GoodJob(job[k], k \in onHub, k \in stored)
  BY DEF WorkshopInv, JobsOK
<1>2. job' \in [Job -> JobRecord]
  BY <1>1 DEF GoodJob
<1>3. \A k \in Job : job'[k] = IF k = j THEN r ELSE job[k]
  BY <1>1
<1>4. onHub' \subseteq Job /\ stored' \subseteq Job
  BY <1>1
<1>5. \A k \in Job : k # j => /\ k \in onHub' <=> k \in onHub
                              /\ k \in stored' <=> k \in stored
  OBVIOUS
<1>6. ASSUME NEW k \in Job PROVE GoodJob(job'[k], k \in onHub', k \in stored')
  <2>1. CASE k = j
    BY <1>3, <2>1
  <2>2. CASE k # j
    BY <1>1, <1>3, <1>5, <2>2 DEF GoodJob
  <2>3. QED
    BY <2>1, <2>2
<1>7. QED
  BY <1>2, <1>3, <1>4, <1>6 DEF JobsOK, GoodJob, JobRecord, Pending

\* A step of a job that runs on, or that did not hold the form.
LEMMA RunsOn ==
  ASSUME WorkshopInv, NEW j \in Job, NEW r,
         \A k \in Job : job'[k] = IF k = j THEN r ELSE job[k],
         OwnJob(r) <=> OwnJob(job[j]), form' = form
  PROVE  FormOK'
<1>1. \A k \in Job : OwnJob(job'[k]) <=> OwnJob(job[k])
  OBVIOUS
<1>2. QED
  BY <1>1 DEF WorkshopInv, FormOK, Form, OwnJob, Pending

\* The end of a job, which enables the form if that is still the job's.
LEMMA RunsOut ==
  ASSUME WorkshopInv, NEW j \in Job, job[j].pc \in Pending, NEW r, r.pc \notin Pending,
         \A k \in Job : job'[k] = IF k = j THEN r ELSE job[k],
         NEW end, end \in Form, ~ end.loading,
         form' = IF job[j].form THEN end ELSE form
  PROVE  FormOK'
<1>1. \A k \in Job : OwnJob(job'[k]) <=> k # j /\ OwnJob(job[k])
  BY DEF OwnJob
<1>2. CASE job[j].form
  <2>1. \A k \in Job : ~ OwnJob(job'[k])
    BY <1>1, <1>2 DEF WorkshopInv, FormOK, OwnJob
  <2>2. QED
    BY <1>2, <2>1 DEF FormOK, Form, OwnJob, Pending
<1>3. CASE ~ job[j].form
  <2>1. \A k \in Job : OwnJob(job'[k]) <=> OwnJob(job[k])
    BY <1>1, <1>3 DEF OwnJob
  <2>2. QED
    BY <1>3, <2>1 DEF WorkshopInv, FormOK, Form, OwnJob, Pending
<1>4. QED
  BY <1>2, <1>3

-------------------------------------------------------------------------------
(* Moving between the tabs. *)

LEMMA DetachedJobs ==
  ASSUME WorkshopInv, NEW kept \in BOOLEAN, NEW cut \in BOOLEAN, Detached(kept, cut),
         UNCHANGED <<onHub, stored>>
  PROVE  JobsOK' /\ \A j \in Job : ~ job'[j].form
<1>1. /\ job \in [Job -> JobRecord] /\ onHub \subseteq Job /\ stored \subseteq Job
      /\ \A j \in Job : GoodJob(job[j], j \in onHub, j \in stored)
  BY DEF WorkshopInv, JobsOK
<1> DEFINE dashboard(r) == r.dashboard /\ kept
           pc(r) == IF cut /\ r.pc \in Pending \cup {"timer"} THEN "cut" ELSE r.pc
           q(r) == [r EXCEPT !.form = FALSE, !.dashboard = dashboard(r), !.pc = pc(r)]
<1>2. ASSUME NEW r \in JobRecord
      PROVE  dashboard(r) \in BOOLEAN
               /\ pc(r) \in Pending \cup {"idle", "timer", "success", "silent", "failed", "cut"}
               /\ (pc(r) = r.pc \/ pc(r) = "cut")
  BY DEF JobRecord
<1> HIDE DEF dashboard, pc
<1>3. ASSUME NEW r \in JobRecord PROVE q(r) \in JobRecord
  BY <1>2 DEF JobRecord
<1>4. ASSUME NEW r \in JobRecord PROVE q(r).pc = pc(r) /\ q(r).tx = r.tx /\ ~ q(r).form
  BY DEF JobRecord
<1>5. job' = [j \in Job |-> q(job[j])]
  BY DEF Detached, dashboard, pc
<1> HIDE DEF q
<1>6. \A j \in Job : job[j] \in JobRecord /\ job'[j] = q(job[j])
  BY <1>1, <1>5
<1>7. ASSUME NEW j \in Job PROVE GoodJob(job'[j], j \in onHub, j \in stored)
  <2> DEFINE r == job[j]
  <2>1. r \in JobRecord /\ GoodJob(r, j \in onHub, j \in stored) /\ job'[j] = q(r)
    BY <1>1, <1>6
  <2>2. /\ q(r) \in JobRecord /\ q(r).tx = r.tx /\ ~ q(r).form
        /\ q(r).pc = r.pc \/ q(r).pc = "cut"
    BY <1>2, <1>3, <1>4, <2>1
  <2> HIDE DEF r
  <2>3. QED
    BY <2>1, <2>2 DEF GoodJob
<1>8. job' \in [Job -> JobRecord]
  BY <1>3, <1>5, <1>6
<1>9. JobsOK'
  BY <1>1, <1>7, <1>8 DEF JobsOK, GoodJob, JobRecord, Pending
<1>10. QED
  BY <1>4, <1>6, <1>9

\* No job holds a form that is mounted anew.
LEMMA NewForm ==
  ASSUME form' = BlankForm, \A j \in Job : ~ job'[j].form
  PROVE  FormOK'
<1>1. \A j \in Job : ~ OwnJob(job'[j])
  BY DEF OwnJob
<1>2. QED
  BY <1>1, BlankFormGood DEF FormOK, Form, OwnJob, Pending

LEMMA RemountStep ==
  ASSUME WorkshopInv, NEW kept \in BOOLEAN, NEW cut \in BOOLEAN, Remount(kept, cut),
         SessionStep, storage'.pendingId = NoId
  PROVE  WorkshopInv'
<1>1. WindowOK'
  BY SessionStepInv DEF WorkshopInv, WindowOK
<1>2. JobsOK' /\ FormOK'
  BY DetachedJobs, NewForm DEF Remount
<1>3. errand' \in Errands
  BY DEF Remount, WorkshopInv
<1>4. QED
  BY <1>1, <1>2, <1>3 DEF WorkshopInv

LEMMA MoveSteps ==
  ASSUME WorkshopInv,
         \/ LogOut \/ ReloadPage \/ \E tab \in Tab : ChangeTab(tab)
         \/ \E role \in Roles, hub \in LoginHubs : LogIn(role, hub)
         \/ \E hub \in Hub : ChangeHub(hub)
  PROVE  WorkshopInv'
<1>1. storage \in Storage /\ storage.pendingId = NoId
  BY DEF WorkshopInv, WindowOK, SessionInv, SessionTypeOK
<1>2. ASSUME NEW in \in BOOLEAN, NEW st \in Storage, st.pendingId = NoId,
             EnterRoot(in, st)
      PROVE  storage'.pendingId = NoId
  <2>1. CASE in
    <3>1. storage' = [st EXCEPT !.pendingId = NoId, !.pendingHub = ""]
      BY <1>2, <2>1 DEF EnterRoot
    <3>2. QED
      BY <3>1 DEF Storage
  <2>2. CASE ~ in
    BY <1>2, <2>2 DEF EnterRoot
  <2>3. QED
    BY <2>1, <2>2
<1>3. ASSUME NEW role \in Roles, NEW hub \in LoginHubs, LogIn(role, hub)
      PROVE  WorkshopInv'
  <2> DEFINE st == [storage EXCEPT !.role = role, !.region = hub]
  <2>1. role \in Role /\ hub \in Hub
    BY RoleAssumption, LoginAssumption
  <2>2. st \in Storage
    BY <1>1, <2>1 DEF Storage
  <2>3. st.pendingId = NoId
    BY <1>1 DEF Storage
  <2>4. EnterRoot(TRUE, st)
    BY <1>3 DEF LogIn, Submit
  <2> HIDE DEF st
  <2>5. storage'.pendingId = NoId
    BY <1>2, <2>2, <2>3, <2>4
  <2>6. SessionStep
    BY <1>3, <2>1 DEF LogIn, SessionStep
  <2>7. QED
    BY <1>3, <2>5, <2>6, RemountStep DEF LogIn
<1>4. CASE LogOut
  <2>1. storage'.pendingId = NoId
    BY <1>4, ClearedStorage DEF LogOut, Logout
  <2>2. QED
    BY <1>4, <2>1, RemountStep DEF LogOut, SessionStep
<1>5. CASE ReloadPage
  <2>1. storage'.pendingId = NoId
    BY <1>1, <1>2, <1>5 DEF ReloadPage, Reload
  <2>2. QED
    BY <1>5, <2>1, RemountStep DEF ReloadPage, SessionStep
<1>6. ASSUME NEW tab \in Tab, ChangeTab(tab) PROVE WorkshopInv'
  <2>1. storage'.pendingId = NoId
    BY <1>1, <1>6 DEF ChangeTab, ClickEntry
  <2>2. QED
    BY <1>6, <2>1, RemountStep DEF ChangeTab, SessionStep
<1>7. ASSUME NEW hub \in Hub, ChangeHub(hub) PROVE WorkshopInv'
  <2>1. SelectHub(hub) /\ UNCHANGED <<errand, form, job, onHub, stored>>
    BY <1>7 DEF ChangeHub, forms
  <2>2. SessionStep
    BY <2>1 DEF SessionStep
  <2>3. storage'.pendingId = NoId
    BY <1>1, <2>1 DEF SelectHub
  <2>4. WindowOK'
    BY <2>2, <2>3, SessionStepInv DEF WorkshopInv, WindowOK
  <2>5. FormOK' /\ JobsOK'
    BY <2>1 DEF WorkshopInv, FormOK, Form, OwnJob, Pending, JobsOK, GoodJob, JobRecord
  <2>6. QED
    BY <2>1, <2>4, <2>5 DEF WorkshopInv
<1>8. QED
  BY <1>3, <1>4, <1>5, <1>6, <1>7

-------------------------------------------------------------------------------
(* The forms. *)

LEMMA SessionStays ==
  ASSUME WorkshopInv, UNCHANGED <<storage, window>>
  PROVE  WindowOK'
  BY DEF WorkshopInv, WindowOK, SessionInv, SessionTypeOK, Storage, Window, NoBlankTab,
         Rendered, NotRepeated, LoginOK, ItemOK, PendingOK

LEMMA TypingSteps ==
  ASSUME WorkshopInv,
         \/ Reject \/ ImportGoesOn \/ UNCHANGED vars
         \/ \E key \in Id \cup {NoId}, filled \in BOOLEAN : Type(key, filled)
  PROVE  WorkshopInv'
<1>1. /\ UNCHANGED <<storage, window, errand, job, onHub, stored>>
      /\ \/ form' = form
         \/ form' = [form EXCEPT !.status = "error"]
         \/ \E key \in Id \cup {NoId}, filled \in BOOLEAN :
              form' = [form EXCEPT !.key = key, !.filled = filled]
  BY DEF Reject, Type, Elsewhere, ImportGoesOn, forms, vars
<1>2. form \in Form
  BY DEF WorkshopInv, FormOK
<1>3. form' \in Form /\ form'.loading = form.loading
  BY <1>1, <1>2 DEF Form
<1>4. FormOK' /\ JobsOK'
  BY <1>1, <1>3 DEF WorkshopInv, FormOK, OwnJob, Pending, JobsOK, GoodJob, JobRecord, Form
<1>5. QED
  BY <1>1, <1>4, SessionStays DEF WorkshopInv

\* What a job step leaves alone.
LEMMA JobDone ==
  ASSUME WorkshopInv, UNCHANGED <<storage, window, errand>>, FormOK', JobsOK'
  PROVE  WorkshopInv'
  BY SessionStays DEF WorkshopInv

LEMMA JobSteps ==
  ASSUME WorkshopInv, NEW j \in Job, JobNext(j), ~ TimerFires(j)
  PROVE  WorkshopInv'
<1> DEFINE r == job[j]
<1>1. /\ GoodJob(r, j \in onHub, j \in stored) /\ r \in JobRecord
      /\ job \in [Job -> JobRecord] /\ form \in Form
      /\ onHub \subseteq Job /\ stored \subseteq Job
  BY DEF WorkshopInv, JobsOK, FormOK, GoodJob
<1>2. UNCHANGED <<storage, window, errand>>
  BY DEF JobNext, SubmitForm, SendStep, MineStep, RevertStep, StepReceipt, Elsewhere,
         BridgeAnswers, RequestCreated, AnswerLost, JobFails
<1>3. ASSUME NEW q \in JobRecord, q.form = r.form,
             GoodJob(q, j \in onHub', j \in stored'),
             OwnJob(q) <=> OwnJob(r), form' = form,
             job' = [job EXCEPT ![j] = q],
             onHub' \in {onHub, onHub \cup {j}}, stored' = stored
      PROVE  WorkshopInv'
  <2>1. JobsOK' /\ \A k \in Job : job'[k] = IF k = j THEN q ELSE job[k]
    BY <1>3, OneJob
  <2>2. FormOK'
    BY <1>3, <2>1, RunsOn
  <2>3. QED
    BY <1>2, <2>1, <2>2, JobDone
<1>4. ASSUME NEW pc, pc \in {"timer", "success", "silent", "failed"},
             NEW end \in Form, ~ end.loading, r.pc \in Pending,
             EndJob(j, pc, end), onHub' = onHub,
             \/ stored' = stored /\ pc \in {"silent", "failed"}
             \/ /\ stored' = stored \cup {j} /\ r.pc \in {"bridge", "post"}
                /\ pc = "timer" => r.pc = "bridge"
      PROVE  WorkshopInv'
  <2> DEFINE q == [r EXCEPT !.pc = pc]
  <2>1. job' = [job EXCEPT ![j] = q] /\ form' = IF r.form THEN end ELSE form
    BY <1>1, <1>4 DEF EndJob
  <2>2. q \in JobRecord
    BY <1>1, <1>4 DEF JobRecord
  <2>3. q.pc = pc /\ q.tx = r.tx
    BY <1>1 DEF JobRecord
  <2> HIDE DEF q
  <2>4. GoodJob(q, j \in onHub', j \in stored')
    BY <1>1, <1>4, <2>2, <2>3 DEF GoodJob, Pending
  <2>5. JobsOK' /\ \A k \in Job : job'[k] = IF k = j THEN q ELSE job[k]
    BY <1>4, <2>1, <2>4, OneJob
  <2>6. q.pc \notin Pending
    BY <1>4, <2>3 DEF Pending
  <2>7. FormOK'
    BY <1>4, <2>1, <2>5, <2>6, RunsOut
  <2>8. QED
    BY <1>2, <2>5, <2>7, JobDone
<1>5. CASE SubmitForm(j)
  <2> DEFINE pc == IF Screen = "add-step" THEN "sign" ELSE "post"
             q == [pc |-> pc, tx |-> "none", key |-> form.key, form |-> TRUE,
                   dashboard |-> TRUE]
  <2>1. /\ job' = [job EXCEPT ![j] = q] /\ UNCHANGED <<onHub, stored>>
        /\ form' = [form EXCEPT !.loading = TRUE, !.status = "info"]
        /\ ~ form.loading /\ r.pc = "idle"
    BY <1>5 DEF SubmitForm
  <2>2. pc \in {"sign", "post"} /\ form.key \in Id \cup {NoId}
    BY <1>1 DEF Form
  <2> HIDE DEF pc
  <2>3. q \in JobRecord
    BY <2>2 DEF JobRecord, Pending
  <2>4. q.pc = pc /\ q.tx = "none" /\ q.form
    OBVIOUS
  <2> HIDE DEF q
  <2>5. GoodJob(q, j \in onHub', j \in stored')
    BY <1>1, <2>1, <2>2, <2>3, <2>4 DEF GoodJob
  <2>6. JobsOK' /\ \A k \in Job : job'[k] = IF k = j THEN q ELSE job[k]
    BY <2>1, <2>5, OneJob
  <2>7. \A k \in Job : OwnJob(job'[k]) <=> k = j
    BY <2>1, <2>2, <2>4, <2>6 DEF WorkshopInv, FormOK, OwnJob, Pending
  <2>8. form' \in Form
    BY <1>1, <2>1 DEF Form
  <2>9. form'.loading
    BY <1>1, <2>1 DEF Form
  <2>10. FormOK'
    BY <2>7, <2>8, <2>9 DEF FormOK, Form, OwnJob, Pending
  <2>11. QED
    BY <1>2, <2>6, <2>10, JobDone
<1>6. CASE SendStep(j)
  <2> DEFINE q == [r EXCEPT !.pc = "wait", !.tx = "pool"]
  <2>1. job' = [job EXCEPT ![j] = q] /\ r.pc = "sign" /\ UNCHANGED <<form, onHub, stored>>
    BY <1>1, <1>6 DEF SendStep
  <2>2. q \in JobRecord
    BY <1>1 DEF JobRecord, Pending
  <2>3. q.pc = "wait" /\ q.tx = "pool" /\ q.form = r.form
    BY <1>1 DEF JobRecord
  <2> HIDE DEF q, r
  <2>4. GoodJob(q, j \in onHub', j \in stored')
    BY <1>1, <2>1, <2>2, <2>3 DEF GoodJob
  <2>5. QED
    BY <1>3, <2>1, <2>2, <2>3, <2>4 DEF OwnJob, Pending
<1>7. CASE MineStep(j)
  <2> DEFINE q == [r EXCEPT !.tx = "mined"]
  <2>1. /\ job' = [job EXCEPT ![j] = q] /\ r.tx = "pool" /\ UNCHANGED <<form, stored>>
        /\ onHub' = onHub \cup {j}
    BY <1>1, <1>7 DEF MineStep
  <2>2. q \in JobRecord
    BY <1>1 DEF JobRecord
  <2>3. q.pc = r.pc /\ q.tx = "mined" /\ q.form = r.form
    BY <1>1 DEF JobRecord
  <2> HIDE DEF q, r
  <2>4. GoodJob(q, j \in onHub', j \in stored')
    BY <1>1, <2>1, <2>2, <2>3 DEF GoodJob
  <2>5. QED
    BY <1>3, <2>1, <2>2, <2>3, <2>4 DEF OwnJob
<1>8. CASE RevertStep(j)
  <2> DEFINE q == [r EXCEPT !.tx = "reverted"]
  <2>1. /\ job' = [job EXCEPT ![j] = q] /\ r.tx = "pool"
        /\ UNCHANGED <<form, onHub, stored>>
    BY <1>1, <1>8 DEF RevertStep
  <2>2. q \in JobRecord
    BY <1>1 DEF JobRecord
  <2>3. q.pc = r.pc /\ q.tx = "reverted" /\ q.form = r.form
    BY <1>1 DEF JobRecord
  <2> HIDE DEF q, r
  <2>4. GoodJob(q, j \in onHub', j \in stored')
    BY <1>1, <2>1, <2>2, <2>3 DEF GoodJob
  <2>5. QED
    BY <1>3, <2>1, <2>2, <2>3, <2>4 DEF OwnJob
<1>9. CASE StepReceipt(j)
  <2> DEFINE q == [r EXCEPT !.pc = "bridge"]
  <2>1. /\ job' = [job EXCEPT ![j] = q] /\ r.pc = "wait" /\ r.tx = "mined"
        /\ UNCHANGED <<form, onHub, stored>>
    BY <1>1, <1>9 DEF StepReceipt
  <2>2. q \in JobRecord
    BY <1>1 DEF JobRecord, Pending
  <2>3. q.pc = "bridge" /\ q.tx = r.tx /\ q.form = r.form
    BY <1>1 DEF JobRecord
  <2> HIDE DEF q, r
  <2>4. GoodJob(q, j \in onHub', j \in stored')
    BY <1>1, <2>1, <2>2, <2>3 DEF GoodJob
  <2>5. QED
    BY <1>3, <2>1, <2>2, <2>3, <2>4 DEF OwnJob, Pending
<1>10. /\ \A s \in {"success", "error"} : [BlankForm EXCEPT !.status = s] \in Form
       /\ \A s : ~ [BlankForm EXCEPT !.status = s].loading
       /\ [BlankForm EXCEPT !.status = form.status] \in Form
       /\ \A s, k : ~ [BlankForm EXCEPT !.key = k, !.status = s].loading
  BY <1>1, BlankFormGood DEF Form
<1>11. ASSUME NEW output \in BOOLEAN, BridgeAnswers(j, output) PROVE WorkshopInv'
  <2>1. r.pc = "bridge" /\ onHub' = onHub
    BY <1>11 DEF BridgeAnswers
  <2>2. CASE output
    BY <1>4, <1>10, <1>11, <2>1, <2>2 DEF BridgeAnswers, Pending
  <2>3. CASE ~ output
    BY <1>4, <1>10, <1>11, <2>1, <2>3 DEF BridgeAnswers, Pending
  <2>4. QED
    BY <2>2, <2>3
<1>12. CASE RequestCreated(j)
  <2> DEFINE end == [BlankForm EXCEPT !.key = r.key, !.status = "success"]
  <2>1. end \in Form /\ ~ end.loading
    BY <1>1, <1>10, BlankFormGood DEF Form, JobRecord
  <2>2. EndJob(j, "success", end)
    BY <1>12 DEF RequestCreated
  <2> HIDE DEF end
  <2>3. QED
    BY <1>4, <1>12, <2>1, <2>2 DEF RequestCreated, Pending
<1>13. CASE AnswerLost(j) \/ JobFails(j)
  <2> DEFINE end == [form EXCEPT !.loading = FALSE, !.status = "error"]
  <2>1. end \in Form
    BY <1>1 DEF Form
  <2>2. ~ end.loading
    BY <1>1 DEF Form
  <2>3. EndJob(j, "failed", end) /\ r.pc \in Pending /\ onHub' = onHub
    BY <1>13 DEF AnswerLost, JobFails, Pending
  <2> HIDE DEF end
  <2>4. CASE AnswerLost(j)
    BY <1>4, <2>1, <2>2, <2>3, <2>4 DEF AnswerLost
  <2>5. CASE JobFails(j)
    BY <1>4, <2>1, <2>2, <2>3, <2>5 DEF JobFails
  <2>6. QED
    BY <1>13, <2>4, <2>5
<1>14. QED
  BY <1>5, <1>6, <1>7, <1>8, <1>9, <1>11, <1>12, <1>13 DEF JobNext

LEMMA TimerStep ==
  ASSUME WorkshopInv, NEW j \in Job, TimerFires(j)
  PROVE  WorkshopInv'
<1> DEFINE end(k) == IF k = j THEN "success" ELSE job[k].pc
           q(k) == [job[k] EXCEPT !.form = FALSE, !.pc = end(k)]
           one == [job[j] EXCEPT !.pc = "success"]
<1>1. /\ job \in [Job -> JobRecord] /\ onHub \subseteq Job /\ stored \subseteq Job
      /\ \A k \in Job : GoodJob(job[k], k \in onHub, k \in stored)
      /\ \A k \in Job : job[k] \in JobRecord
      /\ job[j].pc = "timer" /\ UNCHANGED <<errand, onHub, stored>>
      /\ storage \in Storage /\ storage.pendingId = NoId
  BY DEF WorkshopInv, JobsOK, TimerFires, WindowOK, SessionInv, SessionTypeOK
<1>2. CASE job[j].dashboard
  <2>1. job' = [k \in Job |-> q(k)] /\ form' = BlankForm /\ ShowTrace(job[j].key)
    BY <1>2 DEF TimerFires
  <2>2. \A k \in Job : end(k) \in Pending \cup {"idle", "timer", "success", "silent",
                                                "failed", "cut"}
    BY <1>1 DEF JobRecord
  <2>3. \A k \in Job : end(k) = job[k].pc \/ (job[k].pc = "timer" /\ end(k) = "success")
    BY <1>1
  <2> HIDE DEF end
  <2>4. \A k \in Job : q(k) \in JobRecord
    BY <1>1, <2>2 DEF JobRecord
  <2>5. \A k \in Job : q(k).pc = end(k) /\ q(k).tx = job[k].tx /\ ~ q(k).form
    BY <1>1 DEF JobRecord
  <2> HIDE DEF q
  <2>6. ASSUME NEW k \in Job PROVE GoodJob(job'[k], k \in onHub, k \in stored)
    <3>1. GoodJob(job[k], k \in onHub, k \in stored)
      BY <1>1
    <3>2. /\ job'[k] \in JobRecord /\ job'[k].tx = job[k].tx /\ ~ job'[k].form
          /\ \/ job'[k].pc = job[k].pc
             \/ job[k].pc = "timer" /\ job'[k].pc = "success"
      BY <2>1, <2>3, <2>4, <2>5
    <3>3. QED
      BY <3>1, <3>2 DEF GoodJob
  <2>7. JobsOK'
    BY <1>1, <2>1, <2>4, <2>6 DEF JobsOK, GoodJob, JobRecord, Pending
  <2>8. FormOK'
    BY <2>1, <2>5, NewForm
  <2>9. job[j].key \in Id \cup {NoId}
    BY <1>1 DEF JobRecord
  <2>10. SessionStep
    BY <2>1, <2>9 DEF SessionStep
  <2>11. storage'.pendingId = NoId
    BY <1>1, <2>1 DEF ShowTrace
  <2>12. WindowOK'
    BY <2>10, <2>11, SessionStepInv DEF WorkshopInv, WindowOK
  <2>13. QED
    BY <1>1, <2>7, <2>8, <2>12 DEF WorkshopInv
<1>3. CASE ~ job[j].dashboard
  <2>1. /\ job' = [job EXCEPT ![j] = one]
        /\ UNCHANGED <<storage, window, form, errand, onHub, stored>>
    BY <1>1, <1>3 DEF TimerFires
  <2>2. one \in JobRecord
    BY <1>1 DEF JobRecord
  <2>3. one.pc = "success" /\ one.tx = job[j].tx
    BY <1>1 DEF JobRecord
  <2> HIDE DEF one
  <2>4. GoodJob(one, j \in onHub', j \in stored')
    BY <1>1, <2>1, <2>2, <2>3 DEF GoodJob
  <2>5. JobsOK' /\ \A k \in Job : job'[k] = IF k = j THEN one ELSE job[k]
    BY <2>1, <2>4, OneJob
  <2>6. FormOK'
    BY <1>1, <2>1, <2>3, <2>5, RunsOn DEF OwnJob, Pending
  <2>7. QED
    BY <2>1, <2>5, <2>6, JobDone
<1>4. QED
  BY <1>2, <1>3

-------------------------------------------------------------------------------
(* The invariant, and what follows from it. *)

LEMMA WorkshopInvInit == Init => WorkshopInv
<1> SUFFICES ASSUME Init PROVE WorkshopInv
  OBVIOUS
<1>1. WindowOK
  BY SessionInitInv, ClearedStorage DEF Init, SessionInit, WindowOK
<1>2. IdleJob \in JobRecord
  BY DEF IdleJob, JobRecord, Pending
<1>3. IdleJob.pc = "idle" /\ IdleJob.tx = "none" /\ ~ IdleJob.form
  BY DEF IdleJob
<1>4. \A j \in Job : GoodJob(job[j], j \in onHub, j \in stored) /\ ~ OwnJob(job[j])
  BY <1>2, <1>3 DEF Init, GoodJob, OwnJob
<1>5. JobsOK
  BY <1>2, <1>4 DEF Init, JobsOK
<1>6. FormOK
  BY <1>4, BlankFormGood DEF Init, FormOK
<1>7. QED
  BY <1>1, <1>5, <1>6 DEF Init, WorkshopInv

LEMMA WorkshopInvStep == WorkshopInv /\ [Next]_vars => WorkshopInv'
<1> SUFFICES ASSUME WorkshopInv, [Next]_vars PROVE WorkshopInv'
  OBVIOUS
<1>1. CASE \/ Reject \/ ImportGoesOn \/ UNCHANGED vars
           \/ \E key \in Id \cup {NoId}, filled \in BOOLEAN : Type(key, filled)
  BY <1>1, TypingSteps
<1>2. CASE \/ LogOut \/ ReloadPage \/ \E tab \in Tab : ChangeTab(tab)
           \/ \E role \in Roles, hub \in LoginHubs : LogIn(role, hub)
           \/ \E hub \in Hub : ChangeHub(hub)
  BY <1>2, MoveSteps
<1>3. CASE \E j \in Job : JobNext(j)
  BY <1>3, JobSteps, TimerStep
<1>4. QED
  BY <1>1, <1>2, <1>3 DEF Next

\* The forms, their jobs and the table keep their invariants while tabs change, the
\* session ends and answers are lost (AddStep.jsx:11-86, ImportExcel.jsx:75-123).
THEOREM WorkshopIsInvariant == Spec => [](WorkshopInv /\ ImportInv)
<1>1. Spec => []WorkshopInv
  BY WorkshopInvInit, WorkshopInvStep, PTL DEF Spec
<1>2. QED
  BY <1>1, WorkshopImports, ImportIsInvariant, PTL

\* Every variable of a window at work holds a value of its kind, whatever answers
\* arrive after the tab, the session or the document they belong to.
THEOREM WorkshopTypes == Spec => []TypeOK
<1>1. WorkshopInv /\ ImportInv => TypeOK
  BY InvTypes DEF WorkshopInv, WindowOK, SessionInv, FormOK, JobsOK, TypeOK
<1>2. QED
  BY <1>1, WorkshopIsInvariant, PTL

\* The bridge is asked only for a step that its hub has, and success is only said of a
\* step or a request that was stored (AddStep.jsx:36-68).
THEOREM StepsInOrder == Spec => []CosmosBehindHub
<1>1. WorkshopInv => CosmosBehindHub
  BY DEF WorkshopInv, JobsOK, GoodJob, CosmosBehindHub
<1>2. QED
  BY <1>1, WorkshopIsInvariant, PTL

\* The button is disabled for one running job, the form's own
\* (AddStep.jsx:83, BusinessRequestForm.jsx:40).
THEOREM ButtonIsOfOneJob == Spec => []LoadingIsRunning
<1>1. WorkshopInv => LoadingIsRunning
  <2> SUFFICES ASSUME WorkshopInv PROVE LoadingIsRunning
    OBVIOUS
  <2>1. form.loading \in BOOLEAN
    BY DEF WorkshopInv, FormOK, Form
  <2>2. QED
    BY <2>1 DEF WorkshopInv, FormOK, OwnJob, LoadingIsRunning
<1>2. QED
  BY <1>1, WorkshopIsInvariant, PTL

\* The four promises of the import hold for a window at work, whose other tabs,
\* sessions and reloads come between the awaits of ImportExcel.jsx:83-118.
THEOREM WorkshopImportSafe ==
  Spec => []MintedIsPrefix /\ []MintingIsRunning /\ []SpinsForAReason /\ CompletedIsMinted
<1>1. QED
  BY WorkshopImports, MintedPrefix, MintingRuns, SpinnerHasReason, CompletedMinted, PTL

\* And so the tables are minted as batches, whatever tabs, logouts and reloads come in
\* between (ImportExcel.jsx:83-110).
THEOREM WorkshopBatches == Spec => MintsInChunks
<1>1. QED
  BY WorkshopImports, ImplementsBatch, PTL

\* A dashboard has a trace tab come up by itself only from the timer of its own job.
LEMMA TraceStep ==
  ASSUME WorkshopInv, [Next]_vars,
         window.page = "dashboard", window'.tab = "trace", window.tab # "trace"
  PROVE  \E j \in Job : /\ job[j].dashboard /\ j \in onHub /\ j \in stored
                        /\ window'.traceId = job[j].key
<1>1. /\ storage \in Storage /\ window \in Window /\ storage.pendingId = NoId
      /\ \A j \in Job : GoodJob(job[j], j \in onHub, j \in stored)
  BY DEF WorkshopInv, WindowOK, SessionInv, SessionTypeOK, JobsOK
<1>2. window' # window
  OBVIOUS
<1>3. ~ (Reject \/ ImportGoesOn \/ UNCHANGED vars)
  BY <1>2 DEF Reject, ImportGoesOn, Elsewhere, vars
<1>4. ~ \E key \in Id \cup {NoId}, filled \in BOOLEAN : Type(key, filled)
  BY <1>2 DEF Type, Elsewhere
<1>5. ~ \E role \in Roles, hub \in LoginHubs : LogIn(role, hub)
  BY DEF LogIn, Submit
<1>6. ~ LogOut
  <2>1. Bare("gate", FALSE).tab # "trace"
    BY DEF Bare
  <2>2. QED
    BY <2>1 DEF LogOut, Logout
<1>7. ~ ReloadPage
  <2> SUFFICES ASSUME ReloadPage PROVE FALSE
    OBVIOUS
  <2>1. EnterRoot(storage.role # "", storage)
    BY DEF ReloadPage, Reload
  <2>2. window' = Opened(storage) \/ window' = Bare("gate", FALSE)
    BY <2>1 DEF EnterRoot
  <2>3. Bare("gate", FALSE).tab # "trace"
    BY DEF Bare
  <2>4. Opened(storage).tab # "trace"
    BY <1>1, OpenedWindow
  <2>5. QED
    BY <2>2, <2>3, <2>4
<1>8. ASSUME NEW tab \in Tab, ChangeTab(tab) PROVE FALSE
  <2>1. window' = [window EXCEPT !.tab = tab] /\ tab \in Entries(window.role)
    BY <1>8 DEF ChangeTab, ClickEntry
  <2>2. window'.tab = tab
    BY <1>1, <2>1 DEF Window
  <2>3. tab # "trace"
    BY <2>1 DEF Entries
  <2>4. QED
    BY <2>2, <2>3
<1>9. ASSUME NEW hub \in Hub, ChangeHub(hub) PROVE FALSE
  <2>1. window' = [window EXCEPT !.hub = hub]
    BY <1>9 DEF ChangeHub, SelectHub
  <2>2. window'.tab = window.tab
    BY <1>1, <2>1 DEF Window
  <2>3. QED
    BY <2>2
<1>10. PICK j \in Job : JobNext(j)
  BY <1>3, <1>4, <1>5, <1>6, <1>7, <1>8, <1>9 DEF Next
<1>11. TimerFires(j)
  BY <1>2, <1>10 DEF JobNext, SubmitForm, SendStep, MineStep, RevertStep, StepReceipt,
     Elsewhere, BridgeAnswers, RequestCreated, AnswerLost, JobFails
<1>12. job[j].pc = "timer" /\ job[j].dashboard /\ ShowTrace(job[j].key)
  BY <1>2, <1>11 DEF TimerFires
<1>13. window'.traceId = job[j].key
  <2>1. window' = [window EXCEPT !.tab = "trace", !.traceId = job[j].key]
    BY <1>12 DEF ShowTrace
  <2>2. QED
    BY <1>1, <2>1 DEF Window
<1>14. j \in stored /\ j \in onHub
  BY <1>1, <1>12 DEF GoodJob
<1>15. QED
  BY <1>12, <1>13, <1>14

\* The timer of a step opens its trace in the session that logged the step, and only
\* when the step is on both chains (AddStep.jsx:70-74).
THEOREM TraceOfThisSession == Spec => TraceIsOfThisSession
<1>1. WorkshopInv /\ [Next]_vars =>
        [window.page = "dashboard" /\ window'.tab = "trace" /\ window.tab # "trace" =>
           \E j \in Job : job[j].dashboard /\ j \in onHub /\ j \in stored
                            /\ window'.traceId = job[j].key]_vars
  BY TraceStep
<1>2. QED
  BY <1>1, WorkshopIsInvariant, PTL DEF Spec, TraceIsOfThisSession

-------------------------------------------------------------------------------
(* Steps as two-stage writes. *)

\* A job whose result is stored has its transaction already, or will never have one.
LEMMA TxSettled ==
  ASSUME WorkshopInv, [Next]_vars, NEW k \in stored
  PROVE  job'[k].tx = "none" <=> job[k].tx = "none"
<1> DEFINE Goal == job'[k].tx = "none" <=> job[k].tx = "none"
<1>1. /\ k \in Job /\ job \in [Job -> JobRecord]
      /\ GoodJob(job[k], k \in onHub, TRUE)
  BY DEF WorkshopInv, JobsOK
<1>2. ASSUME NEW kept \in BOOLEAN, NEW cut \in BOOLEAN, Detached(kept, cut) PROVE Goal
  <2> DEFINE pc == IF cut /\ job[k].pc \in Pending \cup {"timer"} THEN "cut" ELSE job[k].pc
             db == job[k].dashboard /\ kept
  <2>1. job'[k] = [job[k] EXCEPT !.form = FALSE, !.dashboard = db, !.pc = pc]
    BY <1>1, <1>2 DEF Detached
  <2> HIDE DEF pc, db
  <2>2. QED
    BY <1>1, <2>1 DEF JobRecord
<1>3. ASSUME NEW kept \in BOOLEAN, NEW cut \in BOOLEAN, Remount(kept, cut) PROVE Goal
  BY <1>2, <1>3 DEF Remount
<1>4. ASSUME NEW j \in Job, SubmitForm(j) PROVE Goal
  <2>1. j # k
    BY <1>1, <1>4 DEF SubmitForm, GoodJob
  <2>2. QED
    BY <1>1, <1>4, <2>1 DEF SubmitForm
<1>5. ASSUME NEW j \in Job, SendStep(j) PROVE Goal
  <2>1. j # k
    BY <1>1, <1>5 DEF SendStep, GoodJob
  <2>2. QED
    BY <1>1, <1>5, <2>1 DEF SendStep, JobRecord
<1>6. ASSUME NEW j \in Job, MineStep(j) \/ RevertStep(j) PROVE Goal
  BY <1>1, <1>6 DEF MineStep, RevertStep, JobRecord
<1>7. ASSUME NEW j \in Job, NEW pc, job' = [job EXCEPT ![j].pc = pc] PROVE Goal
  BY <1>1, <1>7 DEF JobRecord
<1>8. ASSUME NEW j \in Job, StepReceipt(j) \/ RequestCreated(j) \/ AnswerLost(j) \/ JobFails(j)
      PROVE  Goal
  BY <1>7, <1>8 DEF StepReceipt, RequestCreated, AnswerLost, JobFails, EndJob
<1>9. ASSUME NEW j \in Job, NEW output \in BOOLEAN, BridgeAnswers(j, output) PROVE Goal
  BY <1>7, <1>9 DEF BridgeAnswers, EndJob
<1>10. ASSUME NEW j \in Job, TimerFires(j) PROVE Goal
  <2> DEFINE pc == IF k = j THEN "success" ELSE job[k].pc
  <2>1. job'[k] \in {[job[k] EXCEPT !.form = FALSE, !.pc = pc], [job[k] EXCEPT !.pc = pc],
                     job[k]}
    BY <1>1, <1>10 DEF TimerFires
  <2> HIDE DEF pc
  <2>2. QED
    BY <1>1, <2>1 DEF JobRecord
<1>11. CASE UNCHANGED job
  BY <1>11
<1> HIDE DEF Goal
<1>12. ASSUME NEW j \in Job, JobNext(j) PROVE Goal
  BY <1>4, <1>5, <1>6, <1>8, <1>9, <1>10, <1>12 DEF JobNext
<1>13. CASE \/ LogOut \/ ReloadPage \/ \E tab \in Tab : ChangeTab(tab)
            \/ \E role \in Roles, hub \in LoginHubs : LogIn(role, hub)
  <2>1. Remount(TRUE, FALSE) \/ Remount(FALSE, FALSE) \/ Remount(FALSE, TRUE)
    BY <1>13 DEF LogOut, ReloadPage, ChangeTab, LogIn
  <2>2. QED
    BY <1>3, <2>1 DEF Goal
<1>14. CASE \/ ImportGoesOn \/ Reject \/ UNCHANGED vars
            \/ \E hub \in Hub : ChangeHub(hub)
            \/ \E key \in Id \cup {NoId}, filled \in BOOLEAN : Type(key, filled)
  BY <1>11, <1>14 DEF ImportGoesOn, Reject, ChangeHub, Type, forms, vars
<1>15. QED
  BY <1>12, <1>13, <1>14 DEF Goal, Next

\* The steps that write a chain.
LEMMA WhoWrites ==
  ASSUME [Next]_vars
  PROVE  \/ UNCHANGED <<onHub, stored>>
         \/ \E j \in Job : \/ MineStep(j) \/ RequestCreated(j) \/ AnswerLost(j)
                           \/ BridgeAnswers(j, TRUE)
<1>1. ASSUME NEW j \in Job, JobNext(j)
      PROVE  \/ UNCHANGED <<onHub, stored>>
             \/ MineStep(j) \/ RequestCreated(j) \/ AnswerLost(j) \/ BridgeAnswers(j, TRUE)
  BY <1>1 DEF JobNext, SubmitForm, SendStep, RevertStep, StepReceipt, JobFails, TimerFires,
              BridgeAnswers
<1>2. QED
  BY <1>1 DEF Next, ImportGoesOn, LogOut, ReloadPage, ChangeTab, LogIn, Remount, Reject,
              ChangeHub, Type, forms, vars

LEMMA StagesStep ==
  WorkshopInv /\ [Next]_vars => [LogThenBridge!Next]_(LogThenBridge!vars)
<1> DEFINE logged == {j \in stored : job[j].tx # "none"}
<1> SUFFICES ASSUME WorkshopInv, [Next]_vars
             PROVE  \/ LogThenBridge!Write \/ LogThenBridge!Copy
                    \/ UNCHANGED <<onHub, logged>>
  BY DEF LogThenBridge!Next, LogThenBridge!vars
<1>1. /\ job \in [Job -> JobRecord]
      /\ \A j \in Job : GoodJob(job[j], j \in onHub, j \in stored)
  BY DEF WorkshopInv, JobsOK
<1>2. UNCHANGED stored => UNCHANGED logged
  BY TxSettled
<1>3. ASSUME NEW j \in Job, MineStep(j) PROVE LogThenBridge!Write
  BY <1>2, <1>3 DEF MineStep, LogThenBridge!Write
<1>4. ASSUME NEW j \in Job, RequestCreated(j) \/ AnswerLost(j) \/ BridgeAnswers(j, TRUE)
      PROVE  LogThenBridge!Copy \/ UNCHANGED <<onHub, logged>>
  <2>1. /\ UNCHANGED onHub /\ stored' = stored \cup {j}
        /\ job[j].pc \in {"bridge", "post"}
    BY <1>4 DEF RequestCreated, AnswerLost, BridgeAnswers
  <2>2. job'[j].tx = job[j].tx
    BY <1>1, <1>4 DEF RequestCreated, AnswerLost, BridgeAnswers, EndJob, JobRecord
  <2>3. logged' = IF job[j].tx = "none" THEN logged ELSE logged \cup {j}
    BY <2>1, <2>2, TxSettled
  <2>4. job[j].tx # "none" => j \in onHub
    BY <1>1, <2>1 DEF GoodJob
  <2> HIDE DEF logged
  <2>5. QED
    BY <2>1, <2>3, <2>4 DEF LogThenBridge!Copy, logged
<1>5. QED
  BY <1>2, <1>3, <1>4, WhoWrites

\* With any number of jobs, tabs, logouts and reloads, steps are logged on a hub and
\* then bridged, one by one and for good.
THEOREM ImplementsStages == Spec => StagesInOrder
<1>1. Init => LogThenBridge!Init
  BY DEF Init, LogThenBridge!Init
<1>2. QED
  BY <1>1, StagesStep, WorkshopIsInvariant, PTL
  DEF Spec, StagesInOrder, LogThenBridge!Spec

===============================================================================

------------------------- MODULE AdminApproval_proofs -------------------------
(***************************************************************************)
(* Theorems about the approval of requests, for any number of pages,       *)
(* requests and calls and whatever the servers answer: types, the order of *)
(* the three stages, what a reported success means, and the disabled       *)
(* buttons.                                                                *)
(***************************************************************************)
EXTENDS AdminApproval, TLAPS

LEMMA TypeInit == Init => TypeOK
  BY PageAssumption
  DEF Init, TypeOK, CallRecord, FetchRecord, IdleCall, IdleFetch, CallPc, FetchPc

LEMMA TypeStep == TypeOK /\ [Next]_vars => TypeOK'
  <1> SUFFICES ASSUME TypeOK, [Next]_vars PROVE TypeOK'
    OBVIOUS
  <1> USE DEF TypeOK, CallRecord, CallPc, Waiting
  <1>1. ASSUME NEW f \in Fetch, NEW p \in Page \cup {None}, NEW hub \in Hub \cup {None},
               StartFetch(f, p, hub)
        PROVE  fetch' \in [Fetch -> FetchRecord]
    BY <1>1 DEF StartFetch, FetchRecord, FetchPc
  <1>2. ASSUME NEW f \in Fetch, FetchNext(f)
        PROVE  TypeOK'
    <2>1. PendingAt("VN") \subseteq Request /\ PendingAt("AUS") \subseteq Request
      BY DEF PendingAt
    <2>2. CASE FindVN(f)
      <3>1. PendingAt("VN") \in SUBSET Request
        BY <2>1
      <3>2. fetch' \in [Fetch -> FetchRecord]
        <4> DEFINE rec == [fetch[f] EXCEPT !.pc = "aus", !.data = PendingAt("VN")]
        <4>1. rec \in FetchRecord
          BY <3>1 DEF FetchRecord, FetchPc
        <4>2. fetch' = [fetch EXCEPT ![f] = rec]
          BY <2>2 DEF FindVN, FetchRecord
        <4> HIDE DEF rec
        <4>3. QED
          BY <4>1, <4>2
      <3>3. QED
        BY <2>2, <3>2 DEF FindVN, page
    <2>3. CASE FindAUS(f)
      <3>1. fetch[f].data \cup PendingAt("AUS") \in SUBSET Request
        BY <2>1 DEF FetchRecord
      <3>2. fetch' \in [Fetch -> FetchRecord]
        BY <2>3, <3>1 DEF FindAUS, FetchRecord, FetchPc
      <3>3. QED
        BY <2>3, <3>2 DEF FindAUS, page
    <2>4. CASE ShowList(f)
      <3>1. fetch' \in [Fetch -> FetchRecord]
        BY <2>4 DEF ShowList, FetchRecord, FetchPc
      <3>2. Shown(fetch[f].data, fetch[f].hub) \in SUBSET Request
        BY DEF Shown, FetchRecord
      <3>3. requests' \in [Page -> SUBSET Request]
        BY <2>4, <3>2 DEF ShowList
      <3>4. QED
        BY <2>4, <3>1, <3>3 DEF ShowList
    <2>5. CASE FetchFails(f)
      BY <2>5 DEF FetchFails, page, FetchRecord, FetchPc
    <2>6. QED
      BY <1>2, <2>2, <2>3, <2>4, <2>5 DEF FetchNext
  <1>8. ASSUME NEW c \in Call, Release(c)
        PROVE  loadingId' \in [Page -> Request \cup {None}]
    BY <1>8 DEF Release
  <1>9. ASSUME NEW c \in Call, Fail(c)
        PROVE  /\ call' \in [Call -> CallRecord]
               /\ loadingId' \in [Page -> Request \cup {None}]
    <2>1. call' \in [Call -> CallRecord]
      BY <1>9 DEF Fail
    <2>2. QED
      BY <1>8, <1>9, <2>1 DEF Fail
  <1>3. ASSUME NEW c \in Call, CallNext(c)
        PROVE  TypeOK'
    <2>1. CASE SendTx(c) \/ Receipt(c) \/ Revert(c)
      BY <2>1 DEF SendTx, Receipt, Revert, page
    <2>2. CASE Mine(c)
      BY <2>2 DEF Mine, page
    <2>3. CASE MintFails(c)
      BY <1>9, <2>3 DEF MintFails
    <2>7. CASE ReceiptFails(c)
      <3>1. call' \in [Call -> CallRecord]
        BY <2>7 DEF ReceiptFails
      <3>2. QED
        BY <1>8, <2>7, <3>1 DEF ReceiptFails
    <2>4. ASSUME NEW answer \in CosmosAnswers, CreateOnCosmos(c, answer)
          PROVE  TypeOK'
      <3>1. onCosmos' \subseteq Call
        BY <2>4 DEF CreateOnCosmos
      <3>2. /\ call' \in [Call -> CallRecord]
            /\ loadingId' \in [Page -> Request \cup {None}]
        <4>1. CASE answer \in {"served", "refused"}
          BY <2>4, <4>1 DEF CreateOnCosmos
        <4>2. CASE answer \notin {"served", "refused"}
          BY <1>9, <2>4, <4>2 DEF CreateOnCosmos
        <4>3. QED
          BY <4>1, <4>2
      <3>3. QED
        BY <2>4, <3>1, <3>2 DEF CreateOnCosmos
    <2>5. ASSUME NEW answer \in ApproveAnswers, ApproveRequest(c, answer)
          PROVE  TypeOK'
      <3>1. status' \in [Request -> {"pending", "approved"}]
        BY <2>5 DEF ApproveRequest
      <3>2. /\ call' \in [Call -> CallRecord]
            /\ loadingId' \in [Page -> Request \cup {None}]
        <4>1. CASE answer \in {"served", "refused"}
          <5>1. call' \in [Call -> CallRecord]
            <6>1. call' = [call EXCEPT ![c].pc = "refresh"]
              BY <2>5, <4>1 DEF ApproveRequest
            <6>2. QED
              BY <6>1
          <5>2. QED
            BY <1>8, <2>5, <4>1, <5>1 DEF ApproveRequest
        <4>2. CASE answer \notin {"served", "refused"}
          BY <1>9, <2>5, <4>2 DEF ApproveRequest
        <4>3. QED
          BY <4>1, <4>2
      <3>3. QED
        BY <2>5, <3>1, <3>2 DEF ApproveRequest
    <2>6. QED
      BY <1>3, <2>1, <2>2, <2>3, <2>4, <2>5, <2>7 DEF CallNext
  <1>4. ASSUME NEW c \in Call, NEW f \in Fetch, Refresh(c, f)
        PROVE  TypeOK'
    <2>1. call[c].page \in Page \cup {None} /\ call[c].hub \in Hub \cup {None}
      OBVIOUS
    <2>2. fetch' \in [Fetch -> FetchRecord]
      BY <1>1, <1>4, <2>1 DEF Refresh
    <2>3. QED
      BY <1>4, <2>2 DEF Refresh, page
  <1>10. ASSUME NEW p \in Page, Unmount(p)
         PROVE  /\ requests' \in [Page -> SUBSET Request]
                /\ loadingId' \in [Page -> Request \cup {None}]
                /\ fetch' \in [Fetch -> FetchRecord]
    <2>1. \A f \in Fetch : [fetch[f] EXCEPT !.page = None] \in FetchRecord
      BY DEF FetchRecord
    <2>2. fetch' \in [Fetch -> FetchRecord]
      BY <1>10, <2>1 DEF Unmount
    <2>3. QED
      BY <1>10, <2>2 DEF Unmount
  <1>5. ASSUME NEW p \in Page, PageNext(p)
        PROVE  TypeOK'
    <2>1. ASSUME NEW f \in Fetch, LoadList(f, p)
          PROVE  TypeOK'
      BY <1>1, <2>1 DEF LoadList, page
    <2>2. ASSUME NEW f \in Fetch, NEW hub \in Hub, SwitchHub(f, p, hub)
          PROVE  TypeOK'
      BY <1>1, <2>2 DEF SwitchHub
    <2>3. ASSUME NEW c \in Call, NEW r \in Request, Click(c, p, r)
          PROVE  TypeOK'
      BY <2>3 DEF Click
    <2>4. CASE ChangeTab(p)
      <3>1. \A c \in Call : [call[c] EXCEPT !.page = None] \in CallRecord
        OBVIOUS
      <3>2. call' \in [Call -> CallRecord]
        BY <2>4, <3>1 DEF ChangeTab
      <3>3. QED
        BY <1>10, <2>4, <3>2 DEF ChangeTab, Unmount
    <2>5. CASE Reload(p)
      <3>1. \A c \in Call :
              [call[c] EXCEPT !.page = None, !.pc = Cut(call[c].pc)] \in CallRecord
        <4>1. \A pc \in CallPc : Cut(pc) \in CallPc
          BY DEF Cut
        <4>2. QED
          BY <4>1
      <3>2. call' \in [Call -> CallRecord]
        BY <2>5, <3>1 DEF Reload
      <3>3. currentHub' \in [Page -> Hub]
        BY <2>5, PageAssumption DEF Reload
      <3>4. QED
        BY <1>10, <2>5, <3>2, <3>3 DEF Reload, Unmount
    <2>6. QED
      BY <1>5, <2>1, <2>2, <2>3, <2>4, <2>5 DEF PageNext
  <1>6. CASE UNCHANGED vars
    BY <1>6 DEF vars
  <1>7. QED
    BY <1>2, <1>3, <1>4, <1>5, <1>6 DEF Next

\* Every variable of the approval always holds a value of its kind.
THEOREM TypeCorrect == Spec => []TypeOK
  BY TypeInit, TypeStep, PTL DEF Spec

-------------------------------------------------------------------------------
(* The order of the stages. *)

\* A call that went past the receipt has a minted product and one that was not
\* clicked has none: with this the two properties about Cosmos and the database
\* are inductive.
StageInv ==
  /\ \A c \in Call :
       /\ call[c].pc \in {"mined", "cosmos", "approve", "refresh", "done"} => c \in Minted
       /\ call[c].pc = "idle" => c \notin Minted
       /\ call[c].pc # "idle" => call[c].req \in Request /\ call[c].hub \in Hub
  /\ CosmosBehindEthereum
  /\ ApprovedWasMinted

LEMMA MintedMember == \A c : c \in Minted <=> \E a \in Address : c \in onHub[a]
  BY DEF Minted

LEMMA MintedMember2 == \A c : c \in Minted' <=> \E a \in Address : c \in onHub'[a]
  BY DEF Minted

LEMMA StageInit == Init => StageInv
  <1> SUFFICES ASSUME Init PROVE StageInv
    OBVIOUS
  <1>1. Minted = {}
    BY DEF Init, Minted
  <1>2. QED
    BY <1>1 DEF Init, StageInv, IdleCall, CosmosBehindEthereum, ApprovedWasMinted

\* Only Mine adds a product, and it adds that of its own call.
LEMMA MineMinted ==
  ASSUME TypeOK, StageInv, NEW c \in Call, Mine(c)
  PROVE  Minted' = Minted \cup {c}
  <1>1. call[c].hub \in Hub /\ AddressOf[call[c].hub] \in Address
    BY AddressAssumption DEF Mine, StageInv
  <1>2. \A a \in Address : onHub'[a] = IF a = AddressOf[call[c].hub]
                                       THEN onHub[a] \cup {c} ELSE onHub[a]
    BY DEF Mine, TypeOK
  <1>3. \A d : d \in Minted' <=> d \in Minted \cup {c}
    BY <1>1, <1>2, MintedMember, MintedMember2
  <1>4. QED
    BY <1>3

\* A step of one call: what it may not touch.
LEMMA CallFrame ==
  ASSUME TypeOK, NEW c \in Call, CallNext(c)
  PROVE  \A d \in Call : /\ call'[d].req = call[d].req
                         /\ call'[d].hub = call[d].hub
                         /\ d # c => call'[d] = call[d]
  <1>1. ASSUME NEW pc \in CallPc, call' = [call EXCEPT ![c].pc = pc]
        PROVE  \A d \in Call : /\ call'[d].req = call[d].req
                               /\ call'[d].hub = call[d].hub
                               /\ d # c => call'[d] = call[d]
    BY <1>1 DEF TypeOK, CallRecord
  <1>2. \E pc \in CallPc : call' = [call EXCEPT ![c].pc = pc]
    BY DEF CallNext, SendTx, Mine, Revert, Receipt, MintFails, ReceiptFails, Fail,
           CreateOnCosmos, ApproveRequest, CallPc, Waiting
  <1>3. QED
    BY <1>1, <1>2

LEMMA MintedCalls == TypeOK => Minted \subseteq Call
  BY DEF TypeOK, Minted

\* What a step has to keep for the stages to stay in order.
LEMMA StageFrame ==
  ASSUME TypeOK, StageInv, Minted \subseteq Minted',
         \A d \in Call : call[d].pc # "idle" => /\ call'[d].pc # "idle"
                                                /\ call'[d].req = call[d].req
                                                /\ call'[d].hub = call[d].hub,
         \A d \in Call : call[d].pc = "idle" =>
           \/ call'[d].pc = "idle"
           \/ call'[d].req \in Request /\ call'[d].hub \in Hub,
         \A d \in Call : call'[d].pc = "idle" => d \notin Minted',
         \A d \in Call : call'[d].pc \in {"mined", "cosmos", "approve", "refresh", "done"}
                           => d \in Minted',
         onCosmos' \subseteq Minted',
         \A r \in Request : status'[r] = "approved" =>
           status[r] = "approved" \/ \E c \in Minted' : call'[c].req = r
  PROVE  StageInv'
  <1>1. ApprovedWasMinted'
    <2> SUFFICES ASSUME NEW r \in Request, status'[r] = "approved"
                 PROVE  \E c \in Minted' : call'[c].req = r
      BY DEF ApprovedWasMinted
    <2>1. CASE status[r] = "approved"
      <3>1. PICK c \in Minted : call[c].req = r
        BY <2>1 DEF StageInv, ApprovedWasMinted
      <3>2. c \in Call /\ call[c].pc # "idle"
        BY <3>1, MintedCalls DEF StageInv
      <3>3. QED
        BY <3>1, <3>2
    <2>2. CASE status[r] # "approved"
      BY <2>2
    <2>3. QED
      BY <2>1, <2>2
  <1>2. \A c \in Call : call'[c].pc # "idle" => call'[c].req \in Request /\ call'[c].hub \in Hub
    BY DEF StageInv
  <1>3. QED
    BY <1>1, <1>2 DEF StageInv, CosmosBehindEthereum

LEMMA StageStep == TypeOK /\ StageInv /\ [Next]_vars => StageInv'
  <1> SUFFICES ASSUME TypeOK, StageInv, [Next]_vars PROVE StageInv'
    OBVIOUS
  <1>1. ASSUME UNCHANGED <<onHub, onCosmos, status>>,
               \A d \in Call :
                 /\ call[d].pc # "idle" => /\ call'[d].req = call[d].req
                                           /\ call'[d].hub = call[d].hub
                                           /\ call'[d].pc # "idle"
                 /\ call[d].pc = "idle" /\ call'[d] # call[d] =>
                      /\ call'[d].req \in Request /\ call'[d].hub \in Hub
                      /\ call'[d].pc = "sign"
                 /\ call'[d].pc \in {"mined", "cosmos", "approve", "refresh", "done"}
                      => d \in Minted
        PROVE  StageInv'
    <2>1. Minted' = Minted
      BY <1>1 DEF Minted
    <2>2. \A d \in Call : call'[d].pc = "idle" => call[d].pc = "idle"
      BY <1>1
    <2>3. QED
      BY <1>1, <2>1, <2>2, StageFrame DEF StageInv, CosmosBehindEthereum
  <1>2. ASSUME NEW c \in Call, CallNext(c)
        PROVE  StageInv'
    <2>0. \A d \in Call : /\ call'[d].req = call[d].req
                          /\ call'[d].hub = call[d].hub
                          /\ d # c => call'[d] = call[d]
      BY <1>2, CallFrame
    <2>1. CASE SendTx(c) \/ Revert(c) \/ Receipt(c) \/ MintFails(c) \/ ReceiptFails(c)
      <3>1. call[c].pc # "idle" /\ UNCHANGED <<onHub, onCosmos, status>>
        BY <2>1 DEF SendTx, Revert, Receipt, MintFails, ReceiptFails, page
      <3>2. /\ call'[c].pc # "idle"
            /\ call'[c].pc \in {"mined", "cosmos", "approve", "refresh", "done"}
                 => call[c].pc = "mined"
        BY <2>1 DEF SendTx, Revert, Receipt, MintFails, ReceiptFails, Fail, TypeOK, CallRecord
      <3>3. QED
        BY <1>1, <2>0, <3>1, <3>2 DEF StageInv
    <2>2. CASE Mine(c)
      <3>1. Minted' = Minted \cup {c} /\ UNCHANGED <<onCosmos, status>>
        BY <2>2, MineMinted DEF Mine, page
      <3>2. call'[c].pc \in {"mined", "gone"} /\ call[c].pc # "idle"
        BY <2>2 DEF Mine, TypeOK, CallRecord
      <3>3. QED
        BY <2>0, <3>1, <3>2, StageFrame DEF StageInv, CosmosBehindEthereum
    <2>3. ASSUME NEW answer \in CosmosAnswers, CreateOnCosmos(c, answer)
          PROVE  StageInv'
      <3>1. Minted' = Minted /\ status' = status
        BY <2>3 DEF CreateOnCosmos, Minted
      <3>2. /\ call[c].pc = "cosmos" /\ c \in Minted
            /\ onCosmos' \subseteq onCosmos \cup {c}
        BY <2>3 DEF CreateOnCosmos, StageInv
      <3>3. call'[c].pc \in {"approve", "failed"}
        BY <2>3 DEF CreateOnCosmos, Fail, TypeOK, CallRecord
      <3>4. QED
        BY <2>0, <3>1, <3>2, <3>3, StageFrame DEF StageInv, CosmosBehindEthereum
    <2>4. ASSUME NEW answer \in ApproveAnswers, ApproveRequest(c, answer)
          PROVE  StageInv'
      <3>1. Minted' = Minted /\ onCosmos' = onCosmos
        BY <2>4 DEF ApproveRequest, Minted
      <3>2. /\ call[c].pc = "approve" /\ c \in Minted /\ call[c].req \in Request
            /\ \A r \in Request : status'[r] = "approved" =>
                 status[r] = "approved" \/ r = call[c].req
        BY <2>4 DEF ApproveRequest, StageInv, TypeOK
      <3>3. call'[c].pc \in {"refresh", "failed"}
        BY <2>4 DEF ApproveRequest, Fail, TypeOK, CallRecord
      <3>4. QED
        BY <2>0, <3>1, <3>2, <3>3, StageFrame DEF StageInv, CosmosBehindEthereum
    <2>5. QED
      BY <1>2, <2>1, <2>2, <2>3, <2>4 DEF CallNext
  <1>3. ASSUME NEW c \in Call, NEW f \in Fetch, Refresh(c, f)
        PROVE  StageInv'
    <2>1. /\ UNCHANGED <<onHub, onCosmos, status>>
          /\ call[c].pc = "refresh" /\ call'[c].pc = "done"
          /\ \A d \in Call : /\ call'[d].req = call[d].req
                             /\ call'[d].hub = call[d].hub
                             /\ d # c => call'[d] = call[d]
      BY <1>3 DEF Refresh, page, TypeOK, CallRecord
    <2>2. QED
      BY <1>1, <2>1 DEF StageInv
  <1>4. ASSUME UNCHANGED <<onHub, onCosmos, status, call>>
        PROVE  StageInv'
    BY <1>1, <1>4 DEF StageInv
  <1>5. ASSUME NEW p \in Page, NEW c \in Call, NEW r \in Request, Click(c, p, r)
        PROVE  StageInv'
    <2>1. /\ UNCHANGED <<onHub, onCosmos, status>>
          /\ call[c].pc = "idle"
          /\ call'[c].pc = "sign" /\ call'[c].req \in Request /\ call'[c].hub \in Hub
          /\ \A d \in Call \ {c} : call'[d] = call[d]
      BY <1>5 DEF Click, TypeOK
    <2>2. QED
      BY <1>1, <2>1 DEF StageInv
  <1>6. ASSUME NEW p \in Page, ChangeTab(p) \/ Reload(p)
        PROVE  StageInv'
    <2>1. /\ UNCHANGED <<onHub, onCosmos, status>>
          /\ \A d \in Call : /\ call'[d].req = call[d].req
                             /\ call'[d].hub = call[d].hub
                             /\ call'[d].pc \in {call[d].pc, Cut(call[d].pc)}
      <3>1. UNCHANGED <<onHub, onCosmos, status>>
        BY <1>6 DEF ChangeTab, Reload, Unmount
      <3>2. CASE ChangeTab(p)
        <4>1. \A d \in Call : call'[d] \in {call[d], [call[d] EXCEPT !.page = None]}
          BY <3>2 DEF ChangeTab
        <4>2. QED
          BY <3>1, <4>1 DEF TypeOK, CallRecord
      <3>3. CASE Reload(p)
        <4>1. \A d \in Call : call'[d] \in
                {call[d], [call[d] EXCEPT !.page = None, !.pc = Cut(call[d].pc)]}
          BY <3>3 DEF Reload
        <4>2. ASSUME NEW d \in Call, NEW pc
              PROVE  LET x == [call[d] EXCEPT !.page = None, !.pc = pc]
                     IN  x.req = call[d].req /\ x.hub = call[d].hub /\ x.pc = pc
          BY DEF TypeOK, CallRecord
        <4>3. ASSUME NEW d \in Call
              PROVE  /\ call'[d].req = call[d].req
                     /\ call'[d].hub = call[d].hub
                     /\ call'[d].pc \in {call[d].pc, Cut(call[d].pc)}
          <5>1. CASE call'[d] = call[d]
            BY <5>1
          <5>2. CASE call'[d] = [call[d] EXCEPT !.page = None, !.pc = Cut(call[d].pc)]
            BY <4>2, <5>2
          <5>3. QED
            BY <4>1, <5>1, <5>2
        <4>4. QED
          BY <3>1, <4>3
      <3>4. QED
        BY <1>6, <3>2, <3>3
    <2>2. \A pc \in CallPc : Cut(pc) \in {pc, "orphan", "gone"} /\ (Cut(pc) = "idle" <=> pc = "idle")
      BY DEF Cut, Waiting
    <2>3. Minted' = Minted
      BY <2>1 DEF Minted
    <2>4. \A d \in Call : call[d].pc \in CallPc
      BY DEF TypeOK, CallRecord
    <2>5. QED
      BY <2>1, <2>2, <2>3, <2>4, StageFrame DEF StageInv, CosmosBehindEthereum
  <1>7. QED
    BY <1>2, <1>3, <1>4, <1>5, <1>6
    DEF Next, FetchNext, FindVN, FindAUS, ShowList, FetchFails, PageNext, LoadList,
        SwitchHub, vars, page

LEMMA StageHolds == Spec => []StageInv
  BY TypeInit, TypeStep, StageInit, StageStep, PTL DEF Spec

\* The database approves only what a hub contract has minted.
THEOREM ApprovedMinted == Spec => []ApprovedWasMinted
  <1>1. StageInv => ApprovedWasMinted
    BY DEF StageInv
  <1>2. QED
    BY <1>1, StageHolds, PTL

\* Cosmos never holds a product that no hub contract holds.
THEOREM CosmosFollows == Spec => []CosmosBehindEthereum
  <1>1. StageInv => CosmosBehindEthereum
    BY DEF StageInv
  <1>2. QED
    BY <1>1, StageHolds, PTL

-------------------------------------------------------------------------------
(* The stages as two-stage writes, and success where no error status is answered. *)

\* Each store has one kind of step that writes it.
LEMMA WhoWrites ==
  ASSUME [Next]_vars
  PROVE  \/ UNCHANGED <<onHub, onCosmos, status>>
         \/ UNCHANGED <<onCosmos, status>> /\ \E c \in Call : Mine(c)
         \/ /\ UNCHANGED <<onHub, status>>
            /\ \E c \in Call, answer \in CosmosAnswers : CreateOnCosmos(c, answer)
         \/ /\ UNCHANGED <<onHub, onCosmos>>
            /\ \E c \in Call, answer \in ApproveAnswers : ApproveRequest(c, answer)
  BY DEF Next, CallNext, SendTx, Mine, Revert, Receipt, MintFails, ReceiptFails, CreateOnCosmos,
         ApproveRequest, Refresh, FetchNext, FindVN, FindAUS, ShowList, FetchFails,
         PageNext, LoadList, SwitchHub, Click, ChangeTab, Reload, Unmount, vars, page

\* What leaving a view and a reload do to a call.
LEMMA LeavingKeeps ==
  ASSUME TypeOK, NEW p \in Page, ChangeTab(p) \/ Reload(p), NEW d \in Call
  PROVE  call'[d].req = call[d].req /\ call'[d].pc \in {call[d].pc, Cut(call[d].pc)}
  <1>1. CASE ChangeTab(p)
    <2>1. call'[d] \in {call[d], [call[d] EXCEPT !.page = None]}
      BY <1>1 DEF ChangeTab
    <2>2. QED
      BY <2>1 DEF TypeOK, CallRecord
  <1>2. CASE Reload(p)
    <2> DEFINE cut == Cut(call[d].pc)
    <2>1. call'[d] \in {call[d], [call[d] EXCEPT !.page = None, !.pc = cut]}
      BY <1>2 DEF Reload
    <2> HIDE DEF cut
    <2>2. QED
      BY <2>1 DEF TypeOK, CallRecord, cut
  <1>3. QED
    BY <1>1, <1>2

\* A call keeps its request once it is clicked.
LEMMA RequestKept ==
  ASSUME TypeOK, [Next]_vars, NEW d \in Call, call[d].pc # "idle"
  PROVE  call'[d].req = call[d].req
  <1>1. ASSUME NEW c \in Call, CallNext(c) PROVE call'[d].req = call[d].req
    BY <1>1, CallFrame
  <1>2. ASSUME NEW c \in Call, NEW f \in Fetch, Refresh(c, f)
        PROVE  call'[d].req = call[d].req
    BY <1>2 DEF Refresh, TypeOK, CallRecord
  <1>3. ASSUME NEW p \in Page, NEW c \in Call, NEW r \in Request, Click(c, p, r)
        PROVE  call'[d].req = call[d].req
    BY <1>3 DEF Click, TypeOK
  <1>4. ASSUME NEW p \in Page, ChangeTab(p) \/ Reload(p)
        PROVE  call'[d].req = call[d].req
    BY <1>4, LeavingKeeps
  <1>5. QED
    BY <1>1, <1>2, <1>3, <1>4
    DEF Next, FetchNext, FindVN, FindAUS, ShowList, FetchFails, PageNext, LoadList,
        SwitchHub, vars

LEMMA BridgeStep ==
  TypeOK /\ StageInv /\ [Next]_vars => [MintThenBridge!Next]_(MintThenBridge!vars)
  <1> SUFFICES ASSUME TypeOK, StageInv, [Next]_vars
               PROVE  \/ MintThenBridge!Write \/ MintThenBridge!Copy
                      \/ UNCHANGED <<Minted, onCosmos>>
    BY DEF MintThenBridge!Next, MintThenBridge!vars
  <1>1. UNCHANGED onHub => UNCHANGED Minted
    BY DEF Minted
  <1>2. ASSUME NEW c \in Call, Mine(c) PROVE MintThenBridge!Write
    <2>1. Minted' = Minted \cup {c} /\ UNCHANGED onCosmos
      BY <1>2, MineMinted DEF Mine
    <2>2. QED
      BY <2>1 DEF MintThenBridge!Write
  <1>3. ASSUME NEW c \in Call, NEW answer \in CosmosAnswers, CreateOnCosmos(c, answer)
        PROVE  MintThenBridge!Copy \/ UNCHANGED <<Minted, onCosmos>>
    <2>1. c \in Minted /\ UNCHANGED onHub /\ onCosmos' \in {onCosmos, onCosmos \cup {c}}
      BY <1>3 DEF CreateOnCosmos, StageInv
    <2>2. QED
      BY <1>1, <2>1 DEF MintThenBridge!Copy
  <1>4. QED
    BY <1>1, <1>2, <1>3, WhoWrites

LEMMA ApproveStep ==
  TypeOK /\ StageInv /\ [Next]_vars => [MintThenApprove!Next]_(MintThenApprove!vars)
  <1> DEFINE wanted   == {call[c].req : c \in Minted}
             approved == {r \in Request : status[r] = "approved"}
  <1> SUFFICES ASSUME TypeOK, StageInv, [Next]_vars
               PROVE  \/ MintThenApprove!Write \/ MintThenApprove!Copy
                      \/ UNCHANGED <<wanted, approved>>
    BY DEF MintThenApprove!Next, MintThenApprove!vars
  <1>1. \A c \in Minted : call'[c].req = call[c].req
    BY MintedCalls, RequestKept DEF StageInv
  <1>2. UNCHANGED onHub => UNCHANGED wanted
    <2> SUFFICES ASSUME UNCHANGED onHub PROVE wanted' = wanted
      OBVIOUS
    <2>1. Minted' = Minted
      BY DEF Minted
    <2>2. QED
      BY <1>1, <2>1
  <1>3. ASSUME NEW c \in Call, Mine(c) PROVE MintThenApprove!Write
    <2>1. Minted' = Minted \cup {c} /\ UNCHANGED status
      BY <1>3, MineMinted DEF Mine
    <2>2. call'[c].req = call[c].req
      BY <1>3, RequestKept DEF Mine
    <2>3. wanted' = wanted \cup {call[c].req}
      BY <1>1, <2>1, <2>2
    <2>4. QED
      BY <2>1, <2>3 DEF MintThenApprove!Write
  <1>4. ASSUME NEW c \in Call, NEW answer \in ApproveAnswers, ApproveRequest(c, answer)
        PROVE  MintThenApprove!Copy \/ UNCHANGED <<wanted, approved>>
    <2>1. /\ c \in Minted /\ call[c].req \in Request /\ UNCHANGED onHub
          /\ status' \in {status, [status EXCEPT ![call[c].req] = "approved"]}
      BY <1>4 DEF ApproveRequest, StageInv
    <2>2. approved' \in {approved, approved \cup {call[c].req}}
      BY <2>1 DEF TypeOK
    <2>3. call[c].req \in wanted
      BY <2>1
    <2> HIDE DEF approved, wanted
    <2>4. QED
      BY <1>2, <2>1, <2>2, <2>3 DEF MintThenApprove!Copy, approved, wanted
  <1>5. QED
    BY <1>2, <1>3, <1>4, WhoWrites

\* With any number of administrators, calls and requests, what is minted is bridged,
\* and what is minted for is approved, one by one and for good.
THEOREM ImplementsStages == Spec => StagesInOrder
  <1>1. Init => MintThenBridge!Init /\ MintThenApprove!Init
    <2>1. Init => Minted = {}
      BY DEF Init, Minted
    <2>2. QED
      BY <2>1 DEF Init, MintThenBridge!Init, MintThenApprove!Init
  <1>2. QED
    BY <1>1, BridgeStep, ApproveStep, TypeCorrect, StageHolds, PTL
    DEF Spec, StagesInOrder, MintThenBridge!Spec, MintThenApprove!Spec

\* How a call comes to its last places.
LEMMA LastSteps ==
  ASSUME TypeOK, [Next]_vars, NEW c \in Call,
         call'[c].pc \in {"approve", "refresh", "done"}
  PROVE  \/ call'[c].pc = call[c].pc
         \/ /\ call'[c].pc = "approve"
            /\ \E answer \in CosmosAnswers : CreateOnCosmos(c, answer)
         \/ /\ call'[c].pc = "refresh"
            /\ \E answer \in ApproveAnswers : ApproveRequest(c, answer)
         \/ call[c].pc = "refresh" /\ call'[c].pc = "done"
  <1> DEFINE Goal ==
        \/ call'[c].pc = call[c].pc
        \/ /\ call'[c].pc = "approve"
           /\ \E answer \in CosmosAnswers : CreateOnCosmos(c, answer)
        \/ /\ call'[c].pc = "refresh"
           /\ \E answer \in ApproveAnswers : ApproveRequest(c, answer)
        \/ call[c].pc = "refresh" /\ call'[c].pc = "done"
  <1>1. ASSUME NEW d \in Call, CallNext(d) PROVE Goal
    <2>1. CASE d # c
      BY <1>1, <2>1, CallFrame
    <2>2. CASE d = c
      <3>1. CASE \/ SendTx(c) \/ Mine(c) \/ Revert(c) \/ Receipt(c)
                 \/ MintFails(c) \/ ReceiptFails(c)
        <4>1. call'[c].pc \in {"pool", "mined", "gone", "orphan", "reverted", "cosmos",
                               "failed"}
          BY <3>1 DEF SendTx, Mine, Revert, Receipt, MintFails, ReceiptFails, Fail, TypeOK, CallRecord
        <4>2. QED
          BY <4>1
      <3>2. ASSUME NEW answer \in CosmosAnswers, CreateOnCosmos(c, answer) PROVE Goal
        <4>1. call'[c].pc \in {"approve", "failed"}
          BY <3>2 DEF CreateOnCosmos, Fail, TypeOK, CallRecord
        <4>2. QED
          BY <3>2, <4>1
      <3>3. ASSUME NEW answer \in ApproveAnswers, ApproveRequest(c, answer) PROVE Goal
        <4>1. call'[c].pc \in {"refresh", "failed"}
          BY <3>3 DEF ApproveRequest, Fail, TypeOK, CallRecord
        <4>2. QED
          BY <3>3, <4>1
      <3>4. QED
        BY <1>1, <2>2, <3>1, <3>2, <3>3 DEF CallNext
    <2>3. QED
      BY <2>1, <2>2
  <1>2. ASSUME NEW d \in Call, NEW f \in Fetch, Refresh(d, f) PROVE Goal
    BY <1>2 DEF Refresh, TypeOK, CallRecord
  <1>3. ASSUME NEW p \in Page, NEW d \in Call, NEW r \in Request, Click(d, p, r)
        PROVE  Goal
    BY <1>3 DEF Click, TypeOK
  <1>4. ASSUME NEW p \in Page, ChangeTab(p) \/ Reload(p) PROVE Goal
    BY <1>4, LeavingKeeps DEF Cut
  <1>5. QED
    BY <1>1, <1>2, <1>3, <1>4
    DEF Next, FetchNext, FindVN, FindAUS, ShowList, FetchFails, PageNext, LoadList,
        SwitchHub, vars

\* What a call has done by the time it is at its last places, if neither server ever
\* answers with an error status.
ServedInv ==
  \A c \in Call :
    /\ call[c].pc \in {"approve", "refresh", "done"} => c \in onCosmos
    /\ call[c].pc \in {"refresh", "done"} => status[call[c].req] = "approved"

LEMMA ServedStep ==
  ASSUME "refused" \notin CosmosAnswers \cup ApproveAnswers
  PROVE  TypeOK /\ StageInv /\ ServedInv /\ [Next]_vars => ServedInv'
  <1> SUFFICES ASSUME TypeOK, StageInv, ServedInv, [Next]_vars,
                      NEW c \in Call, call'[c].pc \in {"approve", "refresh", "done"}
               PROVE  /\ c \in onCosmos'
                      /\ call'[c].pc # "approve" => status'[call'[c].req] = "approved"
    BY DEF ServedInv
  <1>1. onCosmos \subseteq onCosmos'
    BY WhoWrites DEF CreateOnCosmos
  <1>2. \A r \in Request : status[r] = "approved" => status'[r] = "approved"
    BY WhoWrites DEF ApproveRequest, TypeOK
  <1>3. ASSUME call[c].pc # "idle"
        PROVE  call'[c].req = call[c].req /\ call[c].req \in Request
    BY <1>3, RequestKept DEF StageInv
  <1>4. ASSUME call[c].pc \in {"refresh", "done"}
        PROVE  c \in onCosmos' /\ status'[call'[c].req] = "approved"
    BY <1>1, <1>2, <1>3, <1>4 DEF ServedInv
  <1>5. CASE call'[c].pc = call[c].pc
    BY <1>1, <1>4, <1>5 DEF ServedInv
  <1>6. ASSUME NEW answer \in CosmosAnswers, CreateOnCosmos(c, answer),
               call'[c].pc = "approve"
        PROVE  c \in onCosmos'
    <2>1. answer \in {"served", "refused"}
      BY <1>6 DEF CreateOnCosmos, Fail, TypeOK, CallRecord
    <2>2. QED
      BY <1>6, <2>1 DEF CreateOnCosmos
  <1>7. ASSUME NEW answer \in ApproveAnswers, ApproveRequest(c, answer),
               call'[c].pc = "refresh"
        PROVE  c \in onCosmos' /\ status'[call'[c].req] = "approved"
    <2>1. answer = "served" /\ call[c].pc = "approve"
      BY <1>7 DEF ApproveRequest, Fail, TypeOK, CallRecord
    <2>2. status' = [status EXCEPT ![call[c].req] = "approved"]
      BY <1>7, <2>1 DEF ApproveRequest
    <2>3. QED
      BY <1>1, <1>3, <2>1, <2>2 DEF ServedInv, TypeOK
  <1>8. QED
    BY <1>4, <1>5, <1>6, <1>7, LastSteps

\* AdminApproval.jsx:67 is right as long as no server answers with an error status:
\* lost answers, unreachable servers, reloads and other administrators never make a
\* call report an approval that is not complete.
THEOREM SuccessComplete ==
  ASSUME "refused" \notin CosmosAnswers \cup ApproveAnswers
  PROVE  Spec => []SuccessIsComplete
  <1>1. Init => ServedInv
    BY DEF Init, ServedInv, IdleCall
  <1>2. TypeOK /\ StageInv /\ ServedInv /\ [Next]_vars => ServedInv'
    BY ServedStep
  <1>3. StageInv /\ ServedInv => SuccessIsComplete
    BY DEF StageInv, ServedInv, SuccessIsComplete
  <1>4. QED
    BY <1>1, <1>2, <1>3, TypeCorrect, StageHolds, PTL DEF Spec

-------------------------------------------------------------------------------
(* Disabled buttons. *)

LEMMA BusyInit == Init => BusyRowIsRunning
  BY DEF Init, BusyRowIsRunning

\* The rows stay accounted for when every running call but those of one page
\* runs on, and the rows of that page, if any, are released.
LEMMA BusyFrame ==
  ASSUME TypeOK, BusyRowIsRunning, NEW q,
         \A p \in Page : p # q => loadingId'[p] = loadingId[p],
         q \in Page => loadingId'[q] = None,
         \A d \in Call : call[d].pc \in Waiting /\ call[d].page # q
           => /\ call'[d].pc \in Waiting
              /\ call'[d].page = call[d].page /\ call'[d].req = call[d].req
  PROVE  BusyRowIsRunning'
  <1> SUFFICES ASSUME NEW p \in Page, loadingId'[p] # None
               PROVE  \E c \in Call : /\ call'[c].page = p
                                      /\ call'[c].req = loadingId'[p]
                                      /\ call'[c].pc \in Waiting
    BY DEF BusyRowIsRunning
  <1>1. p # q /\ loadingId'[p] = loadingId[p]
    OBVIOUS
  <1>2. PICK c \in Call : /\ call[c].page = p /\ call[c].req = loadingId[p]
                          /\ call[c].pc \in Waiting
    BY <1>1 DEF BusyRowIsRunning
  <1>3. QED
    BY <1>1, <1>2

LEMMA BusyStep == TypeOK /\ BusyRowIsRunning /\ [Next]_vars => BusyRowIsRunning'
  <1> SUFFICES ASSUME TypeOK, BusyRowIsRunning, [Next]_vars PROVE BusyRowIsRunning'
    OBVIOUS
  <1>0. None \notin Page
    BY NoneAssumption
  <1>1. ASSUME UNCHANGED loadingId,
               \A d \in Call : call[d].pc \in Waiting =>
                 /\ call'[d].pc \in Waiting
                 /\ call'[d].page = call[d].page /\ call'[d].req = call[d].req
        PROVE  BusyRowIsRunning'
    BY <1>0, <1>1, BusyFrame
  <1>2. ASSUME NEW c \in Call, Release(c), NEW pc \in CallPc,
               call' = [call EXCEPT ![c].pc = pc]
        PROVE  BusyRowIsRunning'
    <2>1. \A p \in Page : p # call[c].page => loadingId'[p] = loadingId[p]
      BY <1>2 DEF Release, TypeOK
    <2>2. call[c].page \in Page => loadingId'[call[c].page] = None
      BY <1>0, <1>2 DEF Release, TypeOK
    <2>3. \A d \in Call : call[d].page # call[c].page => call'[d] = call[d]
      BY <1>2 DEF TypeOK
    <2>4. QED
      BY <2>1, <2>2, <2>3, BusyFrame
  <1>3. ASSUME NEW c \in Call, NEW pc \in CallPc, UNCHANGED loadingId,
               call' = [call EXCEPT ![c].pc = pc],
               call[c].pc \in Waiting => pc \in Waiting
        PROVE  BusyRowIsRunning'
    <2>1. \A d \in Call : call[d].pc \in Waiting =>
            /\ call'[d].pc \in Waiting
            /\ call'[d].page = call[d].page /\ call'[d].req = call[d].req
      BY <1>3 DEF TypeOK, CallRecord
    <2>2. QED
      BY <1>1, <1>3, <2>1
  <1>4. ASSUME NEW c \in Call, CallNext(c)
        PROVE  BusyRowIsRunning'
    <2>1. CASE SendTx(c) \/ Receipt(c)
      BY <1>3, <2>1 DEF SendTx, Receipt, page, Waiting, CallPc
    <2>2. CASE Mine(c) \/ Revert(c)
      <3>1. \E pc \in CallPc :
              /\ call' = [call EXCEPT ![c].pc = pc]
              /\ call[c].pc \in Waiting => pc \in Waiting
        BY <2>2 DEF Mine, Revert, Waiting, CallPc
      <3>2. UNCHANGED loadingId
        BY <2>2 DEF Mine, Revert, page
      <3>3. QED
        BY <1>3, <3>1, <3>2
    <2>3. CASE MintFails(c)
      BY <1>2, <2>3 DEF MintFails, Fail, CallPc
    <2>7. CASE ReceiptFails(c)
      BY <1>2, <2>7 DEF ReceiptFails, CallPc
    <2>4. ASSUME NEW answer \in CosmosAnswers, CreateOnCosmos(c, answer)
          PROVE  BusyRowIsRunning'
      <3>1. CASE answer \in {"served", "refused"}
        BY <1>3, <2>4, <3>1 DEF CreateOnCosmos, CallPc, Waiting
      <3>2. CASE answer \notin {"served", "refused"}
        BY <1>2, <2>4, <3>2 DEF CreateOnCosmos, Fail, CallPc
      <3>3. QED
        BY <3>1, <3>2
    <2>5. ASSUME NEW answer \in ApproveAnswers, ApproveRequest(c, answer)
          PROVE  BusyRowIsRunning'
      <3>1. CASE answer \in {"served", "refused"}
        BY <1>2, <2>5, <3>1 DEF ApproveRequest, CallPc
      <3>2. CASE answer \notin {"served", "refused"}
        BY <1>2, <2>5, <3>2 DEF ApproveRequest, Fail, CallPc
      <3>3. QED
        BY <3>1, <3>2
    <2>6. QED
      BY <1>4, <2>1, <2>2, <2>3, <2>4, <2>5, <2>7 DEF CallNext
  <1>5. ASSUME NEW c \in Call, NEW f \in Fetch, Refresh(c, f)
        PROVE  BusyRowIsRunning'
    <2>1. /\ UNCHANGED loadingId /\ call' = [call EXCEPT ![c].pc = "done"]
          /\ call[c].pc \notin Waiting /\ "done" \in CallPc
      BY <1>5 DEF Refresh, page, Waiting, CallPc
    <2>2. QED
      BY <1>3, <2>1
  <1>6. ASSUME NEW p \in Page, NEW c \in Call, NEW r \in Request, Click(c, p, r)
        PROVE  BusyRowIsRunning'
    <2>1. /\ call'[c].page = p /\ call'[c].req = r /\ call'[c].pc \in Waiting
          /\ loadingId'[p] = r
          /\ \A q \in Page \ {p} : loadingId'[q] = loadingId[q]
          /\ \A d \in Call \ {c} : call'[d] = call[d]
      BY <1>6 DEF Click, TypeOK, Waiting
    <2>2. call[c].pc \notin Waiting
      BY <1>6 DEF Click, Waiting
    <2>3. QED
      BY <2>1, <2>2 DEF BusyRowIsRunning
  <1>7. ASSUME NEW p \in Page, ChangeTab(p) \/ Reload(p)
        PROVE  BusyRowIsRunning'
    <2>1. /\ \A q \in Page : q # p => loadingId'[q] = loadingId[q]
          /\ loadingId'[p] = None
      BY <1>7 DEF ChangeTab, Reload, Unmount, TypeOK
    <2>2. \A d \in Call : call[d].page # p => call'[d] = call[d]
      BY <1>7 DEF ChangeTab, Reload
    <2>3. QED
      BY <2>1, <2>2, BusyFrame
  <1>8. ASSUME UNCHANGED <<loadingId, call>>
        PROVE  BusyRowIsRunning'
    BY <1>1, <1>8
  <1>9. QED
    BY <1>4, <1>5, <1>6, <1>7, <1>8
    DEF Next, FetchNext, FindVN, FindAUS, ShowList, FetchFails, PageNext, LoadList,
        SwitchHub, vars, page

\* A row whose button is disabled is being approved by a call that has not
\* returned: however calls overlap, no row is locked for nothing.
THEOREM BusyRows == Spec => []BusyRowIsRunning
  BY TypeInit, TypeStep, BusyInit, BusyStep, PTL DEF Spec

===============================================================================

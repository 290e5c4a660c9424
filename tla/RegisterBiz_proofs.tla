-------------------------- MODULE RegisterBiz_proofs --------------------------
(***************************************************************************)
(* Theorems about the registration of businesses, for any number of        *)
(* browsers, calls and accounts and whatever the server answers: types,    *)
(* what the receipt guarantees of the identities on Cosmos, and the button.*)
(***************************************************************************)
EXTENDS RegisterBiz, TLAPS

-------------------------------------------------------------------------------
(* Type correctness. *)

\* What the program counter of a call says of the rest of its record.
GoodCall(r) ==
  /\ r.pc \in {"idle", "orphan"} => ~ r.attached
  /\ r.pc # "idle" => r.browser \in Browser /\ r.profile \in Profile
  /\ r.pc \notin {"idle", "sign"} => r.sender \in Wallet
  /\ r.pc = "cosmos" => r.address \in Wallet

CallOK == \A c \in Call : GoodCall(call[c])

TypeInv == TypeOK /\ CallOK

LEMMA IdleGood == IdleCall \in CallRecord /\ GoodCall(IdleCall)
  BY DEF IdleCall, CallRecord, CallPc, GoodCall

LEMMA TypeInit == Init => TypeInv
<1> SUFFICES ASSUME Init PROVE TypeInv
  OBVIOUS
<1>1. \A c \in Call : call[c] = IdleCall
  BY DEF Init
<1>2. TypeOK
  BY AccountAssumption, IdleGood DEF Init, TypeOK
<1>3. QED
  BY <1>1, <1>2, IdleGood DEF TypeInv, CallOK

\* A step that gives one call a good record keeps the calls good.
LEMMA OneCall ==
  ASSUME TypeInv, NEW c \in Call, NEW r \in CallRecord, GoodCall(r),
         call' = [call EXCEPT ![c] = r]
  PROVE  call' \in [Call -> CallRecord] /\ CallOK'
<1>1. call \in [Call -> CallRecord]
  BY DEF TypeInv, TypeOK
<1>2. \A d \in Call : call'[d] = IF d = c THEN r ELSE call[d]
  BY <1>1
<1>3. QED
  BY <1>1, <1>2 DEF TypeInv, CallOK

LEMMA EnabledType ==
  ASSUME TypeInv, NEW c \in Call
  PROVE  Enabled(c) \in [Browser -> BOOLEAN]
BY DEF Enabled, TypeInv, TypeOK

\* finally: the call is idle and the button, if it is its page's, is enabled.
LEMMA ReturnType ==
  ASSUME TypeInv, NEW c \in Call, call[c].pc # "idle", Return(c)
  PROVE  /\ call' \in [Call -> CallRecord] /\ CallOK'
         /\ loading' \in [Browser -> BOOLEAN]
<1>1. call' = [call EXCEPT ![c] = IdleCall]
  BY DEF Return
<1>2. loading' \in [Browser -> BOOLEAN]
  BY EnabledType DEF Return
<1>3. QED
  BY <1>1, <1>2, IdleGood, OneCall

LEMMA TypeStep == TypeInv /\ [Next]_vars => TypeInv'
<1> SUFFICES ASSUME TypeInv, [Next]_vars PROVE TypeInv'
  OBVIOUS
<1>0. /\ TypeOK
      /\ \A c \in Call : call[c] \in CallRecord /\ GoodCall(call[c])
  BY DEF TypeInv, TypeOK, CallOK
<1>1. ASSUME NEW c \in Call, NEW b \in Browser, NEW profile \in Profile,
             Submit(c, b, profile)
      PROVE  TypeInv'
  <2> DEFINE r == [IdleCall EXCEPT !.pc = "sign", !.browser = b,
                                   !.attached = TRUE, !.profile = profile]
  <2>1. r \in CallRecord /\ GoodCall(r)
    BY DEF IdleCall, CallRecord, CallPc, GoodCall
  <2>2. call' = [call EXCEPT ![c] = r]
    BY <1>1 DEF Submit
  <2> HIDE DEF r
  <2>3. QED
    BY <1>0, <1>1, <2>1, <2>2, OneCall DEF Submit, TypeInv, TypeOK
<1>2. ASSUME NEW c \in Call, SendTx(c) PROVE TypeInv'
  <2> DEFINE sender == account[call[c].browser]
             r == [call[c] EXCEPT !.pc = "pool", !.sender = sender]
  <2>1. sender \in Wallet
    BY <1>0, <1>2 DEF SendTx, GoodCall, TypeOK
  <2>2. r \in CallRecord /\ GoodCall(r)
    BY <1>0, <1>2, <2>1 DEF SendTx, CallRecord, CallPc, GoodCall
  <2>3. call' = [call EXCEPT ![c] = r]
    BY <1>0, <1>2 DEF SendTx, TypeOK
  <2> HIDE DEF r
  <2>4. QED
    BY <1>0, <1>2, <2>2, <2>3, OneCall DEF SendTx, TypeInv, TypeOK
<1>3. ASSUME NEW c \in Call, NEW pc \in {"mined", "reverted"},
             call[c].pc \in {"pool", "orphan"},
             call' = [call EXCEPT ![c] = Awaited(c, pc)]
      PROVE  call' \in [Call -> CallRecord] /\ CallOK'
  <2>1. Awaited(c, pc) \in CallRecord /\ GoodCall(Awaited(c, pc))
    <3>1. CASE call[c].pc = "orphan"
      BY <3>1, IdleGood DEF Awaited
    <3>2. CASE call[c].pc = "pool"
      <4>1. Awaited(c, pc) = [call[c] EXCEPT !.pc = pc]
        BY <3>2 DEF Awaited
      <4>2. [call[c] EXCEPT !.pc = pc] \in CallRecord
        BY <1>0 DEF CallRecord, CallPc
      <4>3. GoodCall([call[c] EXCEPT !.pc = pc])
        BY <1>0, <3>2 DEF CallRecord, CallPc, GoodCall
      <4>4. QED
        BY <4>1, <4>2, <4>3
    <3>3. QED
      BY <1>3, <3>1, <3>2
  <2>2. QED
    BY <1>3, <2>1, OneCall
<1>4. ASSUME NEW c \in Call, Mine(c) PROVE TypeInv'
  <2>1. call[c].sender \in Wallet /\ call[c].profile \in Profile
    BY <1>0, <1>4 DEF Mine, GoodCall
  <2>2. call' \in [Call -> CallRecord] /\ CallOK'
    BY <1>3, <1>4 DEF Mine
  <2>3. QED
    BY <1>0, <1>4, <2>1, <2>2 DEF Mine, TypeInv, TypeOK
<1>5. ASSUME NEW c \in Call, Revert(c) PROVE TypeInv'
  <2>1. call' \in [Call -> CallRecord] /\ CallOK'
    BY <1>3, <1>5 DEF Revert
  <2>2. QED
    BY <1>0, <1>5, <2>1 DEF Revert, TypeInv, TypeOK
<1>6. ASSUME NEW c \in Call, GetAddress(c) PROVE TypeInv'
  <2> DEFINE address == account[call[c].browser]
             r == [call[c] EXCEPT !.pc = "cosmos", !.address = address]
  <2>1. address \in Wallet
    BY <1>0, <1>6 DEF GetAddress, GoodCall, TypeOK
  <2>2. r \in CallRecord /\ GoodCall(r)
    BY <1>0, <1>6, <2>1 DEF GetAddress, CallRecord, CallPc, GoodCall
  <2>3. call' = [call EXCEPT ![c] = r]
    BY <1>0, <1>6 DEF GetAddress, TypeOK
  <2> HIDE DEF r
  <2>4. QED
    BY <1>0, <1>6, <2>2, <2>3, OneCall DEF GetAddress, TypeInv, TypeOK
<1>7. ASSUME NEW c \in Call, RegisterFails(c) PROVE TypeInv'
  BY <1>0, <1>7, ReturnType DEF RegisterFails, TypeInv, TypeOK
<1>14. ASSUME NEW c \in Call, ReceiptFails(c) PROVE TypeInv'
  <2> DEFINE r == [call[c] EXCEPT !.pc = "orphan", !.attached = FALSE]
  <2>1. r \in CallRecord /\ GoodCall(r)
    BY <1>0, <1>14 DEF ReceiptFails, CallRecord, CallPc, GoodCall
  <2>2. call' = [call EXCEPT ![c] = r]
    BY <1>0, <1>14 DEF ReceiptFails, TypeOK
  <2> HIDE DEF r
  <2>3. QED
    BY <1>0, <1>14, <2>1, <2>2, OneCall, EnabledType DEF ReceiptFails, TypeInv, TypeOK
<1>8. ASSUME NEW c \in Call, NEW answer \in CosmosAnswers, PostIdentity(c, answer)
      PROVE  TypeInv'
  <2>1. [wallet |-> call[c].address, profile |-> call[c].profile] \in Identity
    BY <1>0, <1>8 DEF PostIdentity, GoodCall, Identity
  <2>2. identities' \subseteq Identity
    BY <1>0, <1>8, <2>1 DEF PostIdentity, TypeOK
  <2>3. QED
    BY <1>0, <1>8, <2>2, ReturnType DEF PostIdentity, TypeInv, TypeOK
<1>9. ASSUME NEW b \in Browser, NEW w \in Wallet, SwitchAccount(b, w) PROVE TypeInv'
  BY <1>0, <1>9 DEF SwitchAccount, TypeInv, TypeOK, CallOK
<1>10. ASSUME NEW b \in Browser, ChangeTab(b) PROVE TypeInv'
  <2>1. \A c \in Call : /\ [call[c] EXCEPT !.attached = FALSE] \in CallRecord
                        /\ GoodCall([call[c] EXCEPT !.attached = FALSE])
    BY <1>0 DEF CallRecord, GoodCall
  <2>2. call' \in [Call -> CallRecord] /\ CallOK'
    BY <1>0, <1>10, <2>1 DEF ChangeTab, CallOK
  <2>3. QED
    BY <1>0, <1>10, <2>2 DEF ChangeTab, TypeInv, TypeOK
<1>11. ASSUME NEW b \in Browser, Reload(b) PROVE TypeInv'
  <2> DEFINE Cut(c) == [call[c] EXCEPT !.pc = "orphan", !.attached = FALSE]
  <2>1. ASSUME NEW c \in Call, call[c].pc \in {"pool", "orphan"}
        PROVE  Cut(c) \in CallRecord /\ GoodCall(Cut(c))
    BY <1>0, <2>1 DEF CallRecord, CallPc, GoodCall
  <2>2. call' = [c \in Call |-> IF call[c].browser # b THEN call[c]
                                ELSE IF call[c].pc \in {"pool", "orphan"}
                                THEN Cut(c) ELSE IdleCall]
    BY <1>11 DEF Reload
  <2> HIDE DEF Cut
  <2>3. call' \in [Call -> CallRecord] /\ CallOK'
    BY <1>0, <2>1, <2>2, IdleGood DEF CallOK
  <2>4. QED
    BY <1>0, <1>11, <2>3 DEF Reload, TypeInv, TypeOK
<1>12. CASE UNCHANGED vars
  BY <1>0, <1>12 DEF vars, TypeInv, TypeOK, CallOK
<1>13. QED
  BY <1>1, <1>2, <1>4, <1>5, <1>6, <1>7, <1>8, <1>9, <1>10, <1>11, <1>12, <1>14
  DEF Next, CallNext, UserNext

\* Every variable holds a value of its kind, with any number of browsers and calls.
THEOREM TypeCorrect == Spec => []TypeOK
<1>1. Spec => []TypeInv
  BY TypeInit, TypeStep, PTL DEF Spec
<1>2. QED
  BY <1>1, PTL DEF TypeInv

-------------------------------------------------------------------------------
(* What the receipt guarantees of the identities on Cosmos. *)

\* A call that has its receipt, and each identity posted, has its registration.
ReceiptOK ==
  \A c \in Call : call[c].pc \in {"mined", "cosmos"} =>
    manufacturers[call[c].sender] = call[c].profile

RegisteredInv == TypeInv /\ ReceiptOK /\ ProfileIsRegistered

\* A registration is never changed.
LEMMA RegistrationStays ==
  ASSUME TypeInv, [Next]_vars, NEW w \in Wallet, manufacturers[w] # None
  PROVE  manufacturers'[w] = manufacturers[w]
<1>1. ASSUME NEW c \in Call, Mine(c) PROVE manufacturers'[w] = manufacturers[w]
  BY <1>1 DEF Mine, TypeInv, TypeOK
<1>2. QED
  BY <1>1 DEF Next, CallNext, UserNext, vars, Submit, SendTx, Revert, GetAddress,
              RegisterFails, ReceiptFails, PostIdentity, SwitchAccount, ChangeTab, Reload

\* The only step that brings a call to its receipt is Mine, and from there to
\* Cosmos GetAddress; neither changes who signed what.
LEMMA ReceiptSteps ==
  ASSUME TypeInv, [Next]_vars, NEW c \in Call, call'[c].pc \in {"mined", "cosmos"}
  PROVE  /\ call'[c].sender = call[c].sender /\ call'[c].profile = call[c].profile
         /\ call'[c].browser = call[c].browser
         /\ \/ call[c].pc \in {"mined", "cosmos"}
            \/ Mine(c)
<1> DEFINE Goal == /\ call'[c].sender = call[c].sender
                   /\ call'[c].profile = call[c].profile
                   /\ call'[c].browser = call[c].browser
                   /\ call[c].pc \in {"mined", "cosmos"} \/ Mine(c)
<1>0. /\ call \in [Call -> CallRecord] /\ IdleCall \in CallRecord
      /\ IdleCall.pc = "idle"
  BY IdleGood DEF TypeInv, TypeOK, IdleCall
<1>1. ASSUME NEW d \in Call, NEW b \in Browser, NEW profile \in Profile,
             Submit(d, b, profile)
      PROVE  Goal
  <2>1. [IdleCall EXCEPT !.pc = "sign", !.browser = b, !.attached = TRUE,
                         !.profile = profile].pc = "sign"
    BY DEF IdleCall
  <2>2. QED
    BY <1>0, <1>1, <2>1 DEF Submit
<1>2. ASSUME NEW d \in Call, SendTx(d) PROVE Goal
  BY <1>0, <1>2 DEF SendTx, CallRecord
<1>3. ASSUME NEW d \in Call, Mine(d) PROVE Goal
  BY <1>0, <1>3 DEF Mine, Awaited, CallRecord
<1>4. ASSUME NEW d \in Call, Revert(d) PROVE Goal
  BY <1>0, <1>4 DEF Revert, Awaited, CallRecord
<1>5. ASSUME NEW d \in Call, GetAddress(d) PROVE Goal
  BY <1>0, <1>5 DEF GetAddress, CallRecord
<1>6. ASSUME NEW d \in Call, Return(d) PROVE Goal
  BY <1>0, <1>6 DEF Return
<1>7. ASSUME NEW b \in Browser, ChangeTab(b) PROVE Goal
  BY <1>0, <1>7 DEF ChangeTab, CallRecord
<1>8. ASSUME NEW b \in Browser, Reload(b) PROVE Goal
  BY <1>0, <1>8 DEF Reload, CallRecord
<1>9. CASE UNCHANGED call
  BY <1>9
<1>11. ASSUME NEW d \in Call, ReceiptFails(d) PROVE Goal
  BY <1>0, <1>11 DEF ReceiptFails, CallRecord
<1>10. QED
  BY <1>1, <1>2, <1>3, <1>4, <1>5, <1>6, <1>7, <1>8, <1>9, <1>11
  DEF Next, CallNext, UserNext, vars, RegisterFails, ReceiptFails, PostIdentity, SwitchAccount

LEMMA RegisteredStep == RegisteredInv /\ [Next]_vars => RegisteredInv'
<1> SUFFICES ASSUME RegisteredInv, [Next]_vars PROVE RegisteredInv'
  OBVIOUS
<1>1. TypeInv /\ TypeInv'
  BY TypeStep DEF RegisteredInv
<1>2. ASSUME NEW c \in Call, call'[c].pc \in {"mined", "cosmos"}
      PROVE  manufacturers'[call'[c].sender] = call'[c].profile
  <2>1. call[c].pc \in {"mined", "cosmos"} \/ Mine(c)
    BY <1>1, <1>2, ReceiptSteps
  <2>2. call'[c].sender = call[c].sender /\ call'[c].profile = call[c].profile
    BY <1>1, <1>2, ReceiptSteps
  <2>3. call[c].pc # "idle" /\ call[c].pc # "sign"
    BY <2>1 DEF Mine
  <2>4. call[c].sender \in Wallet /\ call[c].profile \in Profile
    BY <1>1, <2>3 DEF TypeInv, CallOK, GoodCall
  <2>5. CASE Mine(c)
    BY <1>1, <2>2, <2>4, <2>5 DEF Mine, TypeInv, TypeOK
  <2>6. CASE call[c].pc \in {"mined", "cosmos"}
    <3>1. manufacturers[call[c].sender] = call[c].profile
      BY <2>6 DEF RegisteredInv, ReceiptOK
    <3>2. manufacturers[call[c].sender] # None
      BY <3>1, <2>4, NoneAssumption
    <3>3. QED
      BY <1>1, <2>2, <2>4, <3>1, <3>2, RegistrationStays
  <2>7. QED
    BY <2>1, <2>5, <2>6
<1>3. ASSUME NEW i \in identities' PROVE \E w \in Wallet : manufacturers'[w] = i.profile
  <2>1. CASE i \in identities
    <3>1. PICK w \in Wallet : manufacturers[w] = i.profile
      BY <2>1 DEF RegisteredInv, ProfileIsRegistered
    <3>2. i.profile \in Profile
      BY <1>1, <2>1 DEF TypeInv, TypeOK, Identity
    <3>3. QED
      BY <1>1, <3>1, <3>2, NoneAssumption, RegistrationStays
  <2>2. CASE i \notin identities
    <3>1. PICK c \in Call, answer \in CosmosAnswers : PostIdentity(c, answer)
      BY <2>2 DEF Next, CallNext, UserNext, vars, Submit, SendTx, Mine, Revert,
                  GetAddress, RegisterFails, ReceiptFails, SwitchAccount, ChangeTab, Reload
    <3>2. i.profile = call[c].profile /\ call[c].pc = "cosmos"
      BY <2>2, <3>1 DEF PostIdentity
    <3>3. /\ call[c].sender \in Wallet
          /\ manufacturers'[call[c].sender] = call[c].profile
      BY <1>1, <3>1, <3>2
      DEF PostIdentity, RegisteredInv, ReceiptOK, TypeInv, CallOK, GoodCall
    <3>4. QED
      BY <3>2, <3>3
  <2>3. QED
    BY <2>1, <2>2
<1>4. QED
  BY <1>1, <1>2, <1>3 DEF RegisteredInv, ReceiptOK, ProfileIsRegistered

\* Whatever is identified on Cosmos is the profile of a registered wallet, with
\* accounts switched and pages reloaded at any point of handleRegister.
THEOREM ProfileRegistered == Spec => []ProfileIsRegistered
<1>1. Init => RegisteredInv
  <2> SUFFICES ASSUME Init PROVE RegisteredInv
    OBVIOUS
  <2>1. \A c \in Call : call[c].pc = "idle"
    BY DEF Init, IdleCall
  <2>2. QED
    BY <2>1, TypeInit DEF Init, RegisteredInv, ReceiptOK, ProfileIsRegistered
<1>2. Spec => []RegisteredInv
  BY <1>1, RegisteredStep, PTL DEF Spec
<1>3. QED
  BY <1>2, PTL DEF RegisteredInv

-------------------------------------------------------------------------------
(* The identity of a wallet that has its browsers to itself. *)

\* A call signs and is identified with accounts of its browser.
AccountOK ==
  /\ \A b \in Browser : account[b] \in AccountsOf[b]
  /\ \A c \in Call :
       /\ call[c].pc \in {"pool", "mined", "cosmos"} =>
            call[c].sender \in AccountsOf[call[c].browser]
       /\ call[c].pc = "cosmos" => call[c].address \in AccountsOf[call[c].browser]

SoleInv == RegisteredInv /\ AccountOK /\ SoleIsConsistent

LEMMA AccountStep ==
  ASSUME TypeInv, AccountOK, [Next]_vars
  PROVE  AccountOK'
<1>0. /\ call \in [Call -> CallRecord] /\ account \in [Browser -> Wallet]
      /\ IdleCall \in CallRecord /\ IdleCall.pc = "idle"
      /\ \A c \in Call : call[c].pc # "idle" => call[c].browser \in Browser
  BY IdleGood DEF TypeInv, TypeOK, CallOK, GoodCall, IdleCall
<1>1. ASSUME NEW d \in Call, NEW b \in Browser, NEW profile \in Profile,
             Submit(d, b, profile)
      PROVE  AccountOK'
  <2>1. [IdleCall EXCEPT !.pc = "sign", !.browser = b, !.attached = TRUE,
                         !.profile = profile].pc = "sign"
    BY DEF IdleCall
  <2>2. QED
    BY <1>0, <1>1, <2>1 DEF Submit, AccountOK
<1>2. ASSUME NEW d \in Call, SendTx(d) PROVE AccountOK'
  <2>1. account[call[d].browser] \in AccountsOf[call[d].browser]
    BY <1>0, <1>2 DEF SendTx, AccountOK
  <2>2. QED
    BY <1>0, <1>2, <2>1 DEF SendTx, CallRecord, AccountOK
<1>3. ASSUME NEW d \in Call, Mine(d) PROVE AccountOK'
  BY <1>0, <1>3 DEF Mine, Awaited, CallRecord, AccountOK
<1>4. ASSUME NEW d \in Call, Revert(d) PROVE AccountOK'
  BY <1>0, <1>4 DEF Revert, Awaited, CallRecord, AccountOK
<1>5. ASSUME NEW d \in Call, GetAddress(d) PROVE AccountOK'
  <2>1. account[call[d].browser] \in AccountsOf[call[d].browser]
    BY <1>0, <1>5 DEF GetAddress, AccountOK
  <2>2. QED
    BY <1>0, <1>5, <2>1 DEF GetAddress, CallRecord, AccountOK
<1>6. ASSUME NEW d \in Call, Return(d), UNCHANGED account PROVE AccountOK'
  BY <1>0, <1>6 DEF Return, AccountOK
<1>12. ASSUME NEW d \in Call, ReceiptFails(d) PROVE AccountOK'
  BY <1>0, <1>12 DEF ReceiptFails, CallRecord, AccountOK
<1>7. ASSUME NEW b \in Browser, ChangeTab(b) PROVE AccountOK'
  BY <1>0, <1>7 DEF ChangeTab, CallRecord, AccountOK
<1>8. ASSUME NEW b \in Browser, Reload(b) PROVE AccountOK'
  BY <1>0, <1>8 DEF Reload, CallRecord, AccountOK
<1>9. ASSUME NEW b \in Browser, NEW w \in Wallet, SwitchAccount(b, w) PROVE AccountOK'
  BY <1>0, <1>9 DEF SwitchAccount, AccountOK
<1>10. CASE UNCHANGED vars
  BY <1>10 DEF vars, AccountOK
<1>11. QED
  BY <1>1, <1>2, <1>3, <1>4, <1>5, <1>6, <1>7, <1>8, <1>9, <1>10, <1>12
  DEF Next, CallNext, UserNext, RegisterFails, ReceiptFails, PostIdentity

LEMMA SoleStep == SoleInv /\ [Next]_vars => SoleInv'
<1> SUFFICES ASSUME SoleInv, [Next]_vars PROVE SoleInv'
  OBVIOUS
<1>1. TypeInv /\ RegisteredInv /\ RegisteredInv'
  BY RegisteredStep DEF SoleInv, RegisteredInv
<1>2. AccountOK'
  BY <1>1, AccountStep DEF SoleInv
<1>3. ASSUME NEW i \in identities', SoleWallet(i.wallet)
      PROVE  manufacturers'[i.wallet] = i.profile
  <2>1. CASE i \in identities
    <3>1. i.wallet \in Wallet /\ i.profile \in Profile
      BY <1>1, <2>1 DEF TypeInv, TypeOK, Identity
    <3>2. manufacturers[i.wallet] = i.profile
      BY <1>3, <2>1 DEF SoleInv, SoleIsConsistent
    <3>3. QED
      BY <1>1, <3>1, <3>2, NoneAssumption, RegistrationStays
  <2>2. CASE i \notin identities
    <3>1. PICK c \in Call, answer \in CosmosAnswers : PostIdentity(c, answer)
      BY <2>2 DEF Next, CallNext, UserNext, vars, Submit, SendTx, Mine, Revert,
                  GetAddress, RegisterFails, ReceiptFails, SwitchAccount, ChangeTab, Reload
    <3>2. i = [wallet |-> call[c].address, profile |-> call[c].profile]
      BY <2>2, <3>1 DEF PostIdentity
    <3>3. call[c].pc = "cosmos"
      BY <3>1 DEF PostIdentity
    <3>4. call[c].browser \in Browser
      BY <1>1, <3>3 DEF TypeInv, CallOK, GoodCall
    <3>5. /\ call[c].sender \in AccountsOf[call[c].browser]
          /\ call[c].address \in AccountsOf[call[c].browser]
      BY <3>3 DEF SoleInv, AccountOK
    <3>6. call[c].address = call[c].sender
      BY <1>3, <3>2, <3>4, <3>5 DEF SoleWallet
    <3>7. manufacturers'[call[c].sender] = call[c].profile
      BY <1>1, <3>1, <3>3 DEF PostIdentity, RegisteredInv, ReceiptOK
    <3>8. QED
      BY <3>2, <3>6, <3>7
  <2>3. QED
    BY <2>1, <2>2
<1>4. SoleIsConsistent'
  BY <1>3 DEF SoleIsConsistent, SoleWallet
<1>5. QED
  BY <1>1, <1>2, <1>4 DEF SoleInv

LEMMA SoleHolds == Spec => []SoleInv
<1>1. Init => SoleInv
  <2> SUFFICES ASSUME Init PROVE SoleInv
    OBVIOUS
  <2>1. \A c \in Call : call[c].pc = "idle"
    BY DEF Init, IdleCall
  <2>2. QED
    BY <2>1, TypeInit, AccountAssumption
    DEF Init, SoleInv, RegisteredInv, ReceiptOK, ProfileIsRegistered, AccountOK,
        SoleIsConsistent
<1>2. QED
  BY <1>1, SoleStep, PTL DEF Spec

\* A wallet that Cosmos identifies is registered on the hub with the same profile,
\* unless some browser offers it together with another.
THEOREM SoleConsistent == Spec => []SoleIsConsistent
  BY SoleHolds, PTL DEF SoleInv

\* Where every browser's wallet holds one account, the identity is consistent on both
\* chains, as RegisterBiz.jsx:39 has it for all.
THEOREM OneAccountConsistent ==
  ASSUME \A b \in Browser : \E w \in Wallet : AccountsOf[b] = {w}
  PROVE  Spec => []IdentityIsConsistent
<1>1. \A w : SoleWallet(w)
  BY DEF SoleWallet
<1>2. SoleIsConsistent => IdentityIsConsistent
  BY <1>1 DEF SoleIsConsistent, IdentityIsConsistent
<1>3. QED
  BY <1>2, SoleConsistent, PTL

-------------------------------------------------------------------------------
(* The two stages. *)

\* The steps that write the contract, and those that write Cosmos.
LEMMA WhoWrites ==
  ASSUME [Next]_vars
  PROVE  /\ \/ UNCHANGED manufacturers
            \/ \E c \in Call : Mine(c)
         /\ \/ UNCHANGED identities
            \/ \E c \in Call, answer \in CosmosAnswers : PostIdentity(c, answer)
  BY DEF Next, CallNext, UserNext, vars, Submit, SendTx, Mine, Revert, GetAddress,
         RegisterFails, ReceiptFails, PostIdentity, SwitchAccount, ChangeTab, Reload

LEMMA StagesStep ==
  SoleInv /\ [Next]_vars => [RegisterThenIdentify!Next]_(RegisterThenIdentify!vars)
<1> DEFINE Sole == {i \in identities : SoleWallet(i.wallet)}
<1> SUFFICES ASSUME SoleInv, [Next]_vars
             PROVE  \/ RegisterThenIdentify!Write \/ RegisterThenIdentify!Copy
                    \/ UNCHANGED <<Registrations, Sole>>
  BY DEF RegisterThenIdentify!Next, RegisterThenIdentify!vars
<1>0. TypeOK /\ CallOK /\ SoleInv'
  BY SoleStep DEF SoleInv, RegisteredInv, TypeInv
<1>1. UNCHANGED manufacturers => UNCHANGED Registrations
  BY DEF Registrations
<1>2. UNCHANGED identities => UNCHANGED Sole
  BY DEF SoleWallet
<1>3. ASSUME NEW c \in Call, Mine(c) PROVE RegisterThenIdentify!Write
  <2> DEFINE s == call[c].sender
             p == call[c].profile
  <2>1. s \in Wallet /\ p \in Profile /\ p # None
    BY <1>0, <1>3, NoneAssumption DEF Mine, CallOK, GoodCall
  <2>2. /\ manufacturers' = [manufacturers EXCEPT ![s] = p]
        /\ manufacturers[s] = None /\ UNCHANGED identities
    BY <1>3 DEF Mine
  <2> HIDE DEF s, p
  <2>3. Registrations' = Registrations \cup {[wallet |-> s, profile |-> p]}
    <3>1. \A w \in Wallet : manufacturers'[w] = IF w = s THEN p ELSE manufacturers[w]
      BY <1>0, <2>1, <2>2 DEF TypeOK
    <3>2. QED
      BY <2>1, <2>2, <3>1 DEF Registrations
  <2>4. QED
    BY <1>2, <2>2, <2>3 DEF RegisterThenIdentify!Write
<1>4. ASSUME NEW c \in Call, NEW answer \in CosmosAnswers, PostIdentity(c, answer)
      PROVE  RegisterThenIdentify!Copy \/ UNCHANGED <<Registrations, Sole>>
  <2> DEFINE i == [wallet |-> call[c].address, profile |-> call[c].profile]
  <2>1. UNCHANGED manufacturers /\ identities' \in {identities, identities \cup {i}}
    BY <1>4 DEF PostIdentity
  <2>2. CASE identities' = identities \cup {i} /\ SoleWallet(i.wallet)
    <3>1. i.wallet \in Wallet /\ i.profile \in Profile
      BY <1>0, <1>4 DEF PostIdentity, CallOK, GoodCall
    <3>2. manufacturers'[i.wallet] = i.profile
      <4>1. \A e \in identities' : SoleWallet(e.wallet) => manufacturers'[e.wallet] = e.profile
        BY <1>0 DEF SoleInv, SoleIsConsistent, SoleWallet
      <4>2. QED
        BY <2>2, <4>1
    <3>3. manufacturers[i.wallet] = i.profile /\ i.profile # None
      BY <2>1, <3>1, <3>2, NoneAssumption
    <3>4. i = [wallet |-> i.wallet, profile |-> i.profile]
      OBVIOUS
    <3>5. i \in Registrations
      BY <3>1, <3>3, <3>4 DEF Registrations
    <3>6. Sole' = Sole \cup {i}
      BY <2>2 DEF SoleWallet
    <3> HIDE DEF Sole, i
    <3>7. QED
      BY <1>1, <2>1, <3>5, <3>6 DEF RegisterThenIdentify!Copy, Sole
  <2>3. CASE identities' = identities \/ ~ SoleWallet(i.wallet)
    <3>1. UNCHANGED Sole
      BY <2>1, <2>3 DEF SoleWallet
    <3>2. QED
      BY <1>1, <2>1, <3>1
  <2>4. QED
    BY <2>1, <2>2, <2>3
<1>5. QED
  BY <1>1, <1>2, <1>3, <1>4, WhoWrites

\* Registrations of sole wallets go through the two stages in order, one by one, and
\* are never undone, with any number of browsers, calls and accounts.
THEOREM ImplementsStages == Spec => StagesInOrder
<1>1. Init => RegisterThenIdentify!Init
  BY DEF Init, RegisterThenIdentify!Init, Registrations
<1>2. QED
  BY <1>1, SoleHolds, StagesStep, PTL
  DEF Spec, StagesInOrder, RegisterThenIdentify!Spec

LEMMA StrandedStep ==
  ASSUME SoleInv, [Next]_vars, NEW w \in Wallet, SoleWallet(w), Stranded(w)
  PROVE  Stranded(w)'
<1>0. TypeInv /\ AccountOK
  BY DEF SoleInv, RegisteredInv
<1>1. manufacturers'[w] # None
  BY <1>0, RegistrationStays DEF Stranded
<1>2. ASSUME NEW i \in identities' PROVE i.wallet # w
  <2>1. CASE i \in identities
    BY <2>1 DEF Stranded
  <2>2. CASE i \notin identities
    <3>1. PICK c \in Call, answer \in CosmosAnswers : PostIdentity(c, answer)
      BY <2>2, WhoWrites
    <3>2. i.wallet = call[c].address /\ call[c].pc = "cosmos"
      BY <2>2, <3>1 DEF PostIdentity
    <3>3. call[c].address \in AccountsOf[call[c].browser]
      BY <3>2 DEF SoleInv, AccountOK
    <3>4. QED
      BY <3>2, <3>3 DEF Stranded
  <2>3. QED
    BY <2>1, <2>2
<1>3. ASSUME NEW c \in Call, call'[c].pc \in {"mined", "cosmos"}
      PROVE  w \notin AccountsOf[call'[c].browser]
  <2>1. call[c].pc \in {"mined", "cosmos"} \/ Mine(c)
    BY <1>0, <1>3, ReceiptSteps
  <2>2. call'[c].browser = call[c].browser
    BY <1>0, <1>3, ReceiptSteps
  <2>3. CASE call[c].pc \in {"mined", "cosmos"}
    BY <2>2, <2>3 DEF Stranded
  <2>4. CASE Mine(c)
    <3>1. call[c].pc = "pool"
      BY <1>0, <1>3, <2>4, IdleGood
      DEF Mine, Awaited, TypeInv, TypeOK, IdleCall
    <3>2. call[c].sender \in AccountsOf[call[c].browser] /\ call[c].browser \in Browser
      BY <1>0, <3>1 DEF AccountOK, TypeInv, CallOK, GoodCall
    <3>3. call[c].sender # w
      BY <2>4 DEF Mine, Stranded
    <3>4. QED
      BY <2>2, <3>2, <3>3 DEF SoleWallet
  <2>5. QED
    BY <2>1, <2>3, <2>4
<1>4. QED
  BY <1>1, <1>2, <1>3 DEF Stranded

\* A sole wallet that is registered, not identified and out of calls with a receipt
\* stays without an identity for ever, whoever tries again and whatever the server
\* answers.
THEOREM StrandedForEver == Spec => StrandedStays
<1>1. SoleInv /\ [Next]_vars
        => \A w \in Wallet : SoleWallet(w) /\ Stranded(w) => Stranded(w)'
  BY StrandedStep
<1>2. QED
  BY <1>1, SoleHolds, PTL DEF Spec, StrandedStays

-------------------------------------------------------------------------------
(* The button. *)

\* A page has at most one call that is attached to it.
OneAttached ==
  \A c, d \in Call :
    /\ call[c].attached /\ call[d].attached
    /\ call[c].browser = call[d].browser
    => c = d

ButtonInv == TypeInv /\ OneAttached /\ LoadingIsRunning

\* finally enables the button of the page that its call locked, and no other.
LEMMA EndButton ==
  ASSUME ButtonInv, NEW c \in Call, call[c].pc # "idle",
         NEW r \in CallRecord, ~ r.attached,
         call' = [call EXCEPT ![c] = r], loading' = Enabled(c)
  PROVE  (OneAttached /\ LoadingIsRunning)'
<1>0. /\ call \in [Call -> CallRecord] /\ loading \in [Browser -> BOOLEAN]
      /\ call[c].browser \in Browser
  BY DEF ButtonInv, TypeInv, TypeOK, CallOK, GoodCall
<1>1. \A d \in Call : call'[d] = IF d = c THEN r ELSE call[d]
  BY <1>0
<1>2. OneAttached'
  BY <1>0, <1>1 DEF ButtonInv, OneAttached
<1>3. CASE call[c].attached
  BY <1>0, <1>1, <1>3 DEF Enabled, ButtonInv, OneAttached, LoadingIsRunning
<1>4. CASE ~ call[c].attached
  <2>1. UNCHANGED loading
    BY <1>4 DEF Enabled
  <2>2. \A d \in Call : /\ call'[d].attached = call[d].attached
                        /\ call[d].attached => call'[d].browser = call[d].browser
    <3>1. r.attached = FALSE /\ call[c].attached = FALSE
      BY <1>0, <1>4 DEF CallRecord
    <3>2. QED
      BY <1>1, <3>1
  <2>3. QED
    BY <2>1, <2>2, <1>2 DEF ButtonInv, LoadingIsRunning
<1>5. QED
  BY <1>2, <1>3, <1>4

LEMMA ReturnButton ==
  ASSUME ButtonInv, NEW c \in Call, call[c].pc # "idle", Return(c)
  PROVE  (OneAttached /\ LoadingIsRunning)'
<1>1. IdleCall \in CallRecord /\ ~ IdleCall.attached
  BY IdleGood DEF IdleCall
<1>2. QED
  BY <1>1, EndButton DEF Return

LEMMA ButtonStep == ButtonInv /\ [Next]_vars => ButtonInv'
<1> SUFFICES ASSUME ButtonInv, [Next]_vars PROVE ButtonInv'
  OBVIOUS
<1> DEFINE Goal == (OneAttached /\ LoadingIsRunning)'
<1>0. /\ TypeInv' /\ call \in [Call -> CallRecord]
      /\ loading \in [Browser -> BOOLEAN]
      /\ \A c \in Call : /\ call[c].pc \in {"idle", "orphan"} => ~ call[c].attached
                         /\ call[c].pc # "idle" => call[c].browser \in Browser
  BY TypeStep DEF ButtonInv, TypeInv, TypeOK, CallOK, GoodCall
\* A step that leaves loading, and the page and the attachment of each call.
<1>1. ASSUME UNCHANGED loading,
             \A c \in Call : /\ call'[c].attached = call[c].attached
                             /\ call[c].attached => call'[c].browser = call[c].browser
      PROVE  Goal
  BY <1>1 DEF ButtonInv, OneAttached, LoadingIsRunning
<1>2. ASSUME NEW c \in Call, NEW b \in Browser, NEW profile \in Profile,
             Submit(c, b, profile)
      PROVE  Goal
  <2> DEFINE r == [IdleCall EXCEPT !.pc = "sign", !.browser = b,
                                   !.attached = TRUE, !.profile = profile]
  <2>1. r.attached /\ r.browser = b
    BY DEF IdleCall
  <2>2. call' = [call EXCEPT ![c] = r]
    BY <1>2 DEF Submit
  <2> HIDE DEF r
  <2>3. \A d \in Call : call'[d] = IF d = c THEN r ELSE call[d]
    BY <1>0, <2>2
  <2>4. \A d \in Call : call[d].attached => call[d].browser # b
    BY <1>2 DEF Submit, ButtonInv, LoadingIsRunning
  <2>5. ~ call[c].attached /\ loading' = [loading EXCEPT ![b] = TRUE]
    BY <1>0, <1>2 DEF Submit
  <2>6. OneAttached'
    BY <2>1, <2>3, <2>4 DEF ButtonInv, OneAttached
  <2>7. LoadingIsRunning'
    BY <1>0, <2>1, <2>3, <2>5 DEF ButtonInv, LoadingIsRunning
  <2>8. QED
    BY <2>6, <2>7
<1>3. ASSUME NEW c \in Call, SendTx(c) \/ GetAddress(c) PROVE Goal
  <2>1. \A d \in Call : /\ call'[d].attached = call[d].attached
                        /\ call'[d].browser = call[d].browser
    BY <1>0, <1>3 DEF SendTx, GetAddress, CallRecord
  <2>2. QED
    BY <1>1, <1>3, <2>1 DEF SendTx, GetAddress
<1>4. ASSUME NEW c \in Call, Mine(c) \/ Revert(c) PROVE Goal
  <2>0. PICK pc \in {"mined", "reverted"} : call' = [call EXCEPT ![c] = Awaited(c, pc)]
    BY <1>4 DEF Mine, Revert
  <2>1. \A d \in Call : /\ call'[d].attached = call[d].attached
                        /\ call[d].attached => call'[d].browser = call[d].browser
    <3>1. CASE call[c].pc = "orphan"
      <4>1. call' = [call EXCEPT ![c] = IdleCall]
        BY <2>0, <3>1 DEF Awaited
      <4>2. IdleCall.attached = FALSE /\ call[c].attached = FALSE
        BY <1>0, <3>1 DEF IdleCall, CallRecord
      <4>3. QED
        BY <1>0, <4>1, <4>2
    <3>2. CASE call[c].pc # "orphan"
      <4>1. call' = [call EXCEPT ![c] = [call[c] EXCEPT !.pc = pc]]
        BY <2>0, <3>2 DEF Awaited
      <4>2. QED
        BY <1>0, <4>1 DEF CallRecord
    <3>3. QED
      BY <3>1, <3>2
  <2>2. QED
    BY <1>1, <1>4, <2>1 DEF Mine, Revert
<1>5. ASSUME NEW c \in Call, RegisterFails(c) PROVE Goal
  BY <1>5, ReturnButton DEF RegisterFails
<1>12. ASSUME NEW c \in Call, ReceiptFails(c) PROVE Goal
  <2> DEFINE r == [call[c] EXCEPT !.pc = "orphan", !.attached = FALSE]
  <2>1. r \in CallRecord /\ ~ r.attached
    BY <1>0 DEF CallRecord, CallPc
  <2>2. call' = [call EXCEPT ![c] = r]
    BY <1>0, <1>12 DEF ReceiptFails
  <2>3. call[c].pc # "idle" /\ loading' = Enabled(c)
    BY <1>12 DEF ReceiptFails
  <2> HIDE DEF r
  <2>4. QED
    BY <2>1, <2>2, <2>3, EndButton
<1>6. ASSUME NEW c \in Call, NEW answer \in CosmosAnswers, PostIdentity(c, answer)
      PROVE  Goal
  BY <1>6, ReturnButton DEF PostIdentity
<1>7. ASSUME NEW b \in Browser, NEW w \in Wallet, SwitchAccount(b, w) PROVE Goal
  BY <1>1, <1>7 DEF SwitchAccount
<1>8. ASSUME NEW b \in Browser, ChangeTab(b) \/ Reload(b) PROVE Goal
  <2>1. \A d \in Call :
          IF call[d].browser = b THEN ~ call'[d].attached
          ELSE /\ call'[d].attached = call[d].attached
               /\ call'[d].browser = call[d].browser
    <3>1. CASE ChangeTab(b)
      BY <1>0, <3>1 DEF ChangeTab, CallRecord
    <3>2. CASE Reload(b)
      <4>1. IdleCall.attached = FALSE
        BY DEF IdleCall
      <4>2. \A d \in Call : [call[d] EXCEPT !.pc = "orphan", !.attached = FALSE].attached
                            = FALSE
        BY <1>0 DEF CallRecord
      <4>3. \A d \in Call :
              call'[d] = IF call[d].browser # b THEN call[d]
                         ELSE IF call[d].pc \in {"pool", "orphan"}
                         THEN [call[d] EXCEPT !.pc = "orphan", !.attached = FALSE]
                         ELSE IdleCall
        BY <3>2 DEF Reload
      <4>4. QED
        BY <4>1, <4>2, <4>3
    <3>3. QED
      BY <1>8, <3>1, <3>2
  <2>2. loading' = [loading EXCEPT ![b] = FALSE]
    BY <1>8 DEF ChangeTab, Reload
  <2>3. \A d \in Call : call'[d].attached => /\ call[d].attached
                                             /\ call[d].browser # b
                                             /\ call'[d].browser = call[d].browser
    BY <2>1
  <2>4. OneAttached'
    BY <2>3 DEF ButtonInv, OneAttached
  <2>5. LoadingIsRunning'
    BY <1>0, <2>1, <2>2, <2>3 DEF ButtonInv, LoadingIsRunning
  <2>6. QED
    BY <2>4, <2>5
<1>9. ASSUME UNCHANGED vars PROVE Goal
  <2>1. call' = call /\ UNCHANGED loading
    BY <1>9 DEF vars
  <2>2. QED
    BY <1>1, <2>1
<1> HIDE DEF Goal
<1>10. Goal
  <2>1. ASSUME NEW c \in Call, CallNext(c) PROVE Goal
    BY <2>1, <1>3, <1>4, <1>5, <1>6, <1>12 DEF CallNext
  <2>2. ASSUME NEW b \in Browser, UserNext(b) PROVE Goal
    BY <2>2, <1>2, <1>7, <1>8 DEF UserNext
  <2>3. QED
    BY <2>1, <2>2, <1>9 DEF Next
<1>11. QED
  BY <1>0, <1>10 DEF ButtonInv, Goal

\* The button is disabled exactly while the call of its page runs, with any number
\* of calls left behind by earlier components and pages.
THEOREM ButtonFollowsCall == Spec => []LoadingIsRunning
<1>1. Init => ButtonInv
  <2> SUFFICES ASSUME Init PROVE ButtonInv
    OBVIOUS
  <2>1. \A c \in Call : ~ call[c].attached
    BY DEF Init, IdleCall
  <2>2. QED
    BY <2>1, TypeInit DEF Init, ButtonInv, OneAttached, LoadingIsRunning
<1>2. Spec => []ButtonInv
  BY <1>1, ButtonStep, PTL DEF Spec
<1>3. QED
  BY <1>2, PTL DEF ButtonInv

===============================================================================

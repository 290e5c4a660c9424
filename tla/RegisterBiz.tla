------------------------------ MODULE RegisterBiz ------------------------------
(***************************************************************************)
(* Registering a business (frontend/src/components/RegisterBiz.jsx):        *)
(* handleRegister registers the wallet on the hub contract, then asks the   *)
(* wallet for its address and posts the identity to Cosmos.  The user may   *)
(* select another account, leave the view or reload between any two awaits. *)
(***************************************************************************)
EXTENDS Naturals

CONSTANTS
  Browser,         \* browsers with the page open, each with its wallet extension
  Wallet,          \* accounts
  Profile,         \* names and tax codes a user can type, none of them empty
  Call,            \* bound: runs of handleRegister in flight at once
  None,
  AccountsOf,      \* browser -> the accounts its wallet may answer with
  FirstAccount,    \* browser -> the one selected at first
  Leavers,         \* browsers whose user leaves the view or reloads it
  CosmosAnswers    \* what POST /api/cosmos/register-identity may do

\* As in AdminApproval: carried out, carried out and not heard of, an error
\* status, not reached.
Answers == {"served", "lost", "refused", "unreachable"}

ASSUME NoneAssumption    == None \notin Browser \cup Wallet \cup Profile
ASSUME AccountAssumption == \A b \in Browser : /\ AccountsOf[b] \subseteq Wallet
                                              /\ FirstAccount[b] \in AccountsOf[b]
ASSUME UserAssumption    == Leavers \subseteq Browser
ASSUME AnswerAssumption  == CosmosAnswers \subseteq Answers

VARIABLES
  manufacturers,   \* wallet -> the profile it registered on the contract
  identities,      \* the identities on Cosmos
  account,         \* browser -> the account its wallet answers with
  loading,         \* browser -> the button is disabled
  call             \* call -> its place in handleRegister and its closure

vars == <<manufacturers, identities, account, loading, call>>

\* "sign" awaits the wallet; "pool", "mined" and "reverted" the receipt; "cosmos"
\* the server; "orphan" is a pending transaction that no call awaits any more.
CallPc == {"idle", "sign", "pool", "mined", "reverted", "cosmos", "orphan"}

\* The component that started the call is attached until it is unmounted; sender
\* signed the transaction, address is what the wallet said after the receipt.
CallRecord == [pc : CallPc, browser : Browser \cup {None}, attached : BOOLEAN,
               profile : Profile \cup {None}, sender : Wallet \cup {None},
               address : Wallet \cup {None}]

IdleCall == [pc |-> "idle", browser |-> None, attached |-> FALSE,
             profile |-> None, sender |-> None, address |-> None]

Identity == [wallet : Wallet, profile : Profile]

-------------------------------------------------------------------------------
Init ==
  /\ manufacturers = [w \in Wallet |-> None]
  /\ identities = {}
  /\ account = [b \in Browser |-> FirstAccount[b]]
  /\ loading = [b \in Browser |-> FALSE]
  /\ call = [c \in Call |-> IdleCall]

\* handleRegister up to its first await.
Submit(c, b, profile) ==
  /\ call[c].pc = "idle"
  /\ ~ loading[b]
  /\ loading' = [loading EXCEPT ![b] = TRUE]
  /\ call' = [call EXCEPT ![c] = [IdleCall EXCEPT !.pc = "sign", !.browser = b,
                                    !.attached = TRUE, !.profile = profile]]
  /\ UNCHANGED <<manufacturers, identities, account>>

\* registerManufacturer is estimated, signed and sent for the selected account.
SendTx(c) ==
  LET sender == account[call[c].browser]
  IN  /\ call[c].pc = "sign"
      /\ manufacturers[sender] = None
      /\ call' = [call EXCEPT ![c].pc = "pool", ![c].sender = sender]
      /\ UNCHANGED <<manufacturers, identities, account, loading>>

\* A call that nobody awaits any more leaves nothing behind.
Awaited(c, pc) == IF call[c].pc = "orphan" THEN IdleCall
                  ELSE [call[c] EXCEPT !.pc = pc]

\* The contract executes the registration.
Mine(c) ==
  /\ call[c].pc \in {"pool", "orphan"}
  /\ manufacturers[call[c].sender] = None
  /\ manufacturers' = [manufacturers EXCEPT ![call[c].sender] = call[c].profile]
  /\ call' = [call EXCEPT ![c] = Awaited(c, "mined")]
  /\ UNCHANGED <<identities, account, loading>>

\* The wallet has registered since: require(!isRegistered).
Revert(c) ==
  /\ call[c].pc \in {"pool", "orphan"}
  /\ manufacturers[call[c].sender] # None
  /\ call' = [call EXCEPT ![c] = Awaited(c, "reverted")]
  /\ UNCHANGED <<manufacturers, identities, account, loading>>

\* Mutant: tx.wait() is called and not awaited.
AddressBeforeReceipt(c) ==
  /\ call[c].pc \in {"pool", "mined", "reverted"}
  /\ call' = [call EXCEPT ![c].pc = "cosmos",
                          ![c].address = account[call[c].browser]]
  /\ UNCHANGED <<manufacturers, identities, account, loading>>

\* Mutant: the address is posted and not awaited: a promise has no JSON.
AddressNotAwaited(c) ==
  /\ call[c].pc = "mined"
  /\ call' = [call EXCEPT ![c].pc = "cosmos", ![c].address = "promise"]
  /\ UNCHANGED <<manufacturers, identities, account, loading>>

\* tx.wait() returns; signer.getAddress() asks the wallet again.
GetAddress(c) ==
  /\ call[c].pc = "mined"
  /\ call' = [call EXCEPT ![c].pc = "cosmos",
                          ![c].address = account[call[c].browser]]
  /\ UNCHANGED <<manufacturers, identities, account, loading>>

\* Mutant: the end of a call enables the button of a page that is not its own.
ReturnUnattached(c) ==
  /\ call' = [call EXCEPT ![c] = IdleCall]
  /\ loading' = [loading EXCEPT ![call[c].browser] = FALSE]

\* finally enables the button of the component that the call belongs to.
Enabled(c) == IF call[c].attached THEN [loading EXCEPT ![call[c].browser] = FALSE]
              ELSE loading

\* finally, and the end of the call.
Return(c) ==
  /\ call' = [call EXCEPT ![c] = IdleCall]
  /\ loading' = Enabled(c)

\* The wallet is missing, refuses or cannot estimate; the receipt says the
\* transaction reverted; or, mined, it does not come or the wallet then refuses
\* its address.
RegisterFails(c) ==
  /\ call[c].pc \in {"sign", "mined", "reverted"}
  /\ Return(c)
  /\ UNCHANGED <<manufacturers, identities, account>>

\* tx.wait() rejects while the transaction is pending, which it stays.
ReceiptFails(c) ==
  /\ call[c].pc = "pool"
  /\ call' = [call EXCEPT ![c].pc = "orphan", ![c].attached = FALSE]
  /\ loading' = Enabled(c)
  /\ UNCHANGED <<manufacturers, identities, account>>

\* POST /api/cosmos/register-identity: success and error end the call alike.
PostIdentity(c, answer) ==
  /\ call[c].pc = "cosmos"
  /\ identities' = IF answer \in {"served", "lost"}
                   THEN identities \cup {[wallet  |-> call[c].address,
                                          profile |-> call[c].profile]}
                   ELSE identities
  /\ Return(c)
  /\ UNCHANGED <<manufacturers, account>>

\* The user selects another account in the wallet.
SwitchAccount(b, w) ==
  /\ w \in AccountsOf[b] \ {account[b]}
  /\ account' = [account EXCEPT ![b] = w]
  /\ UNCHANGED <<manufacturers, identities, loading, call>>

\* Another tab of the dashboard and back: a new component, the calls go on.
ChangeTab(b) ==
  /\ b \in Leavers
  /\ loading[b]
  /\ loading' = [loading EXCEPT ![b] = FALSE]
  /\ call' = [c \in Call |-> IF call[c].browser = b
                             THEN [call[c] EXCEPT !.attached = FALSE] ELSE call[c]]
  /\ UNCHANGED <<manufacturers, identities, account>>

\* A reload ends the calls; a transaction that was sent stays.
Reload(b) ==
  /\ b \in Leavers
  /\ loading' = [loading EXCEPT ![b] = FALSE]
  /\ call' = [c \in Call |-> IF call[c].browser # b THEN call[c]
                             ELSE IF call[c].pc \in {"pool", "orphan"}
                             THEN [call[c] EXCEPT !.pc = "orphan", !.attached = FALSE]
                             ELSE IdleCall]
  /\ UNCHANGED <<manufacturers, identities, account>>

CallNext(c) ==
  \/ SendTx(c) \/ Mine(c) \/ Revert(c) \/ GetAddress(c)
  \/ RegisterFails(c) \/ ReceiptFails(c)
  \/ \E answer \in CosmosAnswers : PostIdentity(c, answer)

UserNext(b) ==
  \/ \E c \in Call, profile \in Profile : Submit(c, b, profile)
  \/ \E w \in Wallet : SwitchAccount(b, w)
  \/ ChangeTab(b) \/ Reload(b)

Next == (\E c \in Call : CallNext(c)) \/ (\E b \in Browser : UserNext(b))

Spec == Init /\ [][Next]_vars

-------------------------------------------------------------------------------
(* What the registration keeps true. *)

\* Every variable holds a value of its kind.
TypeOK ==
  /\ manufacturers \in [Wallet -> Profile \cup {None}]
  /\ identities \subseteq Identity
  /\ account \in [Browser -> Wallet]
  /\ loading \in [Browser -> BOOLEAN]
  /\ call \in [Call -> CallRecord]

\* Cosmos knows no business that the hub does not know: whatever is identified there
\* was registered by some wallet, even if accounts are switched and pages reloaded
\* in between (the receipt at RegisterBiz.jsx:36 before the request at 41).
ProfileIsRegistered ==
  \A i \in identities : \E w \in Wallet : manufacturers[w] = i.profile

\* "Đảm bảo danh tính được nhất quán trên mô hình Interchain" (RegisterBiz.jsx:39),
\* the identity is consistent on both chains: a wallet that Cosmos identifies is
\* registered on the hub, with the same profile.  Not kept for every wallet.
IdentityIsConsistent ==
  \A i \in identities : manufacturers[i.wallet] = i.profile

\* It is kept for a wallet that is selected in no browser together with another:
\* no call of another browser, page left or answer lost identifies such a wallet
\* in place of the one that registered (RegisterBiz.jsx:35, 47).
SoleWallet(w) == \A b \in Browser : w \in AccountsOf[b] => AccountsOf[b] = {w}

SoleIsConsistent ==
  \A i \in identities : SoleWallet(i.wallet) => manufacturers[i.wallet] = i.profile

\* Registering with a sole wallet implements its two stages: Cosmos takes identities
\* one by one out of the contract's registrations, and none is ever withdrawn or
\* changed (RegisterBiz.jsx:35-47).
Registrations == {[wallet |-> w, profile |-> manufacturers[w]] :
                    w \in {v \in Wallet : manufacturers[v] # None}}

RegisterThenIdentify == INSTANCE TwoStage WITH
  first  <- Registrations,
  second <- {i \in identities : SoleWallet(i.wallet)}
StagesInOrder == RegisterThenIdentify!Spec

\* What a sole wallet loses it never gets back: registered on the hub, unknown to
\* Cosmos and with no call left that has its receipt, it is not identified by any
\* later attempt, for the contract lets no second registration through to the
\* request (RegisterBiz.jsx:35-41).
Stranded(w) ==
  /\ manufacturers[w] # None
  /\ \A i \in identities : i.wallet # w
  /\ \A c \in Call : call[c].pc \in {"mined", "cosmos"} =>
       w \notin AccountsOf[call[c].browser]

StrandedStays ==
  [][\A w \in Wallet : SoleWallet(w) /\ Stranded(w) => Stranded(w)']_vars

\* The button is disabled exactly as long as the call of its page runs: an end that
\* nobody sees, of a page left, never enables or locks the button of the page that
\* is there (RegisterBiz.jsx:60).
LoadingIsRunning ==
  \A b \in Browser :
    loading[b] <=> \E c \in Call : call[c].browser = b /\ call[c].attached
===============================================================================

----------------------------- MODULE PaymentForm -----------------------------
(***************************************************************************)
(* The payment page (code/lib/screens/payments.dart) over the bills of one *)
(* user.  Every await of _fetchBalance and of _handlePaymentSuccess is a   *)
(* step of its own; in between, other calls, other pages and the gateway   *)
(* run.                                                                    *)
(*                                                                         *)
(* An amount of money is the SET of unpaid bills whose balances were added *)
(* to make it: [totalBalance] is the bills the page believes unpaid, and a *)
(* charge of {} is a charge of 0.                                          *)
(***************************************************************************)
EXTENDS FiniteSets, Naturals

CONSTANTS
    Cards,      \* documents of users/<uid>/Cards
    Rents,      \* documents of users/<uid>/Rents
    Forms,      \* PaymentForm pages, each opened once (any device of the user)
    Payments,   \* checkouts, each opened once
    Calls,      \* slots for running calls of _fetchBalance (bounds them)
    NoForm,     \* no page
    Faults      \* whether an awaited call may fail and a device may die

ASSUME BillsAssumption  == Cards \cap Rents = {}
ASSUME NoFormAssumption == NoForm \notin Forms
ASSUME FaultsAssumption == Faults \in BOOLEAN

Bills == Cards \cup Rents

VARIABLES
    balance,       \* the bill's 'balance' field in Firestore
    transactions,  \* users/<uid>/Transactions
    page,          \* life cycle of each page's State object
    totalBalance,  \* _PaymentFormState.totalBalance
    fetch,         \* running calls of _fetchBalance
    checkout,      \* what the gateway knows of each checkout
    charge,        \* the form and the amount each checkout was opened with
    handler,       \* running calls of _handlePaymentSuccess
    settled        \* history: the bills that were cleared when each page was opened

vars == <<balance, transactions, page, totalBalance, fetch, checkout, charge, handler,
          settled>>

Balances  == {"none", "owed", "garbled", "free", "zero"}
FetchPcs  == {"idle", "userDoc", "cards", "rents", "setState"}
Outcomes  == {"none", "open", "captured", "failed", "wallet"}
RunPcs    == {"log", "getCards", "commitCards", "getRents", "commitRents", "setState"}
HandlePcs == RunPcs \cup {"none", "done", "aborted", "toasted"}

Fetches  == [pc: FetchPcs, form: Forms \cup {NoForm}, total: SUBSET Bills]
Charges  == [form: Forms \cup {NoForm}, amount: SUBSET Bills]
Handlers == [pc: HandlePcs, amount: SUBSET Bills, docs: SUBSET Bills]

TypeOK ==
    /\ balance \in [Bills -> Balances]
    /\ transactions \in SUBSET [payment: Payments, amount: SUBSET Bills]
    /\ page \in [Forms -> {"unopened", "mounted", "disposed", "killed"}]
    /\ totalBalance \in [Forms -> SUBSET Bills]
    /\ fetch \in [Calls -> Fetches]
    /\ checkout \in [Payments -> Outcomes]
    /\ charge \in [Payments -> Charges]
    /\ handler \in [Payments -> Handlers]
    /\ settled \in [Forms -> SUBSET Bills]

Owed      == {b \in Bills : balance[b] = "owed"}
Free      == {b \in Bills : balance[b] = "free"}    \* entered as a rent of 0
Zero      == {b \in Bills : balance[b] = "zero"}    \* cleared: '0', written by a batch
Listed(S) == {b \in S : balance[b] # "none"}      \* the docs of a collection get

NoFetch == [pc |-> "idle", form |-> NoForm, total |-> {}]

Init ==
    /\ balance = [b \in Bills |-> "none"]
    /\ transactions = {}
    /\ page = [f \in Forms |-> "unopened"]
    /\ totalBalance = [f \in Forms |-> {}]
    /\ fetch = [c \in Calls |-> NoFetch]
    /\ checkout = [p \in Payments |-> "none"]
    /\ charge = [p \in Payments |-> [form |-> NoForm, amount |-> {}]]
    /\ handler = [p \in Payments |-> [pc |-> "none", amount |-> {}, docs |-> {}]]
    /\ settled = [f \in Forms |-> {}]

------------------------------------------------------------------------------
(* Bills are added by the pages AddCards and AddRent.  Any non-empty text  *)
(* is accepted as a rent: "garbled" is one that double.parse refuses,      *)
(* "free" one that parses to 0, "owed" any other number.  To the code a    *)
(* "free" rent reads like one that was cleared.                            *)

AddCard(b) ==
    /\ b \in Cards
    /\ balance[b] = "none"
    /\ balance' = [balance EXCEPT ![b] = "owed"]
    /\ UNCHANGED <<transactions, page, totalBalance, fetch, checkout, charge, handler, settled>>

AddRent(b) ==
    /\ b \in Rents
    /\ balance[b] = "none"
    /\ \E typed \in {"owed", "garbled", "free"} : balance' = [balance EXCEPT ![b] = typed]
    /\ UNCHANGED <<transactions, page, totalBalance, fetch, checkout, charge, handler, settled>>

------------------------------------------------------------------------------
(* _fetchBalance: called, not awaited, by initState and by makePayment.    *)

StartFetch(c, f) ==
    /\ fetch[c].pc = "idle"
    /\ fetch' = [fetch EXCEPT ![c] = [pc |-> "userDoc", form |-> f, total |-> {}]]

OpenForm(f, c) ==
    /\ page[f] = "unopened"
    /\ page' = [page EXCEPT ![f] = "mounted"]
    /\ settled' = [settled EXCEPT ![f] = Zero]
    /\ StartFetch(c, f)
    /\ UNCHANGED <<balance, transactions, totalBalance, checkout, charge, handler>>

FetchUserDoc(c) ==
    /\ fetch[c].pc = "userDoc"
    /\ fetch' = [fetch EXCEPT ![c].pc = "cards"]
    /\ UNCHANGED <<balance, transactions, page, totalBalance, checkout, charge, handler, settled>>

\* Mutant: the sum takes what the cards were issued at, not their balances.
FetchCards_Issued(c) ==
    /\ fetch[c].pc = "cards"
    /\ fetch' = [fetch EXCEPT ![c].pc = "rents", ![c].total = Listed(Cards)]
    /\ UNCHANGED <<balance, transactions, page, totalBalance, checkout, charge, handler, settled>>

FetchCards(c) ==
    /\ fetch[c].pc = "cards"
    /\ fetch' = [fetch EXCEPT ![c].pc = "rents", ![c].total = Owed \cap Cards]
    /\ UNCHANGED <<balance, transactions, page, totalBalance, checkout, charge, handler, settled>>

\* A rent that does not parse throws: the call ends and sets nothing.
FetchRents(c) ==
    /\ fetch[c].pc = "rents"
    /\ \/ /\ \E b \in Rents : balance[b] = "garbled"
          /\ fetch' = [fetch EXCEPT ![c] = NoFetch]
       \/ /\ \A b \in Rents : balance[b] # "garbled"
          /\ fetch' = [fetch EXCEPT ![c].pc = "setState",
                                    ![c].total = @ \cup (Owed \cap Rents)]
    /\ UNCHANGED <<balance, transactions, page, totalBalance, checkout, charge, handler, settled>>

\* setState on a page that is gone assigns the field or not, by build mode.
SetTotal(f, total) ==
    \/ totalBalance' = [totalBalance EXCEPT ![f] = total]
    \/ page[f] # "mounted" /\ UNCHANGED totalBalance

FetchSetState(c) ==
    /\ fetch[c].pc = "setState"
    /\ SetTotal(fetch[c].form, fetch[c].total)
    /\ fetch' = [fetch EXCEPT ![c] = NoFetch]
    /\ UNCHANGED <<balance, transactions, page, checkout, charge, handler, settled>>

FetchFails(c) ==
    /\ Faults
    /\ fetch[c].pc \in {"userDoc", "cards", "rents"}
    /\ fetch' = [fetch EXCEPT ![c] = NoFetch]
    /\ UNCHANGED <<balance, transactions, page, totalBalance, checkout, charge, handler, settled>>

------------------------------------------------------------------------------
(* makePayment, and the gateway (external).  The gateway's own sheet covers*)
(* the page while a checkout is open, and refuses an amount of 0.          *)

MakePayment(f, p, c) ==
    /\ page[f] = "mounted"
    /\ checkout[p] = "none"
    /\ \A q \in Payments : checkout[q] = "open" => charge[q].form # f
    /\ StartFetch(c, f)
    /\ checkout' = [checkout EXCEPT ![p] = "open"]
    /\ charge' = [charge EXCEPT ![p] = [form |-> f, amount |-> totalBalance[f]]]
    /\ UNCHANGED <<balance, transactions, page, totalBalance, handler, settled>>

GatewayResult(p) ==
    /\ checkout[p] = "open"
    /\ \/ /\ charge[p].amount # {}
          /\ checkout' = [checkout EXCEPT ![p] = "captured"]
       \/ \E result \in {"failed", "wallet"} :
             checkout' = [checkout EXCEPT ![p] = result]
    /\ UNCHANGED <<balance, transactions, page, totalBalance, fetch, charge, handler, settled>>

------------------------------------------------------------------------------
(* The three callbacks.  They are never unregistered, so they also run on  *)
(* a page that is gone; only a dead device loses them.                     *)

\* Mutant: the callback is delivered again after a reset.
Callback_Again(p, result) ==
    /\ checkout[p] = result
    /\ handler[p].pc \in {"none", "done"}
    /\ page[charge[p].form] # "killed"

\* Mutant: the callbacks stop with the page, as a dispose() would make them.
Callback_Disposed(p, result) ==
    /\ checkout[p] = result
    /\ handler[p].pc = "none"
    /\ page[charge[p].form] = "mounted"

Callback(p, result) ==
    /\ checkout[p] = result
    /\ handler[p].pc = "none"
    /\ page[charge[p].form] # "killed"

\* Mutant: the bills are cleared without the transaction being written first.
HandlePaymentSuccess_NoLog(p) ==
    /\ Callback(p, "captured")
    /\ handler' = [handler EXCEPT ![p].pc = "getCards",
                                  ![p].amount = totalBalance[charge[p].form]]
    /\ UNCHANGED <<balance, transactions, page, totalBalance, fetch, checkout, charge, settled>>

HandlePaymentSuccess(p) ==
    /\ Callback(p, "captured")
    /\ handler' = [handler EXCEPT ![p].pc = "log",
                                  ![p].amount = totalBalance[charge[p].form]]
    /\ UNCHANGED <<balance, transactions, page, totalBalance, fetch, checkout, charge, settled>>

LogTransaction(p) ==
    /\ handler[p].pc = "log"
    /\ transactions' = transactions \cup {[payment |-> p, amount |-> handler[p].amount]}
    /\ handler' = [handler EXCEPT ![p].pc = "getCards"]
    /\ UNCHANGED <<balance, page, totalBalance, fetch, checkout, charge, settled>>

GetCards(p) ==
    /\ handler[p].pc = "getCards"
    /\ handler' = [handler EXCEPT ![p].pc = "commitCards", ![p].docs = Listed(Cards)]
    /\ UNCHANGED <<balance, transactions, page, totalBalance, fetch, checkout, charge, settled>>

CommitCards(p) ==
    /\ handler[p].pc = "commitCards"
    /\ balance' = [b \in Bills |-> IF b \in handler[p].docs THEN "zero" ELSE balance[b]]
    /\ handler' = [handler EXCEPT ![p].pc = "getRents"]
    /\ UNCHANGED <<transactions, page, totalBalance, fetch, checkout, charge, settled>>

\* Mutant: the second batch is built from the first collection again.
GetRents_Cards(p) ==
    /\ handler[p].pc = "getRents"
    /\ handler' = [handler EXCEPT ![p].pc = "commitRents", ![p].docs = Listed(Cards)]
    /\ UNCHANGED <<balance, transactions, page, totalBalance, fetch, checkout, charge, settled>>

GetRents(p) ==
    /\ handler[p].pc = "getRents"
    /\ handler' = [handler EXCEPT ![p].pc = "commitRents", ![p].docs = Listed(Rents)]
    /\ UNCHANGED <<balance, transactions, page, totalBalance, fetch, checkout, charge, settled>>

\* Mutant: the batch writes a value the totals do not know.
CommitRents_Paid(p) ==
    /\ handler[p].pc = "commitRents"
    /\ balance' = [b \in Bills |-> IF b \in handler[p].docs THEN "paid" ELSE balance[b]]
    /\ handler' = [handler EXCEPT ![p].pc = "setState"]
    /\ UNCHANGED <<transactions, page, totalBalance, fetch, checkout, charge, settled>>

CommitRents(p) ==
    /\ handler[p].pc = "commitRents"
    /\ balance' = [b \in Bills |-> IF b \in handler[p].docs THEN "zero" ELSE balance[b]]
    /\ handler' = [handler EXCEPT ![p].pc = "setState"]
    /\ UNCHANGED <<transactions, page, totalBalance, fetch, checkout, charge, settled>>

\* Mutant: the page keeps the total it was paid for.
FinishSuccess_KeepsTotal(p) ==
    /\ handler[p].pc = "setState"
    /\ handler' = [handler EXCEPT ![p].pc = "done"]
    /\ UNCHANGED <<balance, transactions, page, totalBalance, fetch, checkout, charge, settled>>

FinishSuccess(p) ==
    /\ handler[p].pc = "setState"
    /\ SetTotal(charge[p].form, {})
    /\ handler' = [handler EXCEPT ![p].pc = "done"]
    /\ UNCHANGED <<balance, transactions, page, fetch, checkout, charge, settled>>

\* An awaited Firestore call throws: the rest of the handler never runs.
HandlerFails(p) ==
    /\ Faults
    /\ handler[p].pc \in RunPcs \ {"setState"}
    /\ handler' = [handler EXCEPT ![p].pc = "aborted"]
    /\ UNCHANGED <<balance, transactions, page, totalBalance, fetch, checkout, charge, settled>>

HandlePaymentError(p) ==
    /\ Callback(p, "failed")
    /\ handler' = [handler EXCEPT ![p].pc = "toasted"]
    /\ UNCHANGED <<balance, transactions, page, totalBalance, fetch, checkout, charge, settled>>

HandleExternalWallet(p) ==
    /\ Callback(p, "wallet")
    /\ handler' = [handler EXCEPT ![p].pc = "toasted"]
    /\ UNCHANGED <<balance, transactions, page, totalBalance, fetch, checkout, charge, settled>>

------------------------------------------------------------------------------
(* The page's life: it is popped (there is no dispose), or its device dies *)
(* with every call that was running on it.                                 *)

PopForm(f) ==
    /\ page[f] = "mounted"
    /\ \A q \in Payments : checkout[q] = "open" => charge[q].form # f
    /\ page' = [page EXCEPT ![f] = "disposed"]
    /\ UNCHANGED <<balance, transactions, totalBalance, fetch, checkout, charge, handler, settled>>

KillDevice(f) ==
    /\ Faults
    /\ page[f] \in {"mounted", "disposed"}
    /\ page' = [page EXCEPT ![f] = "killed"]
    /\ fetch' = [c \in Calls |-> IF fetch[c].form = f THEN NoFetch ELSE fetch[c]]
    /\ handler' = [p \in Payments |->
            IF charge[p].form = f /\ handler[p].pc \in RunPcs
            THEN [handler[p] EXCEPT !.pc = "aborted"]
            ELSE handler[p]]
    /\ UNCHANGED <<balance, transactions, totalBalance, checkout, charge, settled>>

------------------------------------------------------------------------------
UserStep ==
    \/ \E b \in Bills : AddCard(b) \/ AddRent(b)
    \/ \E f \in Forms, c \in Calls : OpenForm(f, c)
    \/ \E f \in Forms, p \in Payments, c \in Calls : MakePayment(f, p, c)
    \/ \E f \in Forms : PopForm(f) \/ KillDevice(f)

FetchStep(c) ==
    \/ FetchUserDoc(c) \/ FetchCards(c) \/ FetchRents(c) \/ FetchSetState(c)
    \/ FetchFails(c)

HandlerStep(p) ==
    \/ HandlePaymentSuccess(p) \/ LogTransaction(p)
    \/ GetCards(p) \/ CommitCards(p) \/ GetRents(p) \/ CommitRents(p)
    \/ FinishSuccess(p) \/ HandlerFails(p)
    \/ HandlePaymentError(p) \/ HandleExternalWallet(p)

Next ==
    \/ UserStep
    \/ \E c \in Calls : FetchStep(c)
    \/ \E p \in Payments : GatewayResult(p) \/ HandlerStep(p)

Spec == Init /\ [][Next]_vars

\* The event loop runs what is ready; users and the gateway owe nothing.
Fairness ==
    /\ \A c \in Calls : WF_vars(FetchStep(c))
    /\ \A p \in Payments : WF_vars(HandlerStep(p))

FairSpec == Spec /\ Fairness

------------------------------------------------------------------------------
(* What holds.                                                             *)

\* When the success handler has run to its end, every bill its payment was
\* charged for is at 0, whatever other pages, calls and payments did meanwhile.
SettledWhenDone ==
    \A p \in Payments : handler[p].pc = "done" => charge[p].amount \subseteq Zero

\* A bill is cleared only behind a log entry of a payment the gateway captured:
\* _handlePaymentSuccess writes the transaction before it clears anything.  (A rent
\* entered as 0 was not cleared: it is at 0 without any payment.)
ClearedNeedsLog ==
    Zero # {} => \E t \in transactions :
        checkout[t.payment] = "captured" /\ charge[t.payment].amount # {}

\* A payment has at most one log entry, and has one once its handler is past it.
LoggedOnce ==
    /\ \A t, u \in transactions : t.payment = u.payment => t = u
    /\ \A p \in Payments :
          handler[p].pc \in (RunPcs \ {"log"}) \cup {"done"} =>
             \E t \in transactions : t.payment = p

\* A page never charges a bill that was cleared before the page was opened, however
\* late fetches, callbacks and handlers of older pages come, and whether they ran to
\* their end or their device died: who pays, leaves and comes back is not asked again.
SettledIsNotCharged ==
    \A f \in Forms, p \in Payments :
        charge[p].form = f => charge[p].amount \cap settled[f] = {}

\* A captured payment is eventually logged and its bills cleared, even when the
\* page was popped before the callback came, unless a call of its handler fails or
\* its device dies.
CapturedIsSettled ==
    \A p \in Payments :
        checkout[p] = "captured" ~>
            \/ /\ charge[p].amount \subseteq Zero
               /\ \E t \in transactions : t.payment = p
            \/ handler[p].pc = "aborted"
            \/ \E f \in Forms : charge[p].form = f /\ page[f] = "killed"

------------------------------------------------------------------------------
(* What the repository says and the code does not do.                      *)

\* The gateway is opened with the total that is outstanding at that moment.
ChargeIsOutstanding ==
    [][\A p \in Payments :
         checkout[p] = "none" /\ checkout'[p] = "open" => charge'[p].amount = Owed]_vars

=============================================================================

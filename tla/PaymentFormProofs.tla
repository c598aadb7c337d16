-------------------------- MODULE PaymentFormProofs --------------------------
(***************************************************************************)
(* Theorems about PaymentForm for any bills, pages, payments and calls,    *)
(* with or without faults.  IInv is the inductive invariant: what a page   *)
(* may know (TotalsAreIssued, SettledState), what the success handler has  *)
(* cleared so far (Progress) and which payments may have a handler or a    *)
(* log entry (OpenedByForms, LogState).                                    *)
(***************************************************************************)
EXTENDS QuietPaymentForm, TLAPS

Issued == Listed(Bills)

(* A checkout was opened by a page. *)
OpenedByForms ==
    \A p \in Payments : checkout[p] # "none" => charge[p].form \in Forms

(* Totals and charges only ever count bills that exist. *)
TotalsAreIssued ==
    /\ \A f \in Forms : totalBalance[f] \subseteq Issued
    /\ \A c \in Calls : fetch[c].total \subseteq Issued
    /\ \A p \in Payments : charge[p].amount \subseteq Issued

(* How far a handler is says how much of its charge is cleared. *)
Progress ==
    \A p \in Payments :
        LET amount == charge[p].amount  pc == handler[p].pc IN
        /\ pc = "commitCards" => amount \cap Cards \subseteq handler[p].docs
        /\ pc \in {"getRents", "commitRents", "setState", "done"} =>
              amount \cap Cards \subseteq Zero
        /\ pc = "commitRents" => amount \cap Rents \subseteq handler[p].docs
        /\ pc \in {"setState", "done"} => amount \cap Rents \subseteq Zero

(* A handler runs, and a log entry exists, only for a captured payment. *)
LogState ==
    /\ \A p \in Payments :
        /\ checkout[p] = "captured" => charge[p].amount # {}
        /\ handler[p].pc \in RunPcs \cup {"done"} => checkout[p] = "captured"
        /\ handler[p].pc # "none" => checkout[p] \notin {"none", "open"}
    /\ \A t \in transactions :
        /\ checkout[t.payment] = "captured"
        /\ handler[t.payment].pc \notin {"none", "log"}

(* No total of a page, of its running calls or of its checkouts counts a bill *)
(* that was cleared before the page was opened. *)
SettledState ==
    /\ \A f \in Forms :
        /\ settled[f] \subseteq Zero
        /\ totalBalance[f] \cap settled[f] = {}
        /\ page[f] = "unopened" => totalBalance[f] = {}
    /\ \A f \in Forms, c \in Calls : fetch[c].form = f =>
        page[f] # "unopened" /\ fetch[c].total \cap settled[f] = {}
    /\ \A f \in Forms, p \in Payments : charge[p].form = f =>
        page[f] # "unopened" /\ charge[p].amount \cap settled[f] = {}

IInv ==
    /\ TypeOK
    /\ OpenedByForms
    /\ TotalsAreIssued
    /\ SettledState
    /\ LogState
    /\ Progress
    /\ LoggedOnce
    /\ ClearedNeedsLog

------------------------------------------------------------------------------
(* With no page opened and no payment made, nothing is known or cleared. *)
LEMMA InitInv == Init => IInv
<1> SUFFICES ASSUME Init PROVE IInv
  OBVIOUS
<1>1. TypeOK
  BY DEF Init, TypeOK, Balances, Fetches, FetchPcs, Outcomes, Charges, Handlers, HandlePcs,
         RunPcs, NoFetch
<1>2. Zero = {}
  BY DEF Init, Zero
<1>3. SettledState
  BY <1>2, NoFormAssumption DEF Init, SettledState, NoFetch
<1>4. OpenedByForms /\ TotalsAreIssued
  BY NoFormAssumption DEF Init, OpenedByForms, TotalsAreIssued, NoFetch, RunPcs
<1>5. LogState /\ Progress /\ LoggedOnce /\ ClearedNeedsLog
  BY <1>2, NoFormAssumption DEF Init, LogState, Progress, LoggedOnce, ClearedNeedsLog, RunPcs
<1>6. QED
  BY <1>1, <1>3, <1>4, <1>5 DEF IInv

(* Every step keeps every variable in its type. *)
LEMMA TypeStep == TypeOK /\ OpenedByForms /\ [Next]_vars => TypeOK'
<1> SUFFICES ASSUME TypeOK, OpenedByForms, [Next]_vars PROVE TypeOK'
  OBVIOUS
<1> DEFINE BalanceOK == balance \in [Bills -> Balances]
           FetchOK   == fetch \in [Calls -> Fetches]
           HandlerOK == handler \in [Payments -> Handlers]
<1> USE DEF TypeOK
<1>a. Owed \in SUBSET Bills /\ Zero \in SUBSET Bills
      /\ Listed(Cards) \in SUBSET Bills /\ Listed(Rents) \in SUBSET Bills
  BY DEF Owed, Zero, Listed, Bills
<1>f. NoFetch \in Fetches
  BY DEF NoFetch, Fetches, FetchPcs
<1>1. ASSUME NEW b \in Bills, AddCard(b) PROVE TypeOK'
  BY <1>1 DEF AddCard, Balances
<1>2. ASSUME NEW b \in Bills, AddRent(b) PROVE TypeOK'
  BY <1>2 DEF AddRent, Balances
<1>3. ASSUME NEW f \in Forms, NEW c \in Calls, StartFetch(c, f) PROVE FetchOK'
  BY <1>3 DEF StartFetch, Fetches, FetchPcs
<1>4. ASSUME NEW f \in Forms, NEW c \in Calls, OpenForm(f, c) PROVE TypeOK'
  BY <1>3, <1>4, <1>a DEF OpenForm
<1>5. ASSUME NEW f \in Forms, NEW p \in Payments, NEW c \in Calls, MakePayment(f, p, c)
      PROVE  TypeOK'
  <2>1. [form |-> f, amount |-> totalBalance[f]] \in Charges
    BY DEF Charges
  <2>2. charge' \in [Payments -> Charges] /\ checkout' \in [Payments -> Outcomes]
    BY <1>5, <2>1 DEF MakePayment, Outcomes
  <2>3. QED
    BY <1>3, <1>5, <2>2 DEF MakePayment
<1>6. ASSUME NEW f \in Forms, PopForm(f) PROVE TypeOK'
  BY <1>6 DEF PopForm
<1>7. ASSUME NEW f \in Forms, KillDevice(f) PROVE TypeOK'
  <2>1. page' \in [Forms -> {"unopened", "mounted", "disposed", "killed"}]
    BY <1>7 DEF KillDevice
  <2>2. FetchOK'
    BY <1>7, <1>f DEF KillDevice
  <2>3. ASSUME NEW h \in Handlers PROVE [h EXCEPT !.pc = "aborted"] \in Handlers
    BY DEF Handlers, HandlePcs
  <2>4. HandlerOK'
    BY <1>7, <2>3 DEF KillDevice
  <2>5. QED
    BY <1>7, <2>1, <2>2, <2>4 DEF KillDevice
<1>8. ASSUME NEW c \in Calls, FetchUserDoc(c) PROVE TypeOK'
  <2>1. FetchOK'
    BY <1>8, SMTT(30) DEF FetchUserDoc, Fetches, FetchPcs
  <2>2. QED
    BY <1>8, <2>1 DEF FetchUserDoc
<1>9. ASSUME NEW c \in Calls, FetchCards(c) PROVE TypeOK'
  <2>1. Owed \cap Cards \in SUBSET Bills /\ "rents" \in FetchPcs
    BY <1>a DEF FetchPcs
  <2>2. FetchOK'
    BY <1>9, <2>1, ZenonT(40) DEF FetchCards, Fetches
  <2>3. QED
    BY <1>9, <2>2 DEF FetchCards
<1>10. ASSUME NEW c \in Calls, FetchRents(c) PROVE TypeOK'
  <2>1. fetch[c].total \cup (Owed \cap Rents) \in SUBSET Bills /\ "setState" \in FetchPcs
    BY <1>a DEF Fetches, FetchPcs
  <2>2. CASE fetch' = [fetch EXCEPT ![c] = NoFetch]
    BY <1>10, <1>f, <2>2 DEF FetchRents
  <2>3. CASE fetch' = [fetch EXCEPT ![c].pc = "setState",
                                    ![c].total = @ \cup (Owed \cap Rents)]
    <3>1. FetchOK'
      BY <2>1, <2>3, ZenonT(40) DEF Fetches
    <3>2. QED
      BY <1>10, <3>1 DEF FetchRents
  <2>4. QED
    BY <1>10, <2>2, <2>3 DEF FetchRents
<1>11. ASSUME NEW f, NEW total \in SUBSET Bills, SetTotal(f, total)
       PROVE  totalBalance' \in [Forms -> SUBSET Bills]
  BY <1>11 DEF SetTotal
<1>12. ASSUME NEW c \in Calls, FetchSetState(c) PROVE TypeOK'
  <2>1. fetch[c].total \in SUBSET Bills
    BY DEF Fetches
  <2>2. QED
    BY <1>12, <1>11, <1>f, <2>1 DEF FetchSetState
<1>13. ASSUME NEW c \in Calls, FetchFails(c) PROVE TypeOK'
  BY <1>13, <1>f DEF FetchFails
<1>14. ASSUME NEW p \in Payments, GatewayResult(p) PROVE TypeOK'
  BY <1>14 DEF GatewayResult, Outcomes
<1>15. ASSUME NEW p \in Payments, NEW pc \in HandlePcs,
              handler' = [handler EXCEPT ![p].pc = pc]
       PROVE  HandlerOK'
  BY <1>15 DEF Handlers
<1>16. ASSUME NEW p \in Payments, NEW pc \in HandlePcs, NEW docs \in SUBSET Bills,
              handler' = [handler EXCEPT ![p].pc = pc, ![p].docs = docs]
       PROVE  HandlerOK'
  <2>1. [handler[p] EXCEPT !.pc = pc, !.docs = docs] \in Handlers
    BY <1>16 DEF Handlers
  <2>2. handler' = [handler EXCEPT ![p] = [handler[p] EXCEPT !.pc = pc, !.docs = docs]]
    BY <1>16
  <2>3. QED
    BY <2>1, <2>2
<1>17. RunPcs \cup {"none", "done", "aborted", "toasted"} = HandlePcs
  BY DEF HandlePcs
<1>18. ASSUME NEW p \in Payments, HandlePaymentSuccess(p) PROVE TypeOK'
  <2>1. totalBalance[charge[p].form] \in SUBSET Bills /\ "log" \in HandlePcs
    BY <1>18 DEF HandlePaymentSuccess, Callback, OpenedByForms, HandlePcs, RunPcs
  <2>2. ASSUME NEW amount \in SUBSET Bills, NEW pc \in HandlePcs,
               handler' = [handler EXCEPT ![p].pc = pc, ![p].amount = amount]
        PROVE  HandlerOK'
    <3>1. [handler[p] EXCEPT !.pc = pc, !.amount = amount] \in Handlers
      BY <2>2 DEF Handlers
    <3>2. handler' = [handler EXCEPT ![p] = [handler[p] EXCEPT !.pc = pc, !.amount = amount]]
      BY <2>2
    <3>3. QED
      BY <3>1, <3>2
  <2>3. HandlerOK'
    BY <1>18, <2>1, <2>2 DEF HandlePaymentSuccess
  <2>4. QED
    BY <1>18, <2>3 DEF HandlePaymentSuccess
<1>19. ASSUME NEW p \in Payments, LogTransaction(p) PROVE TypeOK'
  <2>1. [payment |-> p, amount |-> handler[p].amount] \in [payment: Payments, amount: SUBSET Bills]
    BY DEF Handlers
  <2>2. HandlerOK'
    BY <1>19, <1>15, <1>17 DEF LogTransaction, RunPcs
  <2>3. QED
    BY <1>19, <2>1, <2>2 DEF LogTransaction
<1>20. ASSUME NEW p \in Payments, GetCards(p) \/ GetRents(p) PROVE TypeOK'
  <2>1. HandlerOK'
    BY <1>20, <1>16, <1>17, <1>a DEF GetCards, GetRents, RunPcs
  <2>2. QED
    BY <1>20, <2>1 DEF GetCards, GetRents
<1>21. ASSUME NEW p \in Payments, CommitCards(p) \/ CommitRents(p) PROVE TypeOK'
  <2>1. BalanceOK'
    BY <1>21 DEF CommitCards, CommitRents, Balances
  <2>2. HandlerOK'
    BY <1>21, <1>15, <1>17 DEF CommitCards, CommitRents, RunPcs
  <2>3. QED
    BY <1>21, <2>1, <2>2 DEF CommitCards, CommitRents
<1>22. ASSUME NEW p \in Payments, FinishSuccess(p) PROVE TypeOK'
  <2>1. HandlerOK'
    BY <1>22, <1>15, <1>17 DEF FinishSuccess
  <2>2. totalBalance' \in [Forms -> SUBSET Bills]
    BY <1>22, <1>11 DEF FinishSuccess
  <2>3. QED
    BY <1>22, <2>1, <2>2 DEF FinishSuccess
<1>23. ASSUME NEW p \in Payments,
              HandlerFails(p) \/ HandlePaymentError(p) \/ HandleExternalWallet(p)
       PROVE  TypeOK'
  BY <1>23, <1>15, <1>17 DEF HandlerFails, HandlePaymentError, HandleExternalWallet
<1>24. CASE UNCHANGED vars
  BY <1>24 DEF vars
<1>25. QED
  BY <1>1, <1>2, <1>4, <1>5, <1>6, <1>7, <1>8, <1>9, <1>10, <1>12, <1>13, <1>14,
     <1>18, <1>19, <1>20, <1>21, <1>22, <1>23, <1>24
     DEF Next, UserStep, FetchStep, HandlerStep

(* Only makePayment opens a checkout, and it names its page. *)
LEMMA OpenedStep == TypeOK /\ OpenedByForms /\ [Next]_vars => OpenedByForms'
<1> SUFFICES ASSUME TypeOK /\ OpenedByForms, [Next]_vars PROVE OpenedByForms'
  OBVIOUS
<1> USE DEF TypeOK, Charges, OpenedByForms
<1>1. ASSUME NEW b \in Bills, AddCard(b) PROVE OpenedByForms'
  BY <1>1 DEF AddCard
<1>2. ASSUME NEW b \in Bills, AddRent(b) PROVE OpenedByForms'
  BY <1>2 DEF AddRent
<1>3. ASSUME NEW f \in Forms, NEW c \in Calls, OpenForm(f, c) PROVE OpenedByForms'
  BY <1>3 DEF OpenForm, StartFetch, NoFetch
<1>4. ASSUME NEW f \in Forms, NEW p \in Payments, NEW c \in Calls, MakePayment(f, p, c) PROVE OpenedByForms'
  BY <1>4 DEF MakePayment, StartFetch
<1>5. ASSUME NEW f \in Forms, PopForm(f) PROVE OpenedByForms'
  BY <1>5 DEF PopForm
<1>6. ASSUME NEW f \in Forms, KillDevice(f) PROVE OpenedByForms'
  BY <1>6 DEF KillDevice, NoFetch, RunPcs
<1>7. ASSUME NEW p \in Payments, GatewayResult(p) PROVE OpenedByForms'
  BY <1>7 DEF GatewayResult
<1>8. ASSUME NEW c \in Calls,
              FetchUserDoc(c) \/ FetchCards(c) \/ FetchRents(c) \/ FetchSetState(c) \/ FetchFails(c)
       PROVE  OpenedByForms'
  BY <1>8 DEF FetchUserDoc, FetchCards, FetchRents, FetchSetState, FetchFails, Owed, NoFetch, SetTotal
<1>9. ASSUME NEW p \in Payments,
              HandlePaymentSuccess(p) \/ LogTransaction(p) \/ GetCards(p) \/ CommitCards(p) \/ GetRents(p) \/ CommitRents(p) \/ FinishSuccess(p) \/ HandlerFails(p) \/ HandlePaymentError(p) \/ HandleExternalWallet(p)
       PROVE  OpenedByForms'
  BY <1>9 DEF HandlePaymentSuccess, LogTransaction, GetCards, CommitCards, GetRents, CommitRents, FinishSuccess, HandlerFails, HandlePaymentError, HandleExternalWallet, Callback, Listed, SetTotal, RunPcs
<1>10. CASE UNCHANGED vars
  BY <1>10 DEF vars
<1>11. QED
  BY <1>1, <1>2, <1>3, <1>4, <1>5, <1>6, <1>7, <1>8, <1>9, <1>10
     DEF Next, UserStep, FetchStep, HandlerStep

(* A total is only ever a set of bills read from the store, and none is withdrawn. *)
LEMMA TotalsStep == TypeOK /\ TotalsAreIssued /\ [Next]_vars => TotalsAreIssued'
<1> SUFFICES ASSUME TypeOK /\ TotalsAreIssued, [Next]_vars PROVE TotalsAreIssued'
  OBVIOUS
<1> USE DEF TypeOK, Fetches, Charges, TotalsAreIssued, Issued, Listed, Bills
<1>1. ASSUME NEW b \in Bills, AddCard(b) PROVE TotalsAreIssued'
  BY <1>1 DEF AddCard
<1>2. ASSUME NEW b \in Bills, AddRent(b) PROVE TotalsAreIssued'
  BY <1>2 DEF AddRent
<1>3. ASSUME NEW f \in Forms, NEW c \in Calls, OpenForm(f, c) PROVE TotalsAreIssued'
  BY <1>3 DEF OpenForm, StartFetch, NoFetch
<1>4. ASSUME NEW f \in Forms, NEW p \in Payments, NEW c \in Calls, MakePayment(f, p, c) PROVE TotalsAreIssued'
  BY <1>4 DEF MakePayment, StartFetch
<1>5. ASSUME NEW f \in Forms, PopForm(f) PROVE TotalsAreIssued'
  BY <1>5 DEF PopForm
<1>6. ASSUME NEW f \in Forms, KillDevice(f) PROVE TotalsAreIssued'
  BY <1>6 DEF KillDevice, NoFetch, RunPcs
<1>7. ASSUME NEW c \in Calls, FetchUserDoc(c) PROVE TotalsAreIssued'
  BY <1>7 DEF FetchUserDoc
<1>8. ASSUME NEW c \in Calls, FetchCards(c) PROVE TotalsAreIssued'
  BY <1>8 DEF FetchCards, Owed
<1>9. ASSUME NEW c \in Calls, FetchRents(c) PROVE TotalsAreIssued'
  BY <1>9 DEF FetchRents, NoFetch, Owed
<1>10. ASSUME NEW c \in Calls, FetchSetState(c) PROVE TotalsAreIssued'
  BY <1>10 DEF FetchSetState, SetTotal, NoFetch
<1>11. ASSUME NEW c \in Calls, FetchFails(c) PROVE TotalsAreIssued'
  BY <1>11 DEF FetchFails, NoFetch
<1>12. ASSUME NEW p \in Payments, GatewayResult(p) PROVE TotalsAreIssued'
  BY <1>12 DEF GatewayResult
<1>13. ASSUME NEW p \in Payments, CommitCards(p) PROVE TotalsAreIssued'
  BY <1>13 DEF CommitCards
<1>14. ASSUME NEW p \in Payments, CommitRents(p) PROVE TotalsAreIssued'
  BY <1>14 DEF CommitRents
<1>15. ASSUME NEW p \in Payments, FinishSuccess(p) PROVE TotalsAreIssued'
  BY <1>15 DEF FinishSuccess, SetTotal
<1>16. ASSUME NEW p \in Payments,
              HandlePaymentSuccess(p) \/ LogTransaction(p) \/ GetCards(p) \/ GetRents(p) \/ HandlerFails(p) \/ HandlePaymentError(p) \/ HandleExternalWallet(p)
       PROVE  TotalsAreIssued'
  BY <1>16 DEF HandlePaymentSuccess, LogTransaction, GetCards, GetRents, HandlerFails, HandlePaymentError, HandleExternalWallet, Callback, RunPcs
<1>17. CASE UNCHANGED vars
  BY <1>17 DEF vars
<1>18. QED
  BY <1>1, <1>2, <1>3, <1>4, <1>5, <1>6, <1>7, <1>8, <1>9, <1>10, <1>11, <1>12,
     <1>13, <1>14, <1>15, <1>16, <1>17
     DEF Next, UserStep, FetchStep, HandlerStep

(* A page counts what it reads after it was opened, and what is cleared stays so. *)
LEMMA SettledStep == TypeOK /\ SettledState /\ [Next]_vars => SettledState'
<1> SUFFICES ASSUME TypeOK /\ SettledState, [Next]_vars PROVE SettledState'
  OBVIOUS
<1> USE NoFormAssumption DEF TypeOK, Fetches, Charges, SettledState, Zero
<1>1. ASSUME NEW b \in Bills, AddCard(b) PROVE SettledState'
  BY <1>1 DEF AddCard
<1>2. ASSUME NEW b \in Bills, AddRent(b) PROVE SettledState'
  BY <1>2 DEF AddRent
<1>3. ASSUME NEW f \in Forms, NEW c \in Calls, OpenForm(f, c) PROVE SettledState'
  BY <1>3 DEF OpenForm, StartFetch
<1>4. ASSUME NEW f \in Forms, NEW p \in Payments, NEW c \in Calls, MakePayment(f, p, c) PROVE SettledState'
  BY <1>4 DEF MakePayment, StartFetch
<1>5. ASSUME NEW f \in Forms, PopForm(f) PROVE SettledState'
  BY <1>5 DEF PopForm
<1>6. ASSUME NEW f \in Forms, KillDevice(f) PROVE SettledState'
  BY <1>6 DEF KillDevice, NoFetch
<1>7. ASSUME NEW c \in Calls, FetchUserDoc(c) PROVE SettledState'
  BY <1>7 DEF FetchUserDoc
<1>8. ASSUME NEW c \in Calls, FetchCards(c) PROVE SettledState'
  BY <1>8 DEF FetchCards, Owed
<1>9. ASSUME NEW c \in Calls, FetchRents(c) PROVE SettledState'
  <2>1. UNCHANGED <<balance, page, totalBalance, charge, settled>>
    BY <1>9 DEF FetchRents
  <2>2. Zero' = Zero /\ Owed \cap Zero = {}
    BY <2>1 DEF Owed
  <2>3. ASSUME NEW f \in Forms, NEW d \in Calls, fetch'[d].form = f
        PROVE  page[f] # "unopened" /\ fetch'[d].total \cap settled[f] = {}
    <3>1. fetch[d].form = f
      BY <1>9, <2>3 DEF FetchRents, NoFetch
    <3>2. fetch'[d].total \subseteq fetch[d].total \cup Owed
      <4>1. \/ fetch' = [fetch EXCEPT ![c] = NoFetch]
            \/ fetch' = [fetch EXCEPT ![c].pc = "setState",
                                      ![c].total = @ \cup (Owed \cap Rents)]
        BY <1>9 DEF FetchRents
      <4>2. \/ fetch'[d] = fetch[d]
            \/ fetch'[d].total = {}
            \/ fetch'[d].total = fetch[d].total \cup (Owed \cap Rents)
        BY <4>1 DEF NoFetch
      <4>3. QED
        BY <4>2
    <3>3. QED
      BY <2>2, <3>1, <3>2
  <2>4. QED
    BY <2>1, <2>2, <2>3
<1>10. ASSUME NEW c \in Calls, FetchSetState(c) PROVE SettledState'
  BY <1>10 DEF FetchSetState, SetTotal, NoFetch
<1>11. ASSUME NEW c \in Calls, FetchFails(c) PROVE SettledState'
  BY <1>11 DEF FetchFails, NoFetch
<1>12. ASSUME NEW p \in Payments, CommitCards(p) \/ CommitRents(p) PROVE SettledState'
  <2>1. Zero \subseteq Zero'
    BY <1>12 DEF CommitCards, CommitRents, Handlers
  <2>2. UNCHANGED <<page, totalBalance, fetch, charge, settled>>
    BY <1>12 DEF CommitCards, CommitRents
  <2>3. QED
    BY <2>1, <2>2
<1>13. ASSUME NEW p \in Payments, FinishSuccess(p) PROVE SettledState'
  BY <1>13 DEF FinishSuccess, SetTotal
<1>14. ASSUME NEW p \in Payments,
              GatewayResult(p) \/ HandlePaymentSuccess(p) \/ LogTransaction(p) \/ GetCards(p)
              \/ GetRents(p) \/ HandlerFails(p) \/ HandlePaymentError(p) \/ HandleExternalWallet(p)
       PROVE  SettledState'
  BY <1>14 DEF GatewayResult, HandlePaymentSuccess, LogTransaction, GetCards, GetRents,
               HandlerFails, HandlePaymentError, HandleExternalWallet
<1>15. CASE UNCHANGED vars
  BY <1>15 DEF vars
<1>16. QED
  BY <1>1, <1>2, <1>3, <1>4, <1>5, <1>6, <1>7, <1>8, <1>9, <1>10, <1>11, <1>12,
     <1>13, <1>14, <1>15
     DEF Next, UserStep, FetchStep, HandlerStep

(* The log and the handlers only follow a capture. *)
LEMMA LogStateStep == TypeOK /\ LogState /\ [Next]_vars => LogState'
<1> SUFFICES ASSUME TypeOK /\ LogState, [Next]_vars PROVE LogState'
  OBVIOUS
<1> USE DEF TypeOK, Charges, Handlers, LogState, RunPcs
<1>1. ASSUME NEW b \in Bills, AddCard(b) PROVE LogState'
  BY <1>1 DEF AddCard
<1>2. ASSUME NEW b \in Bills, AddRent(b) PROVE LogState'
  BY <1>2 DEF AddRent
<1>3. ASSUME NEW f \in Forms, NEW c \in Calls, OpenForm(f, c) PROVE LogState'
  BY <1>3 DEF OpenForm, StartFetch, NoFetch
<1>4. ASSUME NEW f \in Forms, NEW p \in Payments, NEW c \in Calls, MakePayment(f, p, c) PROVE LogState'
  BY <1>4 DEF MakePayment, StartFetch
<1>5. ASSUME NEW f \in Forms, PopForm(f) PROVE LogState'
  BY <1>5 DEF PopForm
<1>6. ASSUME NEW f \in Forms, KillDevice(f) PROVE LogState'
  BY <1>6 DEF KillDevice, NoFetch
<1>7. ASSUME NEW p \in Payments, GatewayResult(p) PROVE LogState'
  BY <1>7 DEF GatewayResult
<1>8. ASSUME NEW p \in Payments, HandlePaymentSuccess(p) PROVE LogState'
  BY <1>8 DEF HandlePaymentSuccess, Callback
<1>9. ASSUME NEW p \in Payments, LogTransaction(p) PROVE LogState'
  BY <1>9 DEF LogTransaction
<1>10. ASSUME NEW p \in Payments, GetCards(p) PROVE LogState'
  BY <1>10 DEF GetCards, Listed
<1>11. ASSUME NEW p \in Payments, CommitCards(p) PROVE LogState'
  BY <1>11 DEF CommitCards
<1>12. ASSUME NEW p \in Payments, GetRents(p) PROVE LogState'
  BY <1>12 DEF GetRents, Listed
<1>13. ASSUME NEW p \in Payments, CommitRents(p) PROVE LogState'
  BY <1>13 DEF CommitRents
<1>14. ASSUME NEW p \in Payments, FinishSuccess(p) PROVE LogState'
  BY <1>14 DEF FinishSuccess, SetTotal
<1>15. ASSUME NEW p \in Payments, HandlerFails(p) PROVE LogState'
  BY <1>15 DEF HandlerFails
<1>16. ASSUME NEW p \in Payments, HandlePaymentError(p) PROVE LogState'
  BY <1>16 DEF HandlePaymentError, Callback
<1>17. ASSUME NEW p \in Payments, HandleExternalWallet(p) PROVE LogState'
  BY <1>17 DEF HandleExternalWallet, Callback
<1>18. ASSUME NEW c \in Calls,
              FetchUserDoc(c) \/ FetchCards(c) \/ FetchRents(c) \/ FetchSetState(c) \/ FetchFails(c)
       PROVE  LogState'
  BY <1>18 DEF FetchUserDoc, FetchCards, FetchRents, FetchSetState, FetchFails, Owed, NoFetch, SetTotal
<1>19. CASE UNCHANGED vars
  BY <1>19 DEF vars
<1>20. QED
  BY <1>1, <1>2, <1>3, <1>4, <1>5, <1>6, <1>7, <1>8, <1>9, <1>10, <1>11, <1>12,
     <1>13, <1>14, <1>15, <1>16, <1>17, <1>18, <1>19
     DEF Next, UserStep, FetchStep, HandlerStep

(* The collections are listed after the charge was made, so they contain it. *)
LEMMA ProgressStep == TypeOK /\ TotalsAreIssued /\ LogState /\ Progress /\ [Next]_vars => Progress'
<1> SUFFICES ASSUME TypeOK /\ TotalsAreIssued /\ LogState /\ Progress, [Next]_vars PROVE Progress'
  OBVIOUS
<1> USE DEF TypeOK, Charges, Handlers, TotalsAreIssued, Progress, LogState, Issued, Listed, Zero, Bills
<1>1. ASSUME NEW b \in Bills, AddCard(b) PROVE Progress'
  BY <1>1 DEF AddCard
<1>2. ASSUME NEW b \in Bills, AddRent(b) PROVE Progress'
  BY <1>2 DEF AddRent
<1>3. ASSUME NEW f \in Forms, NEW c \in Calls, OpenForm(f, c) PROVE Progress'
  BY <1>3 DEF OpenForm, StartFetch, NoFetch
<1>4. ASSUME NEW f \in Forms, NEW p \in Payments, NEW c \in Calls, MakePayment(f, p, c) PROVE Progress'
  BY <1>4 DEF MakePayment, StartFetch
<1>5. ASSUME NEW f \in Forms, PopForm(f) PROVE Progress'
  BY <1>5 DEF PopForm
<1>6. ASSUME NEW f \in Forms, KillDevice(f) PROVE Progress'
  BY <1>6 DEF KillDevice, NoFetch, RunPcs
<1>7. ASSUME NEW p \in Payments, GatewayResult(p) PROVE Progress'
  BY <1>7 DEF GatewayResult
<1>8. ASSUME NEW p \in Payments, HandlePaymentSuccess(p) PROVE Progress'
  BY <1>8 DEF HandlePaymentSuccess, Callback
<1>9. ASSUME NEW p \in Payments, LogTransaction(p) PROVE Progress'
  BY <1>9 DEF LogTransaction
<1>10. ASSUME NEW p \in Payments, GetCards(p) PROVE Progress'
  BY <1>10 DEF GetCards
<1>11. ASSUME NEW p \in Payments, CommitCards(p) PROVE Progress'
  BY <1>11 DEF CommitCards
<1>12. ASSUME NEW p \in Payments, GetRents(p) PROVE Progress'
  BY <1>12 DEF GetRents
<1>13. ASSUME NEW p \in Payments, CommitRents(p) PROVE Progress'
  BY <1>13 DEF CommitRents
<1>14. ASSUME NEW p \in Payments, FinishSuccess(p) PROVE Progress'
  BY <1>14 DEF FinishSuccess, SetTotal
<1>15. ASSUME NEW p \in Payments, HandlerFails(p) PROVE Progress'
  BY <1>15 DEF HandlerFails, RunPcs
<1>16. ASSUME NEW p \in Payments, HandlePaymentError(p) PROVE Progress'
  BY <1>16 DEF HandlePaymentError, Callback
<1>17. ASSUME NEW p \in Payments, HandleExternalWallet(p) PROVE Progress'
  BY <1>17 DEF HandleExternalWallet, Callback
<1>18. ASSUME NEW c \in Calls,
              FetchUserDoc(c) \/ FetchCards(c) \/ FetchRents(c) \/ FetchSetState(c) \/ FetchFails(c)
       PROVE  Progress'
  BY <1>18 DEF FetchUserDoc, FetchCards, FetchRents, FetchSetState, FetchFails, Owed, NoFetch, SetTotal
<1>19. CASE UNCHANGED vars
  BY <1>19 DEF vars
<1>20. QED
  BY <1>1, <1>2, <1>3, <1>4, <1>5, <1>6, <1>7, <1>8, <1>9, <1>10, <1>11, <1>12,
     <1>13, <1>14, <1>15, <1>16, <1>17, <1>18, <1>19
     DEF Next, UserStep, FetchStep, HandlerStep

(* A handler writes its entry once and does nothing else before. *)
LEMMA LoggedOnceStep == TypeOK /\ LogState /\ LoggedOnce /\ [Next]_vars => LoggedOnce'
<1> SUFFICES ASSUME TypeOK /\ LogState /\ LoggedOnce, [Next]_vars PROVE LoggedOnce'
  OBVIOUS
<1> USE DEF TypeOK, Handlers, LogState, LoggedOnce, RunPcs
<1>1. ASSUME NEW b \in Bills, AddCard(b) PROVE LoggedOnce'
  BY <1>1 DEF AddCard
<1>2. ASSUME NEW b \in Bills, AddRent(b) PROVE LoggedOnce'
  BY <1>2 DEF AddRent
<1>3. ASSUME NEW f \in Forms, NEW c \in Calls, OpenForm(f, c) PROVE LoggedOnce'
  BY <1>3 DEF OpenForm, StartFetch, NoFetch
<1>4. ASSUME NEW f \in Forms, NEW p \in Payments, NEW c \in Calls, MakePayment(f, p, c) PROVE LoggedOnce'
  BY <1>4 DEF MakePayment, StartFetch
<1>5. ASSUME NEW f \in Forms, PopForm(f) PROVE LoggedOnce'
  BY <1>5 DEF PopForm
<1>6. ASSUME NEW f \in Forms, KillDevice(f) PROVE LoggedOnce'
  BY <1>6 DEF KillDevice, NoFetch
<1>7. ASSUME NEW p \in Payments, GatewayResult(p) PROVE LoggedOnce'
  BY <1>7 DEF GatewayResult
<1>8. ASSUME NEW p \in Payments, HandlePaymentSuccess(p) PROVE LoggedOnce'
  BY <1>8 DEF HandlePaymentSuccess, Callback
<1>9. ASSUME NEW p \in Payments, LogTransaction(p) PROVE LoggedOnce'
  <2>1. \A t \in transactions : t.payment # p
    BY <1>9 DEF LogTransaction
  <2>2. \A t, u \in transactions' : t.payment = u.payment => t = u
    BY <1>9, <2>1 DEF LogTransaction
  <2>3. ASSUME NEW q \in Payments, handler'[q].pc \in (RunPcs \ {"log"}) \cup {"done"}
        PROVE  \E t \in transactions' : t.payment = q
    <3>1. CASE q = p
      <4>1. [payment |-> p, amount |-> handler[p].amount] \in transactions'
        BY <1>9 DEF LogTransaction
      <4>2. QED
        BY <3>1, <4>1
    <3>2. CASE q # p
      BY <1>9, <2>3, <3>2 DEF LogTransaction
    <3>3. QED
      BY <3>1, <3>2
  <2>4. QED
    BY <2>2, <2>3
<1>10. ASSUME NEW p \in Payments, GetCards(p) PROVE LoggedOnce'
  BY <1>10 DEF GetCards, Listed
<1>11. ASSUME NEW p \in Payments, CommitCards(p) PROVE LoggedOnce'
  BY <1>11 DEF CommitCards
<1>12. ASSUME NEW p \in Payments, GetRents(p) PROVE LoggedOnce'
  BY <1>12 DEF GetRents, Listed
<1>13. ASSUME NEW p \in Payments, CommitRents(p) PROVE LoggedOnce'
  BY <1>13 DEF CommitRents
<1>14. ASSUME NEW p \in Payments, FinishSuccess(p) PROVE LoggedOnce'
  BY <1>14 DEF FinishSuccess, SetTotal
<1>15. ASSUME NEW p \in Payments, HandlerFails(p) PROVE LoggedOnce'
  BY <1>15 DEF HandlerFails
<1>16. ASSUME NEW p \in Payments, HandlePaymentError(p) PROVE LoggedOnce'
  BY <1>16 DEF HandlePaymentError, Callback
<1>17. ASSUME NEW p \in Payments, HandleExternalWallet(p) PROVE LoggedOnce'
  BY <1>17 DEF HandleExternalWallet, Callback
<1>18. ASSUME NEW c \in Calls,
              FetchUserDoc(c) \/ FetchCards(c) \/ FetchRents(c) \/ FetchSetState(c) \/ FetchFails(c)
       PROVE  LoggedOnce'
  BY <1>18 DEF FetchUserDoc, FetchCards, FetchRents, FetchSetState, FetchFails, Owed, NoFetch, SetTotal
<1>19. CASE UNCHANGED vars
  BY <1>19 DEF vars
<1>20. QED
  BY <1>1, <1>2, <1>3, <1>4, <1>5, <1>6, <1>7, <1>8, <1>9, <1>10, <1>11, <1>12,
     <1>13, <1>14, <1>15, <1>16, <1>17, <1>18, <1>19
     DEF Next, UserStep, FetchStep, HandlerStep

(* The two commits run after the entry is written. *)
LEMMA ClearedStep == TypeOK /\ LogState /\ LoggedOnce /\ ClearedNeedsLog /\ [Next]_vars => ClearedNeedsLog'
<1> SUFFICES ASSUME TypeOK /\ LogState /\ LoggedOnce /\ ClearedNeedsLog, [Next]_vars PROVE ClearedNeedsLog'
  OBVIOUS
<1> USE DEF TypeOK, Charges, Handlers, LogState, LoggedOnce, ClearedNeedsLog, Zero, RunPcs
<1>1. ASSUME NEW b \in Bills, AddCard(b) PROVE ClearedNeedsLog'
  BY <1>1 DEF AddCard
<1>2. ASSUME NEW b \in Bills, AddRent(b) PROVE ClearedNeedsLog'
  BY <1>2 DEF AddRent
<1>3. ASSUME NEW f \in Forms, NEW c \in Calls, OpenForm(f, c) PROVE ClearedNeedsLog'
  BY <1>3 DEF OpenForm, StartFetch, NoFetch
<1>4. ASSUME NEW f \in Forms, NEW p \in Payments, NEW c \in Calls, MakePayment(f, p, c) PROVE ClearedNeedsLog'
  BY <1>4 DEF MakePayment, StartFetch
<1>5. ASSUME NEW f \in Forms, PopForm(f) PROVE ClearedNeedsLog'
  BY <1>5 DEF PopForm
<1>6. ASSUME NEW f \in Forms, KillDevice(f) PROVE ClearedNeedsLog'
  BY <1>6 DEF KillDevice, NoFetch
<1>7. ASSUME NEW p \in Payments, GatewayResult(p) PROVE ClearedNeedsLog'
  BY <1>7 DEF GatewayResult
<1>8. ASSUME NEW p \in Payments, HandlePaymentSuccess(p) PROVE ClearedNeedsLog'
  BY <1>8 DEF HandlePaymentSuccess, Callback
<1>9. ASSUME NEW p \in Payments, LogTransaction(p) PROVE ClearedNeedsLog'
  BY <1>9 DEF LogTransaction
<1>10. ASSUME NEW p \in Payments, GetCards(p) PROVE ClearedNeedsLog'
  BY <1>10 DEF GetCards, Listed
<1>11. ASSUME NEW p \in Payments, CommitCards(p) PROVE ClearedNeedsLog'
  BY <1>11 DEF CommitCards
<1>12. ASSUME NEW p \in Payments, GetRents(p) PROVE ClearedNeedsLog'
  BY <1>12 DEF GetRents, Listed
<1>13. ASSUME NEW p \in Payments, CommitRents(p) PROVE ClearedNeedsLog'
  BY <1>13 DEF CommitRents
<1>14. ASSUME NEW p \in Payments, FinishSuccess(p) PROVE ClearedNeedsLog'
  BY <1>14 DEF FinishSuccess, SetTotal
<1>15. ASSUME NEW p \in Payments, HandlerFails(p) PROVE ClearedNeedsLog'
  BY <1>15 DEF HandlerFails
<1>16. ASSUME NEW p \in Payments, HandlePaymentError(p) PROVE ClearedNeedsLog'
  BY <1>16 DEF HandlePaymentError, Callback
<1>17. ASSUME NEW p \in Payments, HandleExternalWallet(p) PROVE ClearedNeedsLog'
  BY <1>17 DEF HandleExternalWallet, Callback
<1>18. ASSUME NEW c \in Calls,
              FetchUserDoc(c) \/ FetchCards(c) \/ FetchRents(c) \/ FetchSetState(c) \/ FetchFails(c)
       PROVE  ClearedNeedsLog'
  BY <1>18, SMTT(30) DEF FetchUserDoc, FetchCards, FetchRents, FetchSetState, FetchFails, Owed, NoFetch, SetTotal
<1>19. CASE UNCHANGED vars
  BY <1>19 DEF vars
<1>20. QED
  BY <1>1, <1>2, <1>3, <1>4, <1>5, <1>6, <1>7, <1>8, <1>9, <1>10, <1>11, <1>12,
     <1>13, <1>14, <1>15, <1>16, <1>17, <1>18, <1>19
     DEF Next, UserStep, FetchStep, HandlerStep

------------------------------------------------------------------------------
(* IInv is inductive: every handler, callback and page keeps each part of it. *)
LEMMA Invariance == Spec => []IInv
<1>1. IInv /\ [Next]_vars => IInv'
  BY TypeStep, OpenedStep, TotalsStep, SettledStep, LogStateStep, ProgressStep,
     LoggedOnceStep, ClearedStep DEF IInv
<1>2. QED
  BY InitInv, <1>1, PTL DEF Spec

(* Every variable stays in its type, on any number of pages and devices.  *)
THEOREM TypeCorrect == Spec => []TypeOK
  BY Invariance, PTL DEF IInv

(* When _handlePaymentSuccess has run to its end, the bills its payment was *)
(* charged for are at 0: it lists the collections after the charge was made.*)
THEOREM SettledWhenDoneHolds == Spec => []SettledWhenDone
<1>1. IInv => SettledWhenDone
  BY DEF IInv, TypeOK, Charges, Progress, SettledWhenDone, Bills, Zero
<1>2. QED
  BY Invariance, <1>1, PTL

(* No bill is cleared unless a captured payment is on the log: the handler  *)
(* awaits the write of the transaction before it touches a bill.            *)
THEOREM ClearedNeedsLogHolds == Spec => []ClearedNeedsLog
  BY Invariance, PTL DEF IInv

(* A payment is logged at most once, and at least once before anything is   *)
(* cleared on its behalf.                                                   *)
THEOREM LoggedOnceHolds == Spec => []LoggedOnce
  BY Invariance, PTL DEF IInv

(* A page never charges a bill that was cleared before it was opened: its     *)
(* totals come from its own calls of _fetchBalance, which read after that,  *)
(* and the batches of _handlePaymentSuccess clear for good.                 *)
THEOREM SettledIsNotChargedHolds == Spec => []SettledIsNotCharged
<1>1. IInv => SettledIsNotCharged
  BY DEF IInv, SettledState, SettledIsNotCharged
<1>2. QED
  BY Invariance, <1>1, PTL

(* Only the two forms that add bills and the two commits change balances.   *)
LEMMA KeptStep ==
  TypeOK /\ [Next]_vars =>
    \A b \in Bills : balance[b] # "none" => balance'[b] \in {balance[b], "zero"}
<1> DEFINE Kept == \A b \in Bills : balance[b] # "none" => balance'[b] \in {balance[b], "zero"}
<1> SUFFICES ASSUME TypeOK, [Next]_vars PROVE Kept
  OBVIOUS
<1>1. CASE UNCHANGED balance
  BY <1>1
<1>2. ASSUME NEW b \in Bills, AddCard(b) \/ AddRent(b) PROVE Kept
  BY <1>2 DEF AddCard, AddRent, TypeOK
<1>3. ASSUME NEW p \in Payments, CommitCards(p) \/ CommitRents(p) PROVE Kept
  BY <1>3 DEF CommitCards, CommitRents
<1>4. QED
  BY <1>1, <1>2, <1>3
     DEF vars, Next, UserStep, FetchStep, HandlerStep, OpenForm, MakePayment, PopForm, KillDevice,
         FetchUserDoc, FetchCards, FetchRents, FetchSetState, FetchFails, GatewayResult,
         HandlePaymentSuccess, LogTransaction, GetCards, GetRents, FinishSuccess, HandlerFails,
         HandlePaymentError, HandleExternalWallet

(* What a captured payment was charged for is never changed.                *)
LEMMA CapturedStep ==
  TypeOK /\ [Next]_vars =>
    \A p \in Payments : checkout[p] = "captured" =>
        checkout'[p] = "captured" /\ charge'[p] = charge[p]
<1> DEFINE Stays == \A p \in Payments : checkout[p] = "captured" =>
                        checkout'[p] = "captured" /\ charge'[p] = charge[p]
<1> SUFFICES ASSUME TypeOK, [Next]_vars PROVE Stays
  OBVIOUS
<1>1. CASE UNCHANGED <<checkout, charge>>
  BY <1>1
<1>2. ASSUME NEW f \in Forms, NEW p \in Payments, NEW c \in Calls, MakePayment(f, p, c)
      PROVE  Stays
  BY <1>2 DEF MakePayment, TypeOK
<1>3. ASSUME NEW p \in Payments, GatewayResult(p) PROVE Stays
  BY <1>3 DEF GatewayResult, TypeOK
<1>4. QED
  BY <1>1, <1>2, <1>3
     DEF vars, Next, UserStep, FetchStep, HandlerStep, AddCard, AddRent, OpenForm, PopForm,
         KillDevice, FetchUserDoc, FetchCards, FetchRents, FetchSetState, FetchFails,
         HandlePaymentSuccess, LogTransaction, GetCards, CommitCards, GetRents, CommitRents,
         FinishSuccess, HandlerFails, HandlePaymentError, HandleExternalWallet

------------------------------------------------------------------------------
(* One patient user without faults (QuietPaymentForm).  QuietInv says why the   *)
(* page then implements Dues: at most one page and one payment are under way    *)
(* (OnePage, OnePayment), the total of that page is what is owed (TotalState,   *)
(* FetchState, ChargeState), and what is on the log but still owed is being     *)
(* cleared (ClearState).                                                        *)

(* The handler of a payment that is logged but not yet cleared. *)
ClearPcs == RunPcs \ {"log"}

Clearing == \E p \in Payments : handler[p].pc \in ClearPcs

(* What is on the log. *)
Logged == UNION {t.amount : t \in transactions}

(* A payment between the tap on PayNow and the end of its handler. *)
Active(p) ==
    \/ checkout[p] = "open"
    \/ checkout[p] = "captured" /\ handler[p].pc = "none"
    \/ handler[p].pc \in RunPcs

OnePage ==
    /\ \A f, g \in Forms : page[f] = "mounted" /\ page[g] = "mounted" => f = g
    /\ \A f \in Forms : page[f] = "unopened" => totalBalance[f] = {}

OnePayment ==
    /\ \A p, q \in Payments : Active(p) /\ Active(q) => p = q
    /\ \A p \in Payments : Active(p) => charge[p].form \in Forms /\ page[charge[p].form] = "mounted"

(* _fetchBalance runs on the open page and never beside a handler. *)
FetchState ==
    \A c \in Calls : fetch[c].pc # "idle" =>
        /\ fetch[c].form \in Forms /\ page[fetch[c].form] = "mounted"
        /\ \A p \in Payments : handler[p].pc \notin RunPcs
        /\ fetch[c].pc = "rents" => fetch[c].total = Owed \cap Cards
        /\ fetch[c].pc = "setState" => fetch[c].total = Owed

(* The open page shows what is owed or, with no answer yet, nothing. *)
TotalState ==
    ~Clearing => \A f \in Forms : page[f] = "mounted" => totalBalance[f] \in {{}, Owed}

(* A payment that can be captured is of all that is owed, and stays so. *)
ChargeState ==
    \A p \in Payments :
        /\ checkout[p] = "open" \/ (checkout[p] = "captured" /\ handler[p].pc = "none") =>
              (charge[p].amount # {} => totalBalance[charge[p].form] = Owed /\ Owed # {})
        /\ handler[p].pc = "log" => handler[p].amount = Owed /\ Owed # {}

(* What is logged is cleared by the handler that logged it. *)
ClearState ==
    /\ \A t \in transactions : t.amount \subseteq Issued
    /\ ~Clearing => Owed \cap Logged = {}
    /\ \A p \in Payments :
        LET pc == handler[p].pc IN
        /\ pc \in ClearPcs => Owed \subseteq Logged
        /\ pc = "commitCards" => Owed \cap Cards \subseteq handler[p].docs
        /\ pc \in {"getRents", "commitRents", "setState"} => Owed \cap Cards = {}
        /\ pc = "commitRents" => Owed \cap Rents \subseteq handler[p].docs
        /\ pc = "setState" => Owed = {}

QuietInv ==
    /\ OnePage
    /\ OnePayment
    /\ FetchState
    /\ TotalState
    /\ ChargeState
    /\ ClearState

------------------------------------------------------------------------------
(* The patient user's steps are steps of the payment page.                  *)
LEMMA QuietIsNext == [QuietNext]_vars => [Next]_vars
  BY DEF QuietNext, QuietUserStep, Next, UserStep

(* The patient user's page is a payment page: its theorems hold for it.     *)
LEMMA QuietImplementsPaymentForm == QuietSpec => Spec
  BY QuietIsNext, PTL DEF QuietSpec, Spec

LEMMA QuietInit == Init => QuietInv
<1> SUFFICES ASSUME Init PROVE QuietInv
  OBVIOUS
<1>1. Owed = {} /\ Logged = {} /\ ~Clearing
  BY DEF Init, Owed, Logged, Clearing, ClearPcs, RunPcs
<1>2. OnePage /\ FetchState /\ OnePayment
  BY DEF Init, OnePage, FetchState, OnePayment, Active, NoFetch, RunPcs
<1>3. TotalState /\ ChargeState /\ ClearState
  BY <1>1 DEF Init, TotalState, ChargeState, ClearState, ClearPcs, RunPcs
<1>4. QED
  BY <1>2, <1>3 DEF QuietInv

(* With neither payment nor handler under way nothing is being cleared.     *)
LEMMA IdleLemma ==
  ASSUME HandlersIdle
  PROVE  ~Clearing /\ \A p \in Payments : ~Active(p)
  BY DEF HandlersIdle, Clearing, ClearPcs, Active

(* What is owed depends on the bills, what is logged on the log.            *)
LEMMA SameBills == UNCHANGED balance => Owed' = Owed /\ Issued' = Issued
  BY DEF Owed, Issued, Listed

LEMMA SameLog == UNCHANGED transactions => Logged' = Logged
  BY DEF Logged

(* A bill is added while no page is open.                                   *)
LEMMA AddStep ==
  ASSUME TypeOK, QuietInv, Quiet, NoPage, NEW b \in Bills, AddCard(b) \/ AddRent(b)
  PROVE  QuietInv'
<1>1. UNCHANGED <<transactions, page, totalBalance, fetch, checkout, charge, handler>>
  BY DEF AddCard, AddRent
<1>2. ~Clearing /\ \A p \in Payments : ~Active(p)
  BY IdleLemma DEF Quiet
<1>3. ~Clearing' /\ \A p \in Payments : ~Active(p)'
  BY <1>1, <1>2 DEF Clearing, Active
<1>4. Issued \subseteq Issued' /\ Owed' \subseteq Owed \cup {b} /\ b \notin Issued
  BY DEF AddCard, AddRent, TypeOK, Issued, Listed, Owed, Bills
<1>5. Logged' = Logged /\ Logged \subseteq Issued
  BY <1>1, SameLog DEF QuietInv, ClearState, Logged
<1>6. OnePage' /\ OnePayment'
  BY <1>1, <1>3 DEF QuietInv, OnePage, OnePayment
<1>7. FetchState' /\ TotalState'
  BY <1>1 DEF Quiet, FetchesIdle, NoPage, FetchState, TotalState
<1>8. ChargeState'
  BY <1>3 DEF ChargeState, Active, RunPcs
<1>9. ClearState'
  BY <1>1, <1>2, <1>3, <1>4, <1>5 DEF QuietInv, ClearState, Active, ClearPcs, RunPcs
<1>10. QED
  BY <1>6, <1>7, <1>8, <1>9 DEF QuietInv

(* A page is opened or left while nothing runs.                             *)
LEMMA PageStep ==
  ASSUME TypeOK, QuietInv, Quiet, NEW f \in Forms,
         PopForm(f) \/ (NoPage /\ \E c \in Calls : OpenForm(f, c))
  PROVE  QuietInv'
<1>1. UNCHANGED <<balance, transactions, totalBalance, checkout, charge, handler>>
  BY DEF PopForm, OpenForm
<1>2. ~Clearing /\ \A p \in Payments : ~Active(p)
  BY IdleLemma DEF Quiet
<1>3. ~Clearing' /\ \A p \in Payments : ~Active(p)'
  BY <1>1, <1>2 DEF Clearing, Active
<1>4. Owed' = Owed /\ Issued' = Issued /\ Logged' = Logged
  BY <1>1, SameBills, SameLog
<1>5. OnePage' /\ OnePayment'
  BY <1>1, <1>3 DEF QuietInv, OnePage, OnePayment, PopForm, OpenForm, NoPage, TypeOK
<1>6. TotalState'
  BY <1>1, <1>2, <1>4 DEF QuietInv, OnePage, TotalState, PopForm, OpenForm, TypeOK
<1>7. FetchState'
  <2>1. CASE PopForm(f)
    BY <2>1 DEF PopForm, Quiet, FetchesIdle, FetchState
  <2>2. ASSUME NEW c \in Calls, OpenForm(f, c) PROVE FetchState'
    <3>1. page'[f] = "mounted" /\ \A p \in Payments : handler'[p].pc \notin RunPcs
      BY <1>1, <1>2, <2>2 DEF OpenForm, TypeOK, Active
    <3>2. fetch'[c] = [pc |-> "userDoc", form |-> f, total |-> {}]
      BY <2>2 DEF OpenForm, StartFetch, TypeOK
    <3>3. \A d \in Calls : d # c => fetch'[d].pc = "idle"
      BY <2>2 DEF OpenForm, StartFetch, TypeOK, Quiet, FetchesIdle
    <3>4. QED
      BY <3>1, <3>2, <3>3 DEF FetchState
  <2>3. QED
    BY <2>1, <2>2
<1>8. ChargeState'
  BY <1>3 DEF ChargeState, Active, RunPcs
<1>9. ClearState'
  BY <1>1, <1>2, <1>3, <1>4 DEF QuietInv, ClearState
<1>10. QED
  BY <1>5, <1>6, <1>7, <1>8, <1>9 DEF QuietInv

(* PayNow is tapped on the open page while nothing runs.                    *)
LEMMA PayStep ==
  ASSUME TypeOK, QuietInv, Quiet, NEW f \in Forms, NEW p \in Payments, NEW c \in Calls,
         MakePayment(f, p, c)
  PROVE  QuietInv'
<1>1. UNCHANGED <<balance, transactions, page, totalBalance, handler>> /\ page[f] = "mounted"
  BY DEF MakePayment
<1>2. ~Clearing /\ \A q \in Payments : ~Active(q)
  BY IdleLemma DEF Quiet
<1>3. ~Clearing'
  BY <1>1, <1>2 DEF Clearing
<1>4. \A q \in Payments : handler[q].pc \notin RunPcs
  BY <1>2 DEF Active
<1>5. Owed' = Owed /\ Issued' = Issued /\ Logged' = Logged
  BY <1>1, SameBills, SameLog
<1>6. /\ charge'[p] = [form |-> f, amount |-> totalBalance[f]]
      /\ \A q \in Payments : q # p => charge'[q] = charge[q] /\ checkout'[q] = checkout[q]
  BY DEF MakePayment, TypeOK
<1>7. \A q \in Payments : q # p => ~Active(q)'
  BY <1>1, <1>2, <1>6 DEF Active
<1>8. OnePage' /\ OnePayment'
  BY <1>1, <1>6, <1>7 DEF QuietInv, OnePage, OnePayment
<1>9. TotalState'
  BY <1>1, <1>2, <1>5 DEF QuietInv, TotalState
<1>10. FetchState'
  <2>1. fetch'[c] = [pc |-> "userDoc", form |-> f, total |-> {}]
    BY DEF MakePayment, StartFetch, TypeOK
  <2>2. \A d \in Calls : d # c => fetch'[d].pc = "idle"
    BY DEF MakePayment, StartFetch, TypeOK, Quiet, FetchesIdle
  <2>3. QED
    BY <1>1, <1>4, <2>1, <2>2 DEF FetchState
<1>11. ChargeState'
  <2>1. totalBalance[f] \in {{}, Owed}
    BY <1>1, <1>2 DEF QuietInv, TotalState
  <2>2. \A q \in Payments : handler'[q].pc # "log"
    BY <1>1, <1>4 DEF RunPcs
  <2>3. QED
    BY <1>1, <1>5, <1>6, <1>7, <2>1, <2>2 DEF ChargeState, Active
<1>12. ClearState'
  BY <1>1, <1>2, <1>3, <1>5 DEF QuietInv, ClearState
<1>13. QED
  BY <1>8, <1>9, <1>10, <1>11, <1>12 DEF QuietInv

(* _fetchBalance reads what is owed, and nothing is cleared meanwhile.      *)
LEMMA FetchesStep ==
  ASSUME TypeOK, QuietInv, NEW c \in Calls, FetchStep(c)
  PROVE  QuietInv'
<1>1. UNCHANGED <<balance, transactions, page, checkout, charge, handler>>
  BY DEF FetchStep, FetchUserDoc, FetchCards, FetchRents, FetchSetState, FetchFails
<1>2. fetch[c].pc # "idle" /\ \A d \in Calls : d # c => fetch'[d] = fetch[d]
  BY DEF TypeOK, FetchStep, FetchUserDoc, FetchCards, FetchRents, FetchSetState, FetchFails
<1>3. /\ fetch[c].form \in Forms /\ page[fetch[c].form] = "mounted"
      /\ \A p \in Payments : handler[p].pc \notin RunPcs
  BY <1>2 DEF QuietInv, FetchState
<1>4. Owed' = Owed /\ Issued' = Issued /\ Logged' = Logged /\ Owed \subseteq Bills
  BY <1>1, SameBills, SameLog DEF Owed
<1>5. ~Clearing /\ ~Clearing' /\ \A p \in Payments : Active(p)' <=> Active(p)
  BY <1>1, <1>3 DEF Clearing, ClearPcs, Active
<1>6. \/ fetch'[c].pc = "idle"
      \/ /\ fetch'[c].form = fetch[c].form
         /\ \/ fetch'[c].pc = "cards"
            \/ fetch'[c].pc = "rents" /\ fetch'[c].total = Owed \cap Cards
            \/ fetch'[c].pc = "setState" /\ fetch'[c].total = Owed
  <2> USE DEF TypeOK, Fetches
  <2>1. CASE FetchUserDoc(c)
    BY <2>1 DEF FetchUserDoc
  <2>2. CASE FetchCards(c)
    BY <2>2 DEF FetchCards
  <2>3. CASE FetchRents(c)
    <3>1. fetch[c].total = Owed \cap Cards
      BY <2>3 DEF FetchRents, QuietInv, FetchState
    <3>2. fetch[c].total \cup (Owed \cap Rents) = Owed
      BY <1>4, <3>1 DEF Bills
    <3>3. CASE fetch' = [fetch EXCEPT ![c] = NoFetch]
      BY <3>3 DEF NoFetch
    <3>4. CASE fetch' = [fetch EXCEPT ![c].pc = "setState", ![c].total = Owed]
      BY <3>4
    <3>5. QED
      BY <2>3, <3>2, <3>3, <3>4 DEF FetchRents
  <2>4. CASE FetchSetState(c) \/ FetchFails(c)
    BY <2>4 DEF FetchSetState, FetchFails, NoFetch
  <2>5. QED
    BY <2>1, <2>2, <2>3, <2>4 DEF FetchStep
<1>7. \/ UNCHANGED totalBalance
      \/ totalBalance' = [totalBalance EXCEPT ![fetch[c].form] = Owed]
  <2>1. CASE FetchSetState(c)
    BY <2>1, <1>2 DEF FetchSetState, SetTotal, QuietInv, FetchState
  <2>2. QED
    BY <2>1 DEF FetchStep, FetchUserDoc, FetchCards, FetchRents, FetchFails
<1>8. \A f \in Forms : totalBalance'[f] \in {totalBalance[f], Owed}
                      /\ (page[f] = "unopened" => totalBalance'[f] = totalBalance[f])
  BY <1>3, <1>7 DEF TypeOK
<1>9. OnePage' /\ OnePayment'
  BY <1>1, <1>5, <1>8 DEF QuietInv, OnePage, OnePayment
<1>10. FetchState'
  BY <1>1, <1>2, <1>3, <1>4, <1>6 DEF QuietInv, FetchState
<1>11. TotalState'
  BY <1>1, <1>4, <1>5, <1>8 DEF QuietInv, TotalState
<1>12. ChargeState'
  <2>1. ASSUME NEW p \in Payments,
               checkout[p] = "open" \/ (checkout[p] = "captured" /\ handler[p].pc = "none"),
               charge[p].amount # {}
        PROVE  totalBalance'[charge[p].form] = Owed /\ Owed # {}
    <3>1. totalBalance[charge[p].form] = Owed /\ Owed # {}
      BY <2>1 DEF QuietInv, ChargeState
    <3>2. charge[p].form \in Forms
      BY <2>1 DEF QuietInv, OnePayment, Active
    <3>3. QED
      BY <1>8, <3>1, <3>2
  <2>2. \A p \in Payments : handler[p].pc # "log"
    BY <1>3 DEF RunPcs
  <2>3. QED
    BY <1>1, <1>4, <2>1, <2>2 DEF ChargeState
<1>13. ClearState'
  BY <1>1, <1>4, <1>5 DEF QuietInv, ClearState
<1>14. QED
  BY <1>9, <1>10, <1>11, <1>12, <1>13 DEF QuietInv

(* The gateway answers while no balance call and no handler runs.           *)
LEMMA GatewayStep ==
  ASSUME TypeOK, QuietInv, NEW p \in Payments, GatewayResult(p), FetchesIdle
  PROVE  QuietInv'
<1>1. UNCHANGED <<balance, transactions, page, totalBalance, fetch, charge, handler>>
  BY DEF GatewayResult
<1>2. Owed' = Owed /\ Issued' = Issued /\ Logged' = Logged
  BY <1>1, SameBills, SameLog
<1>3. checkout[p] = "open" /\ \A q \in Payments : q # p => checkout'[q] = checkout[q]
  BY DEF GatewayResult, TypeOK
<1>4. \A q \in Payments : Active(q)' => Active(q)
  BY <1>1, <1>3 DEF Active
<1>5. Clearing' = Clearing
  BY <1>1 DEF Clearing
<1>6. OnePage' /\ OnePayment'
  BY <1>1, <1>4 DEF QuietInv, OnePage, OnePayment
<1>7. FetchState' /\ TotalState' /\ ClearState'
  BY <1>1, <1>2, <1>5 DEF QuietInv, FetchState, TotalState, ClearState
<1>8. ChargeState'
  BY <1>1, <1>2, <1>3 DEF QuietInv, ChargeState
<1>9. QED
  BY <1>6, <1>7, <1>8 DEF QuietInv

(* A running handler is the only payment under way.                         *)
LEMMA HandlerAlone ==
  ASSUME TypeOK, QuietInv, FetchesIdle, NEW p \in Payments, Active(p),
         UNCHANGED <<page, fetch, checkout, charge>>,
         \A q \in Payments : q # p => handler'[q] = handler[q]
  PROVE  /\ \A q \in Payments : q # p => ~Active(q) /\ ~Active(q)'
         /\ charge[p].form \in Forms /\ page[charge[p].form] = "mounted"
         /\ \A f \in Forms : page[f] = "mounted" => f = charge[p].form
         /\ OnePayment' /\ FetchState'
<1>1. \A q \in Payments : q # p => ~Active(q)
  BY DEF QuietInv, OnePayment
<1>2. \A q \in Payments : q # p => ~Active(q)'
  BY <1>1 DEF Active
<1>3. charge[p].form \in Forms /\ page[charge[p].form] = "mounted"
  BY DEF QuietInv, OnePayment
<1>4. OnePayment'
  BY <1>2, <1>3 DEF OnePayment
<1>5. FetchState'
  BY DEF FetchState, FetchesIdle
<1>6. QED
  BY <1>1, <1>2, <1>3, <1>4, <1>5 DEF QuietInv, OnePage

(* So the invariant is a matter of this payment and of its page's total.    *)
LEMMA HandlerInv ==
  ASSUME TypeOK, QuietInv, FetchesIdle, NEW p \in Payments, Active(p),
         checkout[p] = "captured", handler'[p].pc # "none",
         UNCHANGED <<page, fetch, checkout, charge>>,
         \A q \in Payments : q # p => handler'[q] = handler[q],
         \/ UNCHANGED totalBalance
         \/ totalBalance' = [totalBalance EXCEPT ![charge[p].form] = {}],
         handler'[p].pc \notin ClearPcs => totalBalance'[charge[p].form] \in {{}, Owed'},
         handler'[p].pc = "log" => handler'[p].amount = Owed' /\ Owed' # {},
         \A t \in transactions' : t.amount \subseteq Issued',
         handler'[p].pc \notin ClearPcs => Owed' \cap Logged' = {},
         handler'[p].pc \in ClearPcs => Owed' \subseteq Logged',
         handler'[p].pc = "commitCards" => Owed' \cap Cards \subseteq handler'[p].docs,
         handler'[p].pc \in {"getRents", "commitRents", "setState"} => Owed' \cap Cards = {},
         handler'[p].pc = "commitRents" => Owed' \cap Rents \subseteq handler'[p].docs,
         handler'[p].pc = "setState" => Owed' = {}
  PROVE  QuietInv'
<1>1. /\ \A q \in Payments : q # p => ~Active(q) /\ ~Active(q)'
      /\ charge[p].form \in Forms /\ page[charge[p].form] = "mounted"
      /\ \A f \in Forms : page[f] = "mounted" => f = charge[p].form
      /\ OnePayment' /\ FetchState'
  BY HandlerAlone
<1>2. \A q \in Payments : q # p => handler'[q].pc \notin RunPcs
  BY <1>1 DEF Active
<1>3. ClearPcs \subseteq RunPcs /\ {"commitCards", "getRents", "commitRents", "setState"} \subseteq ClearPcs
      /\ "log" \in RunPcs
  BY DEF ClearPcs, RunPcs
<1>4. Clearing' <=> handler'[p].pc \in ClearPcs
  BY <1>2, <1>3 DEF Clearing
<1>5. OnePage'
  BY <1>1 DEF QuietInv, OnePage, TypeOK
<1>6. TotalState'
  BY <1>1, <1>4 DEF TotalState
<1>7. ChargeState'
  <2>1. ASSUME NEW q \in Payments
        PROVE  ~(checkout'[q] = "open" \/ (checkout'[q] = "captured" /\ handler'[q].pc = "none"))
    <3>1. CASE q = p
      BY <3>1
    <3>2. CASE q # p
      BY <1>1, <3>2 DEF Active
    <3>3. QED
      BY <3>1, <3>2
  <2>2. QED
    BY <1>2, <1>3, <2>1 DEF ChargeState
<1>8. ClearState'
  BY <1>2, <1>3, <1>4 DEF ClearState
<1>9. QED
  BY <1>1, <1>5, <1>6, <1>7, <1>8 DEF QuietInv

(* The success handler: what it was started with is all that is owed, it is *)
(* logged in one step, and what is logged is cleared by its two batches.    *)
LEMMA SuccessStep ==
  ASSUME IInv, QuietInv, FetchesIdle, NEW p \in Payments,
         \/ HandlePaymentSuccess(p) \/ LogTransaction(p)
         \/ GetCards(p) \/ CommitCards(p) \/ GetRents(p) \/ CommitRents(p) \/ FinishSuccess(p)
  PROVE  QuietInv'
<1>a. TypeOK /\ LogState
  BY DEF IInv
<1>b. UNCHANGED <<page, fetch, checkout, charge>>
  BY DEF HandlePaymentSuccess, LogTransaction, GetCards, CommitCards, GetRents, CommitRents,
         FinishSuccess
<1>c. \A q \in Payments : q # p => handler'[q] = handler[q]
  BY <1>a DEF TypeOK, HandlePaymentSuccess, LogTransaction, GetCards, CommitCards, GetRents,
              CommitRents, FinishSuccess
<1>d. Active(p) /\ checkout[p] = "captured"
  BY <1>a DEF LogState, RunPcs, Active, Callback, HandlePaymentSuccess, LogTransaction, GetCards,
              CommitCards, GetRents, CommitRents, FinishSuccess
<1>e. /\ charge[p].form \in Forms /\ page[charge[p].form] = "mounted"
      /\ \A q \in Payments : q # p => handler[q].pc \notin RunPcs
  BY <1>d DEF QuietInv, OnePayment, Active
<1>f. Clearing <=> handler[p].pc \in ClearPcs
  BY <1>e DEF Clearing, ClearPcs
<1>g. ~Clearing => totalBalance[charge[p].form] \in {{}, Owed} /\ Owed \cap Logged = {}
  BY <1>e DEF QuietInv, TotalState, ClearState
<1>h. Owed \subseteq Issued /\ Issued \subseteq Bills
  BY DEF Owed, Issued, Listed
<1>i. \A t \in transactions : t.amount \subseteq Issued
  BY DEF QuietInv, ClearState
<1>j. handler[p] \in Handlers
  BY <1>a DEF TypeOK
<1>k. ASSUME UNCHANGED balance, UNCHANGED transactions
      PROVE  Owed' = Owed /\ Issued' = Issued /\ Logged' = Logged
  BY <1>k, SameBills, SameLog
<1>1. CASE HandlePaymentSuccess(p)
  <2>1. handler'[p].pc = "log" /\ handler'[p].amount = totalBalance[charge[p].form]
    BY <1>1, <1>j DEF HandlePaymentSuccess, Handlers, TypeOK, IInv
  <2>2. Owed' = Owed /\ Issued' = Issued /\ Logged' = Logged /\ UNCHANGED <<totalBalance, transactions>>
    BY <1>1, <1>k DEF HandlePaymentSuccess
  <2>3. totalBalance[charge[p].form] = Owed /\ Owed # {}
    BY <1>1, <1>a DEF HandlePaymentSuccess, Callback, LogState, QuietInv, ChargeState
  <2>4. ~Clearing
    BY <1>1, <1>f DEF HandlePaymentSuccess, Callback, ClearPcs, RunPcs
  <2>5. "log" \notin ClearPcs
    BY DEF ClearPcs
  <2>6. QED
    BY <1>a, <1>b, <1>c, <1>d, <1>g, <1>i, <2>1, <2>2, <2>3, <2>4, <2>5, HandlerInv
<1>2. CASE LogTransaction(p)
  <2>1. handler'[p].pc = "getCards" /\ UNCHANGED <<balance, totalBalance>>
    BY <1>2, <1>j DEF LogTransaction, Handlers, TypeOK, IInv
  <2>2. handler[p].amount = Owed
    BY <1>2 DEF LogTransaction, QuietInv, ChargeState
  <2>3. transactions' = transactions \cup {[payment |-> p, amount |-> Owed]}
    BY <1>2, <2>2 DEF LogTransaction
  <2>4. Owed' = Owed /\ Issued' = Issued
    BY <2>1, SameBills
  <2>5. Owed \subseteq Logged'
    BY <2>3, ZenonT(40) DEF Logged
  <2>6. \A t \in transactions' : t.amount \subseteq Issued
    BY <1>h, <1>i, <2>3
  <2>7. "getCards" \in ClearPcs
    BY DEF ClearPcs, RunPcs
  <2>8. QED
    BY <1>a, <1>b, <1>c, <1>d, <2>1, <2>4, <2>5, <2>6, <2>7, HandlerInv
<1>l. ASSUME handler[p].pc \in ClearPcs PROVE Owed \subseteq Logged
  BY <1>l DEF QuietInv, ClearState
<1>m. {"getCards", "commitCards", "getRents", "commitRents", "setState"} = ClearPcs
  BY DEF ClearPcs, RunPcs
<1>n. ASSUME NEW docs, balance' = [b \in Bills |-> IF b \in docs THEN "zero" ELSE balance[b]]
      PROVE  Owed' = Owed \ docs /\ Issued \subseteq Issued'
  BY <1>n DEF Owed, Issued, Listed
<1>3. CASE GetCards(p)
  <2>1. handler'[p].pc = "commitCards" /\ handler'[p].docs = Listed(Cards)
    BY <1>3, <1>j DEF GetCards, Handlers, TypeOK, IInv
  <2>2. Owed' = Owed /\ Issued' = Issued /\ Logged' = Logged /\ UNCHANGED <<totalBalance, transactions>>
    BY <1>3, <1>k DEF GetCards
  <2>3. Owed \cap Cards \subseteq Listed(Cards)
    BY DEF Owed, Listed
  <2>4. Owed \subseteq Logged
    BY <1>3, <1>l, <1>m DEF GetCards
  <2>5. QED
    BY <1>a, <1>b, <1>c, <1>d, <1>i, <1>m, <2>1, <2>2, <2>3, <2>4, HandlerInv
<1>4. CASE CommitCards(p)
  <2>1. handler'[p].pc = "getRents" /\ UNCHANGED <<totalBalance, transactions>>
    BY <1>4, <1>j DEF CommitCards, Handlers, TypeOK, IInv
  <2>2. Owed' = Owed \ handler[p].docs /\ Issued \subseteq Issued'
    BY <1>4, <1>n DEF CommitCards
  <2>3. Owed \cap Cards \subseteq handler[p].docs
    BY <1>4 DEF CommitCards, QuietInv, ClearState
  <2>4. Owed \subseteq Logged /\ Logged' = Logged
    BY <1>4, <1>l, <1>m, <2>1, SameLog DEF CommitCards
  <2>5. \A t \in transactions' : t.amount \subseteq Issued'
    BY <1>i, <2>1, <2>2
  <2>6. Owed' \subseteq Logged' /\ Owed' \cap Cards = {}
    BY <2>2, <2>3, <2>4
  <2>7. QED
    BY <1>a, <1>b, <1>c, <1>d, <1>m, <2>1, <2>5, <2>6, HandlerInv
<1>5. CASE GetRents(p)
  <2>1. handler'[p].pc = "commitRents" /\ handler'[p].docs = Listed(Rents)
    BY <1>5, <1>j DEF GetRents, Handlers, TypeOK, IInv
  <2>2. Owed' = Owed /\ Issued' = Issued /\ Logged' = Logged /\ UNCHANGED <<totalBalance, transactions>>
    BY <1>5, <1>k DEF GetRents
  <2>3. Owed \cap Rents \subseteq Listed(Rents) /\ Owed \cap Cards = {}
    BY <1>5 DEF GetRents, Owed, Listed, QuietInv, ClearState
  <2>4. Owed \subseteq Logged
    BY <1>5, <1>l, <1>m DEF GetRents
  <2>5. QED
    BY <1>a, <1>b, <1>c, <1>d, <1>i, <1>m, <2>1, <2>2, <2>3, <2>4, HandlerInv
<1>6. CASE CommitRents(p)
  <2>1. handler'[p].pc = "setState" /\ UNCHANGED <<totalBalance, transactions>>
    BY <1>6, <1>j DEF CommitRents, Handlers, TypeOK, IInv
  <2>2. Owed' = Owed \ handler[p].docs /\ Issued \subseteq Issued'
    BY <1>6, <1>n DEF CommitRents
  <2>3. Owed \cap Rents \subseteq handler[p].docs /\ Owed \cap Cards = {}
    BY <1>6 DEF CommitRents, QuietInv, ClearState
  <2>4. Owed' = {}
    BY <1>h, <2>2, <2>3 DEF Bills
  <2>5. \A t \in transactions' : t.amount \subseteq Issued'
    BY <1>i, <2>1, <2>2
  <2>6. QED
    BY <1>a, <1>b, <1>c, <1>d, <1>m, <2>1, <2>4, <2>5, HandlerInv
<1>7. CASE FinishSuccess(p)
  <2>1. handler'[p].pc = "done" /\ UNCHANGED <<balance, transactions>>
    BY <1>7, <1>j DEF FinishSuccess, Handlers, TypeOK, IInv
  <2>2. Owed' = Owed /\ Issued' = Issued /\ Logged' = Logged
    BY <2>1, <1>k
  <2>3. totalBalance' = [totalBalance EXCEPT ![charge[p].form] = {}]
    BY <1>7, <1>e DEF FinishSuccess, SetTotal
  <2>4. totalBalance'[charge[p].form] = {}
    BY <1>a, <1>e, <2>3 DEF TypeOK
  <2>5. Owed = {}
    BY <1>7 DEF FinishSuccess, QuietInv, ClearState
  <2>6. QED
    BY <1>a, <1>b, <1>c, <1>d, <1>i, <1>m, <2>1, <2>2, <2>3, <2>4, <2>5, HandlerInv
<1>8. QED
  BY <1>1, <1>2, <1>3, <1>4, <1>5, <1>6, <1>7

(* An error or a wallet only raises a toast.                                *)
LEMMA ToastStep ==
  ASSUME IInv, QuietInv, FetchesIdle, NEW p \in Payments,
         HandlePaymentError(p) \/ HandleExternalWallet(p)
  PROVE  QuietInv'
<1>1. UNCHANGED <<balance, transactions, page, totalBalance, fetch, checkout, charge>>
  BY DEF HandlePaymentError, HandleExternalWallet
<1>2. Owed' = Owed /\ Issued' = Issued /\ Logged' = Logged
  BY <1>1, SameBills, SameLog
<1>3. /\ checkout[p] \in {"failed", "wallet"} /\ handler[p].pc = "none"
      /\ handler'[p].pc = "toasted" /\ \A q \in Payments : q # p => handler'[q] = handler[q]
  BY DEF HandlePaymentError, HandleExternalWallet, Callback, IInv, TypeOK, Handlers
<1>4. {"none", "toasted"} \cap RunPcs = {} /\ ClearPcs \subseteq RunPcs
  BY DEF RunPcs, ClearPcs
<1>5. \A q \in Payments : Active(q)' <=> Active(q)
  BY <1>1, <1>3, <1>4 DEF Active
<1>6. Clearing' <=> Clearing
  BY <1>3, <1>4 DEF Clearing
<1>7. OnePage' /\ OnePayment'
  BY <1>1, <1>5 DEF QuietInv, OnePage, OnePayment
<1>8. FetchState' /\ TotalState'
  BY <1>1, <1>2, <1>6 DEF QuietInv, FetchState, FetchesIdle, TotalState
<1>9. ChargeState'
  BY <1>1, <1>2, <1>3 DEF QuietInv, ChargeState
<1>10. ClearState'
  BY <1>1, <1>2, <1>3, <1>4, <1>6 DEF QuietInv, ClearState
<1>11. QED
  BY <1>7, <1>8, <1>9, <1>10 DEF QuietInv

(* QuietInv is inductive beside the invariant of the payment page.          *)
LEMMA QuietStep ==
  ASSUME ~Faults
  PROVE  IInv /\ QuietInv /\ [QuietNext]_vars => QuietInv'
<1> SUFFICES ASSUME IInv, QuietInv, [QuietNext]_vars PROVE QuietInv'
  OBVIOUS
<1>a. TypeOK
  BY DEF IInv
<1>1. CASE QuietUserStep
  BY <1>1, <1>a, AddStep, PageStep, PayStep DEF QuietUserStep
<1>2. ASSUME NEW c \in Calls, FetchStep(c) PROVE QuietInv'
  BY <1>2, <1>a, FetchesStep
<1>3. ASSUME FetchesIdle, NEW p \in Payments, GatewayResult(p) \/ HandlerStep(p) PROVE QuietInv'
  <2>1. ~HandlerFails(p)
    BY DEF HandlerFails
  <2>2. QED
    BY <1>3, <1>a, <2>1, GatewayStep, SuccessStep, ToastStep DEF HandlerStep
<1>4. CASE UNCHANGED vars
  <2>1. UNCHANGED <<balance, transactions, page, totalBalance, fetch, checkout, charge, handler>>
    BY <1>4 DEF vars
  <2>2. Owed' = Owed /\ Issued' = Issued /\ Logged' = Logged
    BY <2>1, SameBills, SameLog
  <2>3. QED
    BY <2>1, <2>2 DEF QuietInv, OnePage, OnePayment, Active, FetchState, TotalState, Clearing,
       ChargeState, ClearState
<1>5. QED
  BY <1>1, <1>2, <1>3, <1>4 DEF QuietNext

LEMMA QuietInvariance ==
  ASSUME ~Faults
  PROVE  QuietSpec => [](IInv /\ QuietInv)
<1>1. QuietSpec => []IInv
  BY QuietImplementsPaymentForm, Invariance, PTL
<1>2. QED
  BY <1>1, QuietInit, QuietStep, PTL DEF QuietSpec

------------------------------------------------------------------------------
(* What the gateway takes.  Until it is on the log, a checkout is of all that is owed  *)
(* or of nothing; what is on the log was taken; and no captured payment is given up.   *)
Unlogged(p) ==
    \/ checkout[p] = "open"
    \/ checkout[p] = "captured" /\ handler[p].pc = "none"
    \/ handler[p].pc = "log"

PaidState ==
    /\ \A p \in Payments : checkout[p] = "captured" => handler[p].pc \in {"none", "done"} \cup RunPcs
    /\ \A p \in Payments : Unlogged(p) => charge[p].amount \in {{}, Owed}
    /\ transactions \subseteq Taken

LEMMA PaidInit == Init => PaidState
  BY DEF Init, PaidState, Unlogged

(* Only a payment that is under way is unlogged.                            *)
LEMMA UnloggedIsActive == \A p \in Payments : Unlogged(p) => Active(p)
  BY DEF Unlogged, Active, RunPcs

(* What was taken changes with the checkouts only, and grows.               *)
LEMMA SameTaken ==
  UNCHANGED <<checkout, charge>> => Taken' = Taken /\ PaidFor' = PaidFor
  BY DEF Taken, PaidFor

(* When every captured payment is past its log, the log has all that was taken. *)
LEMMA AllLogged ==
  ASSUME IInv, PaidState, \A p \in Payments : checkout[p] = "captured" => ~Unlogged(p)
  PROVE  PaidFor = Logged
<1>1. Logged \subseteq PaidFor
  BY DEF PaidState, Logged, PaidFor
<1>2. ASSUME NEW p \in Payments, checkout[p] = "captured"
      PROVE  charge[p].amount \subseteq Logged
  <2>1. handler[p].pc \in (RunPcs \ {"log"}) \cup {"done"}
    BY <1>2 DEF PaidState, Unlogged
  <2>2. PICK t \in transactions : t.payment = p
    BY <2>1 DEF IInv, LoggedOnce
  <2>3. t.amount = charge[p].amount
    BY <2>2 DEF PaidState, Taken
  <2>4. QED
    BY <2>2, <2>3 DEF Logged
<1>3. PaidFor \subseteq Logged
  BY <1>2 DEF PaidFor, Taken
<1>4. QED
  BY <1>1, <1>3

(* The receipt of a payment that is about to be logged is what was taken, and new. *)
LEMMA ReceiptLemma ==
  ASSUME IInv, QuietInv, PaidState, NEW p \in Payments, LogTransaction(p)
  PROVE  /\ transactions' = transactions \cup {[payment |-> p, amount |-> charge[p].amount]}
         /\ [payment |-> p, amount |-> charge[p].amount] \in Taken \ transactions
<1>1. handler[p].pc = "log" /\ handler[p].amount = Owed
  BY DEF LogTransaction, QuietInv, ChargeState
<1>2. checkout[p] = "captured" /\ charge[p].amount # {}
  BY <1>1 DEF IInv, LogState, RunPcs
<1>3. charge[p].amount = Owed
  BY <1>1, <1>2 DEF PaidState, Unlogged
<1>4. \A t \in transactions : t.payment # p
  BY <1>1 DEF IInv, LogState
<1>5. QED
  BY <1>1, <1>2, <1>3, <1>4 DEF LogTransaction, Taken

LEMMA PaidStep ==
  ASSUME ~Faults
  PROVE  IInv /\ QuietInv /\ PaidState /\ [QuietNext]_vars => PaidState'
<1> SUFFICES ASSUME IInv, QuietInv, PaidState, [QuietNext]_vars PROVE PaidState'
  OBVIOUS
<1>a. TypeOK /\ LogState
  BY DEF IInv
<1>b. ASSUME UNCHANGED <<balance, transactions, checkout, charge, handler>> PROVE PaidState'
  BY <1>b, SameBills, SameTaken DEF PaidState, Unlogged
<1>1. ASSUME Quiet, NEW b \in Bills, AddCard(b) \/ AddRent(b) PROVE PaidState'
  <2>1. UNCHANGED <<transactions, checkout, charge, handler>>
    BY <1>1 DEF AddCard, AddRent
  <2>2. \A p \in Payments : ~Unlogged(p)'
    BY <1>1, <2>1, IdleLemma, UnloggedIsActive DEF Quiet, Unlogged
  <2>3. QED
    BY <2>1, <2>2, SameTaken DEF PaidState
<1>2. ASSUME Quiet, NEW f \in Forms, NEW p \in Payments, NEW c \in Calls, MakePayment(f, p, c)
      PROVE  PaidState'
  <2>1. UNCHANGED <<balance, transactions, handler>> /\ page[f] = "mounted"
    BY <1>2 DEF MakePayment
  <2>2. /\ checkout[p] = "none" /\ checkout'[p] = "open" /\ charge'[p].amount = totalBalance[f]
        /\ \A q \in Payments : q # p => charge'[q] = charge[q] /\ checkout'[q] = checkout[q]
    BY <1>2, <1>a DEF MakePayment, TypeOK
  <2>3. totalBalance[f] \in {{}, Owed} /\ Owed' = Owed
    BY <1>2, <2>1, IdleLemma, SameBills DEF Quiet, QuietInv, TotalState
  <2>4. Taken \subseteq Taken'
    BY <2>2 DEF Taken
  <2>5. \A q \in Payments : Unlogged(q)' => charge'[q].amount \in {{}, Owed'}
    BY <2>1, <2>2, <2>3 DEF PaidState, Unlogged
  <2>6. QED
    BY <2>1, <2>2, <2>4, <2>5 DEF PaidState
<1>3. ASSUME NEW p \in Payments, GatewayResult(p) PROVE PaidState'
  <2>1. UNCHANGED <<balance, transactions, charge, handler>>
    BY <1>3 DEF GatewayResult
  <2>2. checkout[p] = "open" /\ \A q \in Payments : q # p => checkout'[q] = checkout[q]
    BY <1>3, <1>a DEF GatewayResult, TypeOK
  <2>3. handler[p].pc = "none" /\ Owed' = Owed
    BY <1>a, <2>1, <2>2, SameBills DEF LogState
  <2>4. Taken \subseteq Taken'
    BY <2>1, <2>2 DEF Taken
  <2>5. \A q \in Payments : Unlogged(q)' => charge'[q].amount \in {{}, Owed'}
    BY <2>1, <2>2, <2>3 DEF PaidState, Unlogged
  <2>6. QED
    BY <2>1, <2>2, <2>3, <2>4, <2>5 DEF PaidState
<1>4. ASSUME NEW p \in Payments, HandlePaymentSuccess(p) PROVE PaidState'
  <2>1. UNCHANGED <<balance, transactions, checkout, charge>> /\ handler[p].pc = "none"
        /\ checkout[p] = "captured" /\ handler'[p].pc = "log"
        /\ \A q \in Payments : q # p => handler'[q] = handler[q]
    BY <1>4, <1>a DEF HandlePaymentSuccess, Callback, TypeOK, Handlers
  <2>2. \A q \in Payments : Unlogged(q)' => Unlogged(q)
    BY <2>1 DEF Unlogged
  <2>3. QED
    BY <2>1, <2>2, SameBills, SameTaken DEF PaidState, RunPcs
<1>5. ASSUME NEW p \in Payments,
             LogTransaction(p) \/ GetCards(p) \/ CommitCards(p) \/ GetRents(p) \/ CommitRents(p)
             \/ FinishSuccess(p)
      PROVE  PaidState'
  <2>1. /\ UNCHANGED <<checkout, charge>> /\ handler[p].pc \in RunPcs
        /\ handler'[p].pc \in (RunPcs \ {"log"}) \cup {"done"}
        /\ \A q \in Payments : q # p => handler'[q] = handler[q]
    BY <1>5, <1>a DEF LogTransaction, GetCards, CommitCards, GetRents, CommitRents, FinishSuccess,
                      RunPcs, TypeOK, Handlers
  <2>2. checkout[p] = "captured" /\ \A q \in Payments : q # p => ~Active(q)
    BY <1>a, <2>1 DEF LogState, QuietInv, OnePayment, Active
  <2>3. "none" \notin RunPcs
    BY DEF RunPcs
  <2>4. \A q \in Payments : ~Unlogged(q)'
    BY <2>1, <2>2, <2>3, UnloggedIsActive DEF Unlogged
  <2>5. transactions' \subseteq Taken
    <3>1. CASE LogTransaction(p)
      BY <3>1, ReceiptLemma DEF PaidState
    <3>2. CASE UNCHANGED transactions
      BY <3>2 DEF PaidState
    <3>3. QED
      BY <1>5, <3>1, <3>2 DEF GetCards, CommitCards, GetRents, CommitRents, FinishSuccess
  <2>6. \A q \in Payments : checkout'[q] = "captured" => handler'[q].pc \in {"none", "done"} \cup RunPcs
    BY <2>1 DEF PaidState
  <2>7. QED
    BY <2>1, <2>4, <2>5, <2>6, SameTaken DEF PaidState
<1>6. ASSUME NEW p \in Payments, HandlePaymentError(p) \/ HandleExternalWallet(p) PROVE PaidState'
  <2>1. /\ UNCHANGED <<balance, transactions, checkout, charge>> /\ checkout[p] # "captured"
        /\ handler'[p].pc = "toasted" /\ \A q \in Payments : q # p => handler'[q] = handler[q]
    BY <1>6, <1>a DEF HandlePaymentError, HandleExternalWallet, Callback, TypeOK, Handlers
  <2>2. \A q \in Payments : Unlogged(q)' => Unlogged(q)
    BY <2>1 DEF Unlogged
  <2>3. QED
    BY <2>1, <2>2, SameBills, SameTaken DEF PaidState
<1>7. QED
  BY <1>b, <1>1, <1>2, <1>3, <1>4, <1>5, <1>6
     DEF vars, QuietNext, QuietUserStep, FetchStep, HandlerStep, OpenForm, PopForm,
         FetchUserDoc, FetchCards, FetchRents, FetchSetState, FetchFails, HandlerFails

LEMMA PaidInvariance ==
  ASSUME ~Faults
  PROVE  QuietSpec => [](IInv /\ QuietInv /\ PaidState)
  BY PaidInit, PaidStep, QuietInvariance, PTL DEF QuietSpec

------------------------------------------------------------------------------
(* Only the gateway's capture takes anything, and it takes all that is due.   *)
LEMMA DuesStep == IInv /\ QuietInv /\ PaidState /\ [QuietNext]_vars => [D!Next]_(D!duesVars)
<1> SUFFICES ASSUME IInv, QuietInv, PaidState, [QuietNext]_vars PROVE [D!Next]_(D!duesVars)
  OBVIOUS
<1>a. TypeOK
  BY DEF IInv
<1>b. D!Paid = PaidFor
  BY DEF D!Paid, PaidFor
<1>c. ASSUME (Owed \ PaidFor)' = Owed \ PaidFor, Taken' = Taken, UNCHANGED transactions
      PROVE  [D!Next]_(D!duesVars)
  BY <1>c DEF D!duesVars
<1>d. ASSUME UNCHANGED <<balance, transactions, checkout, charge>> PROVE [D!Next]_(D!duesVars)
  BY <1>c, <1>d, SameBills, SameTaken
<1>1. ASSUME NEW b \in Bills, AddCard(b) \/ AddRent(b) PROVE [D!Next]_(D!duesVars)
  <2>1. UNCHANGED transactions /\ Taken' = Taken /\ PaidFor' = PaidFor
    BY <1>1, SameTaken DEF AddCard, AddRent
  <2>2. b \notin Issued /\ PaidFor \subseteq Issued
    BY <1>1 DEF AddCard, AddRent, Issued, Listed, PaidFor, Taken, IInv, TotalsAreIssued
  <2>3. b \notin Owed \cup PaidFor
    BY <1>1, <2>2 DEF AddCard, AddRent, Owed
  <2>4. Owed' = Owed \/ Owed' = Owed \cup {b}
    BY <1>1, <1>a DEF AddCard, AddRent, Owed, TypeOK
  <2>5. CASE Owed' = Owed
    BY <1>c, <2>1, <2>5
  <2>6. CASE Owed' = Owed \cup {b}
    <3>1. D!Issue(b)
      BY <1>b, <2>1, <2>3, <2>6 DEF D!Issue
    <3>2. QED
      BY <3>1 DEF D!Next
  <2>7. QED
    BY <2>4, <2>5, <2>6
<1>2. ASSUME NEW p \in Payments, GatewayResult(p) PROVE [D!Next]_(D!duesVars)
  <2>1. UNCHANGED <<balance, transactions, charge, handler>>
    BY <1>2 DEF GatewayResult
  <2>2. checkout[p] = "open" /\ \A q \in Payments : q # p => checkout'[q] = checkout[q]
    BY <1>2, <1>a DEF GatewayResult, TypeOK
  <2>3. CASE checkout'[p] = "captured"
    <3>1. charge[p].amount = Owed /\ Owed # {}
      BY <1>2, <1>a, <2>2, <2>3 DEF GatewayResult, TypeOK, PaidState, Unlogged
    <3>2. \A q \in Payments : q # p => ~Active(q)
      BY <2>2 DEF QuietInv, OnePayment, Active
    <3>3. \A q \in Payments : checkout[q] = "captured" => ~Unlogged(q)
      BY <2>2, <3>2, UnloggedIsActive
    <3>4. PaidFor = Logged
      BY <3>3, AllLogged
    <3>5. ~Clearing
      <4>1. handler[p].pc = "none"
        BY <2>2 DEF IInv, LogState
      <4>2. QED
        BY <3>2, <4>1 DEF Clearing, ClearPcs, RunPcs, Active
    <3>6. Owed \ PaidFor = Owed
      BY <3>4, <3>5 DEF QuietInv, ClearState
    <3>7. Taken' = Taken \cup {[payment |-> p, amount |-> Owed]}
      <4>1. {q \in Payments : checkout'[q] = "captured"} =
               {q \in Payments : checkout[q] = "captured"} \cup {p}
        BY <2>2, <2>3
      <4>2. QED
        BY <2>1, <3>1, <4>1 DEF Taken
    <3>8. (Owed \ PaidFor)' = {}
      <4>1. Owed' = Owed
        BY <2>1, SameBills
      <4>2. Owed \subseteq PaidFor'
        BY <3>7, ZenonT(40) DEF PaidFor
      <4>3. QED
        BY <4>1, <4>2
    <3>9. \A t \in Taken : t.payment # p
      BY <2>2 DEF Taken
    <3>10. D!Take(p)
      BY <2>1, <3>1, <3>6, <3>7, <3>8, <3>9 DEF D!Take
    <3>11. QED
      BY <3>10 DEF D!Next
  <2>4. CASE checkout'[p] # "captured"
    <3>1. {q \in Payments : checkout'[q] = "captured"} = {q \in Payments : checkout[q] = "captured"}
      BY <2>2, <2>4
    <3>2. Taken' = Taken /\ PaidFor' = PaidFor
      BY <2>1, <3>1 DEF Taken, PaidFor
    <3>3. QED
      BY <1>c, <2>1, <3>2, SameBills
  <2>5. QED
    BY <2>3, <2>4
<1>3. ASSUME NEW f \in Forms, NEW p \in Payments, NEW c \in Calls, MakePayment(f, p, c)
      PROVE  [D!Next]_(D!duesVars)
  <2>1. UNCHANGED <<balance, transactions>>
    BY <1>3 DEF MakePayment
  <2>2. /\ checkout[p] = "none" /\ checkout'[p] = "open"
        /\ \A q \in Payments : q # p => charge'[q] = charge[q] /\ checkout'[q] = checkout[q]
    BY <1>3, <1>a DEF MakePayment, TypeOK
  <2>3. Taken' = Taken
    BY <2>2 DEF Taken
  <2>4. PaidFor' = PaidFor
    BY <2>3 DEF PaidFor
  <2>5. QED
    BY <1>c, <2>1, <2>3, <2>4, SameBills
<1>4. ASSUME NEW p \in Payments, LogTransaction(p) PROVE [D!Next]_(D!duesVars)
  <2> DEFINE t == [payment |-> p, amount |-> charge[p].amount]
  <2>1. transactions' = transactions \cup {t} /\ t \in Taken \ transactions
    BY <1>4, ReceiptLemma
  <2>2. Taken' = Taken /\ (Owed \ PaidFor)' = Owed \ PaidFor
    BY <1>4, SameBills, SameTaken DEF LogTransaction
  <2>3. D!Record
    <3> HIDE DEF t
    <3> QED
      BY <2>1, <2>2 DEF D!Record
  <2>4. QED
    BY <2>3 DEF D!Next
<1>5. ASSUME NEW p \in Payments, CommitCards(p) \/ CommitRents(p) PROVE [D!Next]_(D!duesVars)
  <2>1. UNCHANGED transactions /\ Taken' = Taken /\ PaidFor' = PaidFor
    BY <1>5, SameTaken DEF CommitCards, CommitRents
  <2>2. Owed \subseteq Logged /\ Logged \subseteq PaidFor
    BY <1>5 DEF CommitCards, CommitRents, QuietInv, ClearState, ClearPcs, RunPcs,
                PaidState, Logged, PaidFor
  <2>3. Owed' \subseteq Owed
    BY <1>5 DEF CommitCards, CommitRents, Owed
  <2>4. QED
    BY <1>c, <2>1, <2>2, <2>3
<1>6. QED
  BY <1>1, <1>2, <1>3, <1>4, <1>5, <1>d
     DEF vars, QuietNext, QuietUserStep, FetchStep, HandlerStep, OpenForm, PopForm,
         FetchUserDoc, FetchCards, FetchRents, FetchSetState, FetchFails,
         HandlePaymentSuccess, GetCards, GetRents, FinishSuccess, HandlerFails,
         HandlePaymentError, HandleExternalWallet

(* Used by one patient user without faults, the payment page implements     *)
(* Dues: what the gateway takes is exactly what is due, with nothing taken  *)
(* twice and nothing left out, and the log records what was taken.          *)
THEOREM QuietImplementsDues ==
  ASSUME ~Faults
  PROVE  QuietSpec => ImplementsDues
<1>1. Init => D!Init
  BY DEF Init, D!Init, Owed, Taken
<1>2. QED
  BY <1>1, DuesStep, PaidInvariance, PTL DEF QuietSpec, ImplementsDues, D!Spec

(* No bill is charged by two of the captured payments. *)
BilledOnce == \A s, t \in Taken : s # t => s.amount \cap t.amount = {}

LEMMA BilledOnceStep ==
  BilledOnce /\ [D!Next]_(D!duesVars) => BilledOnce'
<1> SUFFICES ASSUME BilledOnce, [D!Next]_(D!duesVars) PROVE BilledOnce'
  OBVIOUS
<1>1. ASSUME NEW p \in Payments, D!Take(p) PROVE BilledOnce'
  <2> DEFINE due == Owed \ PaidFor
             r   == [payment |-> p, amount |-> due]
  <2>1. Taken' = Taken \cup {r}
    BY <1>1 DEF D!Take
  <2>2. r.amount = due
    OBVIOUS
  <2>3. \A t \in Taken : t.amount \cap due = {}
    BY DEF PaidFor
  <2> HIDE DEF r, due
  <2>4. ASSUME NEW s \in Taken', NEW t \in Taken', s # t
        PROVE  s.amount \cap t.amount = {}
    <3>1. CASE s \in Taken /\ t \in Taken
      BY <2>4, <3>1 DEF BilledOnce
    <3>2. CASE s = r /\ t \in Taken
      BY <2>2, <2>3, <3>2
    <3>3. CASE s \in Taken /\ t = r
      BY <2>2, <2>3, <3>3
    <3> QED
      BY <2>1, <2>4, <3>1, <3>2, <3>3
  <2> QED
    BY <2>4 DEF BilledOnce
<1>2. CASE Taken' = Taken
  BY <1>2 DEF BilledOnce
<1> QED
  BY <1>1, <1>2 DEF D!Next, D!Issue, D!Record, D!duesVars

(* The gateway takes for every bill at most once, over any number of payments *)
(* and of pages, as long as no call fails and no tap is hurried.              *)
THEOREM BilledOnceHolds ==
  ASSUME ~Faults
  PROVE  QuietSpec => []BilledOnce
<1>1. Init => BilledOnce
  BY DEF Init, BilledOnce, Taken
<1>2. IInv /\ QuietInv /\ PaidState /\ BilledOnce /\ [QuietNext]_vars => BilledOnce'
  BY DuesStep, BilledOnceStep
<1> QED
  BY <1>1, <1>2, PaidInvariance, PTL DEF QuietSpec

=============================================================================

------------------------- MODULE PaymentReadersProofs -------------------------
(***************************************************************************)
(* Theorems about the two compositions that read what the payment page     *)
(* writes, AdminDesk and AccountViews, for any bills, pages and payments   *)
(* and any readers of them.  Both take PaymentForm's steps only, so that   *)
(* module's invariant holds in them; DeskInv adds what an admin's page may *)
(* show, ViewsInv what an amount due and a list of payments may.           *)
(***************************************************************************)
EXTENDS AdminDesk, AccountViews, PaymentFormProofs

Receipts == [payment: Payments, amount: SUBSET Bills]

DeskType ==
    desk \in [Desks -> [pc: DeskPcs, seen: [Bills -> Balances], receipts: SUBSET Receipts]]

TilePayType ==
    tilePay \in [TilePays -> [outcome: Outcomes, desk: Desks, bill: Bills]
                             \cup {[outcome |-> "none"]}]

(* Once a page has read the transactions, they explain every 0 it has read. *)
Explained ==
    \A d \in Desks, b \in Bills :
        desk[d].pc \in {"setState", "shown"} /\ desk[d].seen[b] = "zero" =>
            \E t \in desk[d].receipts :
                checkout[t.payment] = "captured" /\ charge[t.payment].amount # {}

(* What a page has read as cleared is cleared. *)
SeenIsCleared ==
    \A d \in Desks, b \in Bills : desk[d].seen[b] = "zero" => balance[b] = "zero"

DeskInv == DeskType /\ TilePayType /\ NoButtonMeansSettled /\ SeenIsCleared /\ Explained

DeskVars == <<vars, deskVars>>

------------------------------------------------------------------------------
(* A step of the composition is a step of the payment page or leaves it be. *)
LEMMA PaymentStep == [DeskNext]_DeskVars => [Next]_vars
  BY DEF DeskNext, DeskVars

(* The composition is a payment page as PaymentForm has it.                 *)
THEOREM DeskImplementsPaymentForm == DeskSpec => Spec
  BY PaymentStep, PTL DEF DeskSpec, DeskVars, Spec

(* A page that was not opened shows nothing.                                *)
LEMMA DeskInitInv == Init /\ DeskInit => DeskInv
  BY DEF DeskInit, DeskInv, DeskType, TilePayType, DeskPcs, Balances, NoButtonMeansSettled,
         SeenIsCleared, Explained

(* A read gives a balance per bill, and one that is 0 now or was before.    *)
LEMMA ReadLemma ==
  ASSUME TypeOK, DeskInv, NEW d \in Desks, NEW S
  PROVE  /\ Read(d, S) \in [Bills -> Balances]
         /\ \A b \in Bills : Read(d, S)[b] = "zero" => balance[b] = "zero"
         /\ \A b \in Bills : Read(d, S)[b] \in {"free", "zero"} => balance[b] \in {"free", "zero"}
  BY DEF Read, TypeOK, DeskInv, DeskType, NoButtonMeansSettled, SeenIsCleared

(* The payment page runs: what is at 0 stays there, and the receipts stay   *)
(* those of captured payments.                                              *)
LEMMA PaymentKeepsDesk ==
  TypeOK /\ DeskInv /\ [Next]_vars /\ UNCHANGED deskVars => DeskInv'
<1> SUFFICES ASSUME TypeOK, DeskInv, [Next]_vars, UNCHANGED deskVars PROVE DeskInv'
  OBVIOUS
<1>1. DeskType' /\ TilePayType'
  BY DEF DeskInv, DeskType, TilePayType, deskVars
<1>2. NoButtonMeansSettled' /\ SeenIsCleared'
  BY KeptStep DEF DeskInv, NoButtonMeansSettled, SeenIsCleared, deskVars
<1>3. ASSUME NEW d \in Desks, NEW b \in Bills,
             desk[d].pc \in {"setState", "shown"}, desk[d].seen[b] = "zero"
      PROVE  \E t \in desk[d].receipts :
                checkout'[t.payment] = "captured" /\ charge'[t.payment].amount # {}
  <2>1. PICK t \in desk[d].receipts :
           checkout[t.payment] = "captured" /\ charge[t.payment].amount # {}
    BY <1>3 DEF DeskInv, Explained
  <2>2. t.payment \in Payments
    BY DEF DeskInv, DeskType, Receipts
  <2>3. QED
    BY <2>1, <2>2, CapturedStep
<1>4. Explained'
  BY <1>3 DEF Explained, deskVars
<1>5. QED
  BY <1>1, <1>2, <1>4 DEF DeskInv

(* A step of one page leaves the others explained.                          *)
LEMMA OneDeskPage ==
  ASSUME Explained, UNCHANGED vars, NEW d \in Desks,
         \A e \in Desks : e # d => desk'[e] = desk[e],
         \A b \in Bills :
             desk'[d].pc \in {"setState", "shown"} /\ desk'[d].seen[b] = "zero" =>
                 \E t \in desk'[d].receipts :
                    checkout[t.payment] = "captured" /\ charge[t.payment].amount # {}
  PROVE  Explained'
<1> SUFFICES ASSUME NEW e \in Desks, NEW b \in Bills,
                    desk'[e].pc \in {"setState", "shown"}, desk'[e].seen[b] = "zero"
             PROVE  \E t \in desk'[e].receipts :
                       checkout'[t.payment] = "captured" /\ charge'[t.payment].amount # {}
  BY DEF Explained
<1>1. checkout' = checkout /\ charge' = charge
  BY DEF vars
<1>2. CASE e = d
  BY <1>1, <1>2
<1>3. CASE e # d
  <2>1. desk'[e] = desk[e]
    BY <1>3
  <2>2. PICK t \in desk[e].receipts :
           checkout[t.payment] = "captured" /\ charge[t.payment].amount # {}
    BY <2>1 DEF Explained
  <2>3. QED
    BY <1>1, <2>1, <2>2
<1>4. QED
  BY <1>2, <1>3

(* The admin's page runs.                                                   *)
LEMMA DeskKeepsDesk ==
  ASSUME IInv, DeskInv, UNCHANGED vars, NEW d \in Desks, DeskStep(d)
  PROVE  DeskInv'
<1> USE DEF DeskInv, DeskType, DeskPcs, NoButtonMeansSettled, SeenIsCleared, Explained
<1>1. ASSUME NEW pc \in DeskPcs, UNCHANGED tilePay, desk' = [desk EXCEPT ![d].pc = pc],
             pc \in {"setState", "shown"} => desk[d].pc \in {"setState", "shown"}
      PROVE  DeskInv'
  <2>1. desk[d] \in [pc: DeskPcs, seen: [Bills -> Balances], receipts: SUBSET Receipts]
    OBVIOUS
  <2>2. desk'[d] = [pc |-> pc, seen |-> desk[d].seen, receipts |-> desk[d].receipts]
    BY <1>1, <2>1
  <2>3. \A e \in Desks : e # d => desk'[e] = desk[e]
    BY <1>1
  <2>4. DeskType'
    BY <1>1, <2>1, <2>2
  <2>5. NoButtonMeansSettled' /\ SeenIsCleared'
    BY <2>2, <2>3 DEF vars
  <2>6. \A b \in Bills :
           desk'[d].pc \in {"setState", "shown"} /\ desk'[d].seen[b] = "zero" =>
               \E t \in desk'[d].receipts :
                  checkout[t.payment] = "captured" /\ charge[t.payment].amount # {}
    BY <1>1, <2>2, ZenonT(40)
  <2>7. Explained'
    <3> HIDE DEF DeskType, NoButtonMeansSettled, SeenIsCleared, Explained
    <3>1. Explained
      BY DEF DeskInv
    <3>2. QED
      BY <2>3, <2>6, <3>1, OneDeskPage
  <2>8. TilePayType'
    BY <1>1 DEF TilePayType
  <2>9. QED
    BY <2>4, <2>5, <2>7, <2>8
<1>2. ASSUME NEW S, NEW pc \in {"rents", "transactions"}, UNCHANGED tilePay,
             desk' = [desk EXCEPT ![d].pc = pc, ![d].seen = Read(d, S)]
      PROVE  DeskInv'
  <2>1. /\ Read(d, S) \in [Bills -> Balances]
        /\ \A b \in Bills : Read(d, S)[b] = "zero" => balance[b] = "zero"
        /\ \A b \in Bills : Read(d, S)[b] \in {"free", "zero"} => balance[b] \in {"free", "zero"}
    BY ReadLemma DEF IInv
  <2>2. desk[d] \in [pc: DeskPcs, seen: [Bills -> Balances], receipts: SUBSET Receipts]
    OBVIOUS
  <2>3. desk'[d] = [pc |-> pc, seen |-> Read(d, S), receipts |-> desk[d].receipts]
    BY <1>2, <2>2
  <2>4. \A e \in Desks : e # d => desk'[e] = desk[e]
    BY <1>2
  <2>5. DeskType'
    BY <1>2, <2>1, <2>2, <2>3
  <2>6. NoButtonMeansSettled' /\ SeenIsCleared'
    BY <2>1, <2>3, <2>4 DEF vars
  <2>7. desk'[d].pc \notin {"setState", "shown"}
    BY <2>3
  <2>8. Explained'
    BY <2>4, <2>7, OneDeskPage
  <2>9. TilePayType'
    BY <1>2 DEF TilePayType
  <2>10. QED
    BY <2>5, <2>6, <2>8, <2>9
<1>3. CASE ReadCards(d) \/ ReadRents(d)
  BY <1>2, <1>3 DEF ReadCards, ReadRents
<1>4. CASE ReadTransactions(d)
  <2>1. transactions \in SUBSET Receipts
    BY DEF IInv, TypeOK, Receipts
  <2>2. ASSUME NEW b \in Bills, desk[d].seen[b] = "zero"
        PROVE  \E t \in transactions :
                  checkout[t.payment] = "captured" /\ charge[t.payment].amount # {}
    <3>1. b \in Zero
      BY <2>2 DEF Zero
    <3>2. QED
      BY <3>1 DEF IInv, ClearedNeedsLog
  <2>3. desk'[d] = [pc |-> "setState", seen |-> desk[d].seen, receipts |-> transactions]
    BY <1>4 DEF ReadTransactions
  <2>4. \A e \in Desks : e # d => desk'[e] = desk[e]
    BY <1>4 DEF ReadTransactions
  <2>5. DeskType'
    <3>1. desk[d].seen \in [Bills -> Balances] /\ "setState" \in DeskPcs
      OBVIOUS
    <3>2. desk'[d] \in [pc: DeskPcs, seen: [Bills -> Balances], receipts: SUBSET Receipts]
      BY <2>1, <2>3, <3>1
    <3>3. desk' = [desk EXCEPT ![d] = desk'[d]]
      BY <1>4, <2>3 DEF ReadTransactions
    <3>4. QED
      BY <3>2, <3>3
  <2>6. NoButtonMeansSettled' /\ SeenIsCleared'
    BY <2>3, <2>4 DEF vars
  <2>7. \A b \in Bills :
           desk'[d].pc \in {"setState", "shown"} /\ desk'[d].seen[b] = "zero" =>
               \E t \in desk'[d].receipts :
                  checkout[t.payment] = "captured" /\ charge[t.payment].amount # {}
    <3>1. desk'[d].seen = desk[d].seen /\ desk'[d].receipts = transactions
      BY <2>3
    <3>2. QED
      BY <2>2, <3>1
  <2>8. Explained'
    <3> HIDE DEF DeskType, NoButtonMeansSettled, SeenIsCleared, Explained
    <3>1. Explained
      BY DEF DeskInv
    <3>2. QED
      BY <2>4, <2>7, <3>1, OneDeskPage
  <2>9. TilePayType'
    BY <1>4 DEF ReadTransactions, TilePayType
  <2>10. QED
    BY <2>5, <2>6, <2>8, <2>9
<1>5. CASE OpenDesk(d) \/ ShowDesk(d) \/ GetDataFails(d) \/ LeaveDesk(d)
  BY <1>1, <1>5 DEF OpenDesk, ShowDesk, GetDataFails, LeaveDesk
<1>6. ASSUME NEW p \in TilePays, NEW b \in Bills, MakeTilePayment(d, p, b) PROVE DeskInv'
  <2>1. tilePay' = [tilePay EXCEPT ![p] = [outcome |-> "open", desk |-> d, bill |-> b]]
    BY <1>6 DEF MakeTilePayment
  <2>2. TilePayType'
    BY <1>6, <2>1 DEF TilePayType, Outcomes
  <2>3. QED
    BY <1>6, <2>2 DEF MakeTilePayment, vars
<1>7. QED
  BY <1>3, <1>4, <1>5, <1>6 DEF DeskStep

(* Users' pages, admin's pages and tiles together keep DeskInv, beside the  *)
(* invariant of the payment page.                                           *)
LEMMA DeskInvariance == DeskSpec => []DeskInv
<1>1. IInv /\ DeskInv /\ [DeskNext]_DeskVars => DeskInv'
  <2> SUFFICES ASSUME IInv, DeskInv, [DeskNext]_DeskVars PROVE DeskInv'
    OBVIOUS
  <2>1. TypeOK
    BY DEF IInv
  <2>2. CASE [Next]_vars /\ UNCHANGED deskVars
    BY <2>1, <2>2, PaymentKeepsDesk
  <2>3. ASSUME NEW d \in Desks, DeskStep(d), UNCHANGED vars PROVE DeskInv'
    BY <2>3, DeskKeepsDesk
  <2>4. ASSUME NEW p \in TilePays, TileResult(p), UNCHANGED vars PROVE DeskInv'
    <3>1. TilePayType'
      BY <2>4 DEF TileResult, DeskInv, TilePayType, Outcomes
    <3>2. QED
      BY <2>4, <3>1
        DEF TileResult, vars, DeskInv, DeskType, NoButtonMeansSettled, SeenIsCleared, Explained
  <2>5. QED
    BY <2>2, <2>3, <2>4 DEF DeskNext, DeskVars
<1>2. DeskSpec => []IInv
  BY DeskImplementsPaymentForm, Invariance, PTL
<1>3. QED
  BY <1>1, <1>2, DeskInitInv, PTL DEF DeskSpec, DeskVars

(* What view_data.dart keeps has the shape the code gives it: balances as   *)
(* the user's documents have them, and a checkout of a bill per tile.       *)
THEOREM DeskTypeCorrect == DeskSpec => []DeskTypeOK
<1>1. DeskInv => DeskTypeOK
  BY DEF DeskInv, DeskType, TilePayType, Receipts, DeskTypeOK
<1>2. QED
  BY DeskInvariance, <1>1, PTL

(* A tile without a button is right for good: view_data.dart reads balances *)
(* once, and what was entered as 0 or cleared by then is at 0 now.          *)
THEOREM NoButtonMeansSettledHolds == DeskSpec => []NoButtonMeansSettled
  BY DeskInvariance, PTL DEF DeskInv

(* A page that shows a bill that was cleared shows a captured payment, for  *)
(* any bills, rents entered as 0 among them: getData reads the transactions *)
(* last, _handlePaymentSuccess writes them first.                           *)
THEOREM ZeroHasReceiptHolds == DeskSpec => []ZeroHasReceipt
<1>1. DeskInv => ZeroHasReceipt
  BY DEF DeskInv, Explained, ZeroHasReceipt
<1>2. QED
  BY DeskInvariance, <1>1, PTL

------------------------------------------------------------------------------
ViewsVars == <<vars, viewVars>>

DisplayType == [pc: {"unopened", "cards", "rents", "setState", "shown", "failed", "left"},
                total: SUBSET Bills, totalBalance: SUBSET Bills, issued: SUBSET Bills]

ListType == [pc: {"unopened", "fetching", "arrived", "failed", "left"},
             fetched: SUBSET Entries, alias: BOOLEAN, filtered: SUBSET Entries,
             matches: SUBSET Payments, early: BOOLEAN, settled: SUBSET Bills]

(* Only a rent can be a text, and so one that double.parse refuses or reads as 0. *)
CardsAreNumbers == \A b \in Cards : balance[b] \notin {"garbled", "free"}

(* The bills that have an amount to be paid, or had one. *)
Charged == Issued \ Free

(* As far as _fetchBalance has summed, what it left out was cleared. *)
SumState(v) ==
    /\ v.issued \subseteq Charged
    /\ v.pc = "rents" => (v.issued \ v.total) \cap Cards \subseteq Zero
    /\ v.pc = "setState" => v.issued \ v.total \subseteq Zero
    /\ v.pc = "shown" => v.issued \ v.totalBalance \subseteq Zero

(* What was seen to be settled is settled, and a list read after that has *)
(* the payment that did it. *)
HasReceipt(v) == \E t \in v.fetched :
    checkout[t.payment] = "captured" /\ charge[t.payment].amount # {}

ReceiptState(v) ==
    /\ v.settled \subseteq Zero
    /\ v.pc = "arrived" /\ v.settled # {} => HasReceipt(v)

(* filteredUsers is the list that getUsers fills until the first search. *)
SearchState(v) ==
    /\ v.alias => v.matches = Payments /\ ~v.early
    /\ v.pc \in {"unopened", "fetching"} =>
          v.fetched = {} /\ (~v.alias => v.early /\ v.filtered = {})
    /\ v.pc = "arrived" /\ ~v.alias =>
          v.filtered = IF v.early THEN {} ELSE Select(v.fetched, v.matches)

DisplayInv(v) == v \in DisplayType /\ SumState(v)
ListInv(v)    == v \in ListType /\ ReceiptState(v) /\ SearchState(v)

ViewsInv ==
    /\ DOMAIN display = Displays /\ display = [d \in Displays |-> display[d]]
    /\ DOMAIN listPage = Lists /\ listPage = [l \in Lists |-> listPage[l]]
    /\ CardsAreNumbers
    /\ \A d \in Displays : DisplayInv(display[d])
    /\ \A l \in Lists : ListInv(listPage[l])

------------------------------------------------------------------------------
(* A step of the composition is a step of the payment page or leaves it be. *)
LEMMA ViewsPaymentStep == [ViewsNext]_ViewsVars => [Next]_vars
  BY DEF ViewsNext, ViewsVars

(* What the user looks at never disturbs the payment page: the composition  *)
(* is a payment page as PaymentForm has it.                                 *)
THEOREM ViewsImplementPaymentForm == ViewsSpec => Spec
  BY ViewsPaymentStep, PTL DEF ViewsSpec, ViewsVars, Spec

(* A page that was not opened shows nothing.                                *)
LEMMA ViewsInitInv == Init /\ ViewsInit => ViewsInv
<1> SUFFICES ASSUME Init, ViewsInit PROVE ViewsInv
  OBVIOUS
<1>1. DisplayInv(NoDisplay)
  BY DEF NoDisplay, DisplayInv, DisplayType, SumState
<1>2. ListInv(NoList)
  BY DEF NoList, ListInv, ListType, ReceiptState, SearchState
<1>3. CardsAreNumbers
  BY DEF Init, CardsAreNumbers, Bills
<1>4. QED
  BY <1>1, <1>2, <1>3 DEF ViewsInit, ViewsInv

(* A card is stored as a number and cleared to one.                         *)
LEMMA CardsStep == TypeOK /\ CardsAreNumbers /\ [Next]_vars => CardsAreNumbers'
<1> SUFFICES ASSUME TypeOK, CardsAreNumbers, [Next]_vars PROVE CardsAreNumbers'
  OBVIOUS
<1> USE DEF CardsAreNumbers, TypeOK, Bills
<1>1. CASE UNCHANGED balance
  BY <1>1
<1>2. ASSUME NEW b \in Bills, AddCard(b) PROVE CardsAreNumbers'
  BY <1>2 DEF AddCard
<1>3. ASSUME NEW b \in Bills, AddRent(b) PROVE CardsAreNumbers'
  BY <1>3, BillsAssumption DEF AddRent
<1>4. ASSUME NEW p \in Payments, CommitCards(p) \/ CommitRents(p) PROVE CardsAreNumbers'
  BY <1>4 DEF CommitCards, CommitRents
<1>5. QED
  BY <1>1, <1>2, <1>3, <1>4
     DEF vars, Next, UserStep, FetchStep, HandlerStep, OpenForm, MakePayment, PopForm, KillDevice,
         FetchUserDoc, FetchCards, FetchRents, FetchSetState, FetchFails, GatewayResult,
         HandlePaymentSuccess, LogTransaction, GetCards, GetRents, FinishSuccess, HandlerFails,
         HandlePaymentError, HandleExternalWallet

(* Bills with an amount and cleared bills stay so while the payment page runs. *)
LEMMA IssuedStep ==
  TypeOK /\ [Next]_vars => Charged \subseteq Charged' /\ Zero \subseteq Zero'
  BY KeptStep DEF Charged, Issued, Listed, Free, Zero, TypeOK

(* The payment page runs: what the two views have read stays right.         *)
LEMMA PaymentKeepsViews ==
  IInv /\ ViewsInv /\ [Next]_vars /\ UNCHANGED viewVars => ViewsInv'
<1> SUFFICES ASSUME IInv, ViewsInv, [Next]_vars, UNCHANGED viewVars PROVE ViewsInv'
  OBVIOUS
<1>1. TypeOK /\ UNCHANGED <<display, listPage>>
  BY DEF IInv, viewVars
<1>2. Charged \subseteq Charged' /\ Zero \subseteq Zero'
  BY <1>1, IssuedStep
<1>3. ASSUME NEW d \in Displays PROVE DisplayInv(display[d])'
  <2>1. DisplayInv(display[d])
    BY DEF ViewsInv
  <2>2. SumState(display[d])'
    BY <1>1, <1>2, <2>1 DEF DisplayInv, SumState
  <2>3. QED
    BY <1>1, <2>1, <2>2 DEF DisplayInv, DisplayType, Bills
<1>4. ASSUME NEW l \in Lists PROVE ListInv(listPage[l])'
  <2>1. ListInv(listPage[l])
    BY DEF ViewsInv
  <2>2. ASSUME HasReceipt(listPage[l]) PROVE HasReceipt(listPage[l])'
    <3>1. PICK t \in listPage[l].fetched :
             checkout[t.payment] = "captured" /\ charge[t.payment].amount # {}
      BY <2>2 DEF HasReceipt
    <3>2. t.payment \in Payments
      BY <2>1, <3>1 DEF ListInv, ListType, Entries
    <3>3. checkout'[t.payment] = "captured" /\ charge'[t.payment] = charge[t.payment]
      BY <1>1, <3>1, <3>2, CapturedStep
    <3>4. QED
      BY <1>1, <3>1, <3>3 DEF HasReceipt
  <2>3. ReceiptState(listPage[l])'
    BY <1>1, <1>2, <2>1, <2>2 DEF ListInv, ReceiptState
  <2>4. SearchState(listPage[l])' /\ (listPage[l] \in ListType)'
    BY <1>1, <2>1 DEF ListInv, SearchState, Select, ListType, Entries, Bills
  <2>5. QED
    BY <2>3, <2>4 DEF ListInv
<1>5. CardsAreNumbers'
  BY <1>1, CardsStep DEF ViewsInv
<1>6. QED
  BY <1>1, <1>3, <1>4, <1>5 DEF ViewsInv

(* A step that is not the payment page's leaves bills and payments be: it   *)
(* is enough to look at the views it leads to.                              *)
LEMMA ViewsOnly ==
  ASSUME ViewsInv, UNCHANGED vars,
         DOMAIN display' = Displays, display' = [d \in Displays |-> display'[d]],
         DOMAIN listPage' = Lists, listPage' = [l \in Lists |-> listPage'[l]],
         \A d \in Displays : DisplayInv(display'[d]),
         \A l \in Lists : ListInv(listPage'[l])
  PROVE  ViewsInv'
<1>1. UNCHANGED <<balance, checkout, charge>>
  BY DEF vars
<1>2. CardsAreNumbers'
  BY <1>1 DEF ViewsInv, CardsAreNumbers
<1>3. ASSUME NEW d \in Displays PROVE DisplayInv(display[d])'
  <2>1. DisplayInv(display'[d])
    OBVIOUS
  <2>2. QED
    BY <1>1, <2>1 DEF DisplayInv, DisplayType, SumState, Charged, Issued, Listed, Free,
                         Zero, Bills
<1>4. ASSUME NEW l \in Lists PROVE ListInv(listPage[l])'
  <2>1. ListInv(listPage'[l])
    OBVIOUS
  <2>2. QED
    BY <1>1, <2>1
       DEF ListInv, ListType, Entries, ReceiptState, HasReceipt, SearchState, Select, Zero, Bills
<1>5. QED
  BY <1>2, <1>3, <1>4 DEF ViewsInv

LEMMA OneDisplay ==
  ASSUME ViewsInv, UNCHANGED <<vars, listPage>>, NEW d \in Displays, NEW v,
         display' = [display EXCEPT ![d] = v], DisplayInv(v)
  PROVE  ViewsInv'
<1>1. \A e \in Displays : DisplayInv(display'[e])
  BY DEF ViewsInv
<1>2. \A l \in Lists : ListInv(listPage'[l])
  BY DEF ViewsInv
<1>3. QED
  BY <1>1, <1>2, ViewsOnly DEF ViewsInv

LEMMA OneList ==
  ASSUME ViewsInv, UNCHANGED <<vars, display>>, NEW l \in Lists, NEW v,
         listPage' = [listPage EXCEPT ![l] = v], ListInv(v)
  PROVE  ViewsInv'
<1>1. \A d \in Displays : DisplayInv(display'[d])
  BY DEF ViewsInv
<1>2. \A m \in Lists : ListInv(listPage'[m])
  BY DEF ViewsInv
<1>3. QED
  BY <1>1, <1>2, ViewsOnly DEF ViewsInv

(* The amount due runs: of what has an amount, it leaves out what was       *)
(* cleared when it was read.                                                *)
LEMMA DisplayKeepsViews ==
  ASSUME IInv, ViewsInv, UNCHANGED vars, NEW d \in Displays, DisplayStep(d)
  PROVE  ViewsInv'
<1> DEFINE v == display[d]
<1>t. TypeOK /\ CardsAreNumbers /\ DisplayInv(v)
  BY DEF IInv, ViewsInv
<1>f. v \in DisplayType
  BY <1>t DEF DisplayInv
<1>b. Owed \in SUBSET Bills /\ Charged \in SUBSET Bills
  BY DEF Owed, Charged, Issued, Listed
<1>c. \A b \in Charged \cap Cards : b \in Owed \/ b \in Zero
  BY <1>t DEF TypeOK, Balances, Charged, Issued, Listed, Owed, Free, Zero, CardsAreNumbers, Bills
<1>1. CASE OpenDisplay(d)
  <2>1. DisplayInv([v EXCEPT !.pc = "cards", !.issued = Charged])
    BY <1>f, <1>b DEF DisplayInv, DisplayType, SumState
  <2>2. display' = [display EXCEPT ![d] = [v EXCEPT !.pc = "cards", !.issued = Charged]]
    BY <1>1 DEF OpenDisplay, Charged, Issued
  <2>3. QED
    BY <1>1, <2>1, <2>2, OneDisplay DEF OpenDisplay
<1>2. CASE SumCards(d)
  <2>1. DisplayInv([v EXCEPT !.pc = "rents", !.total = Owed \cap Cards])
    BY <1>t, <1>b, <1>c DEF DisplayInv, DisplayType, SumState
  <2>2. display' = [display EXCEPT ![d] = [v EXCEPT !.pc = "rents", !.total = Owed \cap Cards]]
    BY <1>2 DEF SumCards
  <2>3. QED
    BY <1>2, <2>1, <2>2, OneDisplay DEF SumCards
<1>3. CASE SumRents(d) \/ SumFails(d)
  <2>1. DisplayInv([v EXCEPT !.pc = "failed"])
    BY <1>t DEF DisplayInv, DisplayType, SumState
  <2>2. CASE display' = [display EXCEPT ![d].pc = "failed"]
    <3>1. display' = [display EXCEPT ![d] = [v EXCEPT !.pc = "failed"]]
      BY <2>2
    <3>2. QED
      BY <1>3, <2>1, <3>1, OneDisplay DEF SumRents, SumFails
  <2>3. CASE SumRents(d) /\ \A b \in Rents : balance[b] # "garbled"
    <3>1. \A b \in Charged \cap Rents : b \in Owed \/ b \in Zero
      BY <1>t, <2>3 DEF TypeOK, Balances, Charged, Issued, Listed, Owed, Free, Zero, Bills
    <3>2. v.pc = "rents" /\ v.issued \subseteq Charged
      BY <1>t, <2>3 DEF SumRents, DisplayInv, SumState
    <3>3. v.issued \ (v.total \cup (Owed \cap Rents)) \subseteq Zero
      BY <1>t, <3>1, <3>2 DEF DisplayInv, SumState, Charged, Issued, Listed, Bills
    <3>4. DisplayInv([v EXCEPT !.pc = "setState", !.total = v.total \cup (Owed \cap Rents)])
      BY <1>f, <1>b, <3>2, <3>3 DEF DisplayInv, DisplayType, SumState
    <3>5. display' = [display EXCEPT ![d] = [v EXCEPT !.pc = "setState",
                                                      !.total = v.total \cup (Owed \cap Rents)]]
      BY <2>3 DEF SumRents
    <3>6. QED
      BY <2>3, <3>4, <3>5, OneDisplay DEF SumRents
  <2>4. QED
    BY <1>3, <2>2, <2>3 DEF SumRents, SumFails
<1>4. CASE ShowTotal(d)
  <2>1. DisplayInv([v EXCEPT !.pc = "shown", !.totalBalance = v.total])
    BY <1>t, <1>4 DEF ShowTotal, DisplayInv, DisplayType, SumState
  <2>2. display' = [display EXCEPT ![d] = [v EXCEPT !.pc = "shown", !.totalBalance = v.total]]
    BY <1>4 DEF ShowTotal
  <2>3. QED
    BY <1>4, <2>1, <2>2, OneDisplay DEF ShowTotal
<1>5. CASE LeaveDisplay(d)
  <2>1. DisplayInv([NoDisplay EXCEPT !.pc = "left"])
    BY DEF NoDisplay, DisplayInv, DisplayType, SumState
  <2>2. QED
    BY <1>5, <2>1, OneDisplay DEF LeaveDisplay
<1>6. QED
  BY <1>1, <1>2, <1>3, <1>4, <1>5 DEF DisplayStep

(* The list runs: a bill at 0 has its receipt on the log by the time the    *)
(* transactions are read, and a search selects from what was fetched.       *)
LEMMA ListKeepsViews ==
  ASSUME IInv, ViewsInv, UNCHANGED vars, NEW l \in Lists, ListStep(l)
  PROVE  ViewsInv'
<1> DEFINE v == listPage[l]
<1>t. TypeOK /\ ListInv(v)
  BY DEF IInv, ViewsInv
<1>f. v \in ListType
  BY <1>t DEF ListInv
<1>1. CASE OpenList(l)
  <2> DEFINE seen == UNION {LeftOut(d) : d \in Displays}
             w == [v EXCEPT !.pc = "fetching", !.settled = seen]
  <2>1. \A d \in Displays : LeftOut(d) \subseteq Zero
    BY DEF LeftOut, ViewsInv, DisplayInv, SumState
  <2>2. seen \subseteq Zero
    BY <2>1
  <2>3. seen \in SUBSET Bills
    BY <2>2 DEF Zero
  <2>4. ListInv(w)
    BY <1>1, <1>t, <2>2, <2>3 DEF OpenList, ListInv, ListType, ReceiptState, SearchState
  <2>5. listPage' = [listPage EXCEPT ![l] = w]
    BY <1>1 DEF OpenList
  <2>6. QED
    BY <1>1, <2>4, <2>5, OneList DEF OpenList
<1>2. CASE GetUsers(l)
  <2> DEFINE w == [v EXCEPT !.pc = "arrived", !.fetched = transactions]
  <2>1. v.pc = "fetching" /\ v.settled \subseteq Zero
    BY <1>2, <1>t DEF GetUsers, ListInv, ReceiptState
  <2>2. transactions \in SUBSET Entries
    BY <1>t DEF TypeOK, Entries
  <2>3. w \in ListType
    BY <1>f, <2>2 DEF ListType
  <2>4. ReceiptState(w)
    <3>1. w.settled = v.settled /\ w.fetched = transactions
      BY <1>f DEF ListType
    <3>2. v.settled # {} => HasReceipt(w)
      BY <2>1, <3>1 DEF IInv, ClearedNeedsLog, HasReceipt
    <3>3. QED
      BY <2>1, <3>1, <3>2 DEF ReceiptState
  <2>5. SearchState(w)
    BY <1>t, <2>1 DEF ListInv, ListType, SearchState, Select
  <2>6. listPage' = [listPage EXCEPT ![l] = w]
    BY <1>2 DEF GetUsers
  <2>7. QED
    BY <1>2, <2>3, <2>4, <2>5, <2>6, OneList DEF GetUsers, ListInv
<1>3. CASE GetUsersFails(l)
  <2>1. ListInv([v EXCEPT !.pc = "failed"])
    BY <1>t DEF ListInv, ListType, ReceiptState, SearchState
  <2>2. listPage' = [listPage EXCEPT ![l] = [v EXCEPT !.pc = "failed"]]
    BY <1>3 DEF GetUsersFails
  <2>3. QED
    BY <1>3, <2>1, <2>2, OneList DEF GetUsersFails
<1>4. CASE FilterUsers(l)
  <2>1. PICK matches \in SUBSET Payments :
           listPage' = [listPage EXCEPT
              ![l].alias = FALSE, ![l].filtered = Select(v.fetched, matches),
              ![l].matches = matches, ![l].early = v.pc = "fetching"]
    BY <1>4 DEF FilterUsers
  <2> DEFINE w == [v EXCEPT !.alias = FALSE, !.filtered = Select(v.fetched, matches),
                            !.matches = matches, !.early = v.pc = "fetching"]
  <2>2. Select(v.fetched, matches) \in SUBSET Entries
    BY <1>f DEF ListType, Select
  <2>3. w \in ListType
    BY <1>f, <2>2 DEF ListType
  <2>4. w.settled = v.settled /\ w.fetched = v.fetched /\ w.pc = v.pc
    BY <1>f DEF ListType
  <2>5. ReceiptState(w)
    BY <1>t, <2>4 DEF ListInv, ReceiptState, HasReceipt
  <2>6. SearchState(w)
    <3>1. /\ ~w.alias /\ w.matches = matches /\ w.early = (v.pc = "fetching")
          /\ w.filtered = Select(v.fetched, matches)
      BY <1>f DEF ListType
    <3>2. v.pc \in {"unopened", "fetching"} => v.fetched = {}
      BY <1>t DEF ListInv, SearchState
    <3>3. v.pc # "unopened"
      BY <1>4 DEF FilterUsers
    <3>4. QED
      BY <2>4, <3>1, <3>2, <3>3 DEF SearchState, Select
  <2>7. listPage' = [listPage EXCEPT ![l] = w]
    BY <2>1
  <2>8. QED
    BY <1>4, <2>3, <2>5, <2>6, <2>7, OneList DEF FilterUsers, ListInv
<1>5. CASE LeaveList(l)
  <2>1. ListInv([NoList EXCEPT !.pc = "left"])
    BY DEF NoList, ListInv, ListType, ReceiptState, SearchState
  <2>2. QED
    BY <1>5, <2>1, OneList DEF LeaveList
<1>6. QED
  BY <1>1, <1>2, <1>3, <1>4, <1>5 DEF ListStep

------------------------------------------------------------------------------
(* Payment pages, amounts due and lists together keep ViewsInv, beside the  *)
(* invariant of the payment page.                                           *)
LEMMA ViewsInvariance == ViewsSpec => []ViewsInv
<1>1. IInv /\ ViewsInv /\ [ViewsNext]_ViewsVars => ViewsInv'
  <2> SUFFICES ASSUME IInv, ViewsInv, [ViewsNext]_ViewsVars PROVE ViewsInv'
    OBVIOUS
  <2>1. CASE [Next]_vars /\ UNCHANGED viewVars
    BY <2>1, PaymentKeepsViews
  <2>2. ASSUME NEW d \in Displays, DisplayStep(d), UNCHANGED vars PROVE ViewsInv'
    BY <2>2, DisplayKeepsViews
  <2>3. ASSUME NEW l \in Lists, ListStep(l), UNCHANGED vars PROVE ViewsInv'
    BY <2>3, ListKeepsViews
  <2>4. QED
    BY <2>1, <2>2, <2>3 DEF ViewsNext, ViewsVars
<1>2. ViewsSpec => []IInv
  BY ViewsImplementPaymentForm, Invariance, PTL
<1>3. QED
  BY <1>1, <1>2, ViewsInitInv, PTL DEF ViewsSpec, ViewsVars

(* The pages' fields keep the shape that balance_card.dart, profile_page.dart *)
(* and transactions.dart give them, whatever is read when.                  *)
THEOREM ViewsTypeCorrect == ViewsSpec => []ViewsTypeOK
<1>1. ViewsInv => ViewsTypeOK
  BY DEF ViewsInv, ViewsTypeOK, DisplayInv, DisplayType, ListInv, ListType
<1>2. QED
  BY ViewsInvariance, <1>1, PTL

(* Of the bills with an amount, the amount due leaves out none that was not *)
(* cleared: _fetchBalance reads cards and rents in turn and never again, but *)
(* what was cleared stays so.                                               *)
THEOREM LeftOutIsSettledHolds == ViewsSpec => []LeftOutIsSettled
<1>1. ViewsInv => LeftOutIsSettled
  BY DEF ViewsInv, DisplayInv, SumState, LeftOutIsSettled, LeftOut
<1>2. QED
  BY ViewsInvariance, <1>1, PTL

(* Who saw a bill with an amount left out finds a captured payment in a list opened later: *)
(* the handler writes the receipt before it clears anything.                *)
THEOREM SettledHasReceiptHolds == ViewsSpec => []SettledHasReceipt
<1>1. ViewsInv => SettledHasReceipt
  BY DEF ViewsInv, ListInv, ReceiptState, HasReceipt, SettledHasReceipt
<1>2. QED
  BY ViewsInvariance, <1>1, PTL

(* The list of payments is what its last search matches, although getUsers  *)
(* fills a list that filteredUsers may or may not share any more.           *)
THEOREM ListIsSelectionHolds == ViewsSpec => []ListIsSelection
<1>1. ASSUME ViewsInv, NEW l \in Lists, listPage[l].pc = "arrived"
      PROVE  Shown(l) = IF listPage[l].early THEN {}
                        ELSE Select(listPage[l].fetched, listPage[l].matches)
  <2>1. listPage[l] \in ListType /\ SearchState(listPage[l])
    BY <1>1 DEF ViewsInv, ListInv
  <2>2. \A t \in listPage[l].fetched : t.payment \in Payments
    BY <2>1 DEF ListType, Entries
  <2>3. CASE listPage[l].alias
    <3>1. Select(listPage[l].fetched, Payments) = listPage[l].fetched
      BY <2>2 DEF Select
    <3>2. QED
      BY <2>1, <2>3, <3>1 DEF SearchState, Shown
  <2>4. CASE ~listPage[l].alias
    BY <1>1, <2>1, <2>4 DEF SearchState, Shown
  <2>5. QED
    BY <2>3, <2>4
<1>2. ViewsInv => ListIsSelection
  BY <1>1 DEF ListIsSelection
<1>3. QED
  BY ViewsInvariance, <1>2, PTL

===============================================================================

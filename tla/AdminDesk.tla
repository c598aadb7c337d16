------------------------------ MODULE AdminDesk ------------------------------
(***************************************************************************)
(* The admin's page of one user (admin/view_data.dart) beside that user's  *)
(* own payment pages.  ViewData reads cards, rents and transactions once,  *)
(* in this order, and shows a tile per bill; the tile of a bill that is not*)
(* 0 has a PayNow button, which pays the amount that was read and records  *)
(* nothing.  A rent entered as 0 and a bill that was cleared both show 0.  *)
(***************************************************************************)
EXTENDS PaymentForm

CONSTANTS
    Desks,      \* ViewData pages, each opened once
    TilePays    \* checkouts opened by tiles (bounds them)

VARIABLES
    desk,       \* the pages: getData, and what they show
    tilePay     \* the checkouts of Tile2.makePayment

deskVars == <<desk, tilePay>>

DeskPcs == {"unopened", "cards", "rents", "transactions", "setState", "shown", "failed", "left"}

DeskTypeOK ==
    /\ desk \in [Desks -> [pc: DeskPcs, seen: [Bills -> Balances],
                           receipts: SUBSET [payment: Payments, amount: SUBSET Bills]]]
    /\ tilePay \in [TilePays -> [outcome: Outcomes, desk: Desks, bill: Bills]
                           \cup {[outcome |-> "none"]}]

DeskInit ==
    /\ desk = [d \in Desks |-> [pc |-> "unopened", seen |-> [b \in Bills |-> "none"],
                                receipts |-> {}]]
    /\ tilePay = [p \in TilePays |-> [outcome |-> "none"]]

------------------------------------------------------------------------------
OpenDesk(d) ==
    /\ desk[d].pc = "unopened"
    /\ desk' = [desk EXCEPT ![d].pc = "cards"]
    /\ UNCHANGED tilePay

\* Mutant: an amount that does not parse is taken for 0.
Read_Garbled(d, S) ==
    [b \in Bills |-> IF b \notin S THEN desk[d].seen[b]
                     ELSE IF balance[b] = "garbled" THEN "zero" ELSE balance[b]]

\* What a collection says now, besides what was read before.
Read(d, S) == [b \in Bills |-> IF b \in S THEN balance[b] ELSE desk[d].seen[b]]

ReadCards(d) ==
    /\ desk[d].pc = "cards"
    /\ desk' = [desk EXCEPT ![d].pc = "rents", ![d].seen = Read(d, Cards)]
    /\ UNCHANGED tilePay

ReadRents(d) ==
    /\ desk[d].pc = "rents"
    /\ desk' = [desk EXCEPT ![d].pc = "transactions", ![d].seen = Read(d, Rents)]
    /\ UNCHANGED tilePay

ReadTransactions(d) ==
    /\ desk[d].pc = "transactions"
    /\ desk' = [desk EXCEPT ![d].pc = "setState", ![d].receipts = transactions]
    /\ UNCHANGED tilePay

ShowDesk(d) ==
    /\ desk[d].pc = "setState"
    /\ desk' = [desk EXCEPT ![d].pc = "shown"]
    /\ UNCHANGED tilePay

\* Mutant: an error is swallowed and the page shows what was read so far.
GetDataFails_Shows(d) ==
    /\ Faults
    /\ desk[d].pc \in {"cards", "rents", "transactions"}
    /\ desk' = [desk EXCEPT ![d].pc = "shown"]
    /\ UNCHANGED tilePay

GetDataFails(d) ==
    /\ Faults
    /\ desk[d].pc \in {"cards", "rents", "transactions"}
    /\ desk' = [desk EXCEPT ![d].pc = "failed"]
    /\ UNCHANGED tilePay

\* setState on a page that was left throws, so getData ends with the page.
LeaveDesk(d) ==
    /\ desk[d].pc \notin {"unopened", "left"}
    /\ \A p \in TilePays : tilePay[p].outcome = "open" => tilePay[p].desk # d
    /\ desk' = [desk EXCEPT ![d].pc = "left"]
    /\ UNCHANGED tilePay

------------------------------------------------------------------------------
(* Tile2.  The build of a tile whose amount does not parse throws, so it   *)
(* has no button.  The gateway's sheet covers the page until its result,   *)
(* which each of the three callbacks shows in a message and nothing else.  *)

MakeTilePayment(d, p, b) ==
    /\ desk[d].pc = "shown" /\ desk[d].seen[b] = "owed"
    /\ tilePay[p].outcome = "none"
    /\ \A q \in TilePays : tilePay[q].outcome = "open" => tilePay[q].desk # d
    /\ tilePay' = [tilePay EXCEPT ![p] = [outcome |-> "open", desk |-> d, bill |-> b]]
    /\ UNCHANGED desk

TileResult(p) ==
    /\ tilePay[p].outcome = "open"
    /\ \E result \in {"captured", "failed", "wallet"} :
          tilePay' = [tilePay EXCEPT ![p].outcome = result]
    /\ UNCHANGED desk

DeskStep(d) ==
    \/ OpenDesk(d) \/ ReadCards(d) \/ ReadRents(d) \/ ReadTransactions(d)
    \/ ShowDesk(d) \/ GetDataFails(d) \/ LeaveDesk(d)
    \/ \E p \in TilePays, b \in Bills : MakeTilePayment(d, p, b)

DeskNext ==
    \/ Next /\ UNCHANGED deskVars
    \/ (\E d \in Desks : DeskStep(d)) /\ UNCHANGED vars
    \/ (\E p \in TilePays : TileResult(p)) /\ UNCHANGED vars

DeskSpec == Init /\ DeskInit /\ [][DeskNext]_<<vars, deskVars>>

\* Fairness of the payment page; nobody has to use the desk.
DeskFairSpec == DeskSpec /\ Fairness

------------------------------------------------------------------------------
\* A tile that shows 0, and so has no button, is right for good: however old the
\* page is, the user owes nothing on that bill.
NoButtonMeansSettled ==
    \A d \in Desks, b \in Bills :
        desk[d].seen[b] \in {"free", "zero"} => balance[b] \in {"free", "zero"}

\* A page that shows a bill that was cleared shows the payment that led to it as
\* well, because getData reads the transactions after the bills, and the user's
\* handler writes them in the opposite order.
ZeroHasReceipt ==
    \A d \in Desks, b \in Bills :
        desk[d].pc = "shown" /\ desk[d].seen[b] = "zero" =>
            \E t \in desk[d].receipts :
                checkout[t.payment] = "captured" /\ charge[t.payment].amount # {}

=============================================================================

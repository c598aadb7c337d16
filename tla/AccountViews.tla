----------------------------- MODULE AccountViews -----------------------------
(***************************************************************************)
(* What a user sees of the account beside the payment page: the amount due *)
(* on the home and profile pages (balance_card.dart, profile_page.dart),   *)
(* and the searchable list of payments (transactions.dart).  Both are read *)
(* once, when their page opens.                                            *)
(*                                                                         *)
(* A text in the search field is the set of payments whose ids contain it. *)
(* An amount is a set of bills, as in PaymentForm.                         *)
(***************************************************************************)
EXTENDS PaymentForm

CONSTANTS
    Displays,    \* pages with an amount due, each opened once
    Lists        \* TransactionsPages, each opened once

VARIABLES
    display,     \* the amounts due: _fetchBalance, what it summed and what it set
    listPage     \* the lists: getUsers, the fetched list and filteredUsers

viewVars == <<display, listPage>>

Entries == [payment: Payments, amount: SUBSET Bills]

ViewsTypeOK ==
    /\ display \in [Displays -> [pc: {"unopened", "cards", "rents", "setState", "shown",
                                      "failed", "left"},
                                 total: SUBSET Bills, totalBalance: SUBSET Bills,
                                 issued: SUBSET Bills]]
    /\ listPage \in [Lists -> [pc: {"unopened", "fetching", "arrived", "failed", "left"},
                               fetched: SUBSET Entries,
                               alias: BOOLEAN, filtered: SUBSET Entries,
                               matches: SUBSET Payments, early: BOOLEAN,
                               settled: SUBSET Bills]]

NoDisplay == [pc |-> "unopened", total |-> {}, totalBalance |-> {}, issued |-> {}]
NoList    == [pc |-> "unopened", fetched |-> {}, alias |-> TRUE, filtered |-> {},
              matches |-> Payments, early |-> FALSE, settled |-> {}]

ViewsInit ==
    /\ display = [d \in Displays |-> NoDisplay]
    /\ listPage = [l \in Lists |-> NoList]

------------------------------------------------------------------------------
(* The amount due.  It reads 0.0 until _fetchBalance has set it, and for   *)
(* good when that throws.                                                  *)

\* [issued] is what is owed, cleared or unreadable when the page opens: all bills
\* but the rents that were entered as 0.
OpenDisplay(d) ==
    /\ display[d].pc = "unopened"
    /\ display' = [display EXCEPT ![d].pc = "cards", ![d].issued = Listed(Bills) \ Free]
    /\ UNCHANGED listPage

SumCards(d) ==
    /\ display[d].pc = "cards"
    /\ display' = [display EXCEPT ![d].pc = "rents", ![d].total = Owed \cap Cards]
    /\ UNCHANGED listPage

\* Mutant: a rent that does not parse is skipped.
SumRents_SkipsGarbled(d) ==
    /\ display[d].pc = "rents"
    /\ display' = [display EXCEPT ![d].pc = "setState", ![d].total = @ \cup (Owed \cap Rents)]
    /\ UNCHANGED listPage

\* A rent that does not parse throws.
SumRents(d) ==
    /\ display[d].pc = "rents"
    /\ \/ /\ \E b \in Rents : balance[b] = "garbled"
          /\ display' = [display EXCEPT ![d].pc = "failed"]
       \/ /\ \A b \in Rents : balance[b] # "garbled"
          /\ display' = [display EXCEPT ![d].pc = "setState",
                                        ![d].total = @ \cup (Owed \cap Rents)]
    /\ UNCHANGED listPage

ShowTotal(d) ==
    /\ display[d].pc = "setState"
    /\ display' = [display EXCEPT ![d].pc = "shown", ![d].totalBalance = display[d].total]
    /\ UNCHANGED listPage

SumFails(d) ==
    /\ Faults
    /\ display[d].pc \in {"cards", "rents"}
    /\ display' = [display EXCEPT ![d].pc = "failed"]
    /\ UNCHANGED listPage

\* setState on a page that was left throws: _fetchBalance ends with its page.
LeaveDisplay(d) ==
    /\ display[d].pc \notin {"unopened", "left"}
    /\ display' = [display EXCEPT ![d] = [NoDisplay EXCEPT !.pc = "left"]]
    /\ UNCHANGED listPage

------------------------------------------------------------------------------
(* The list of payments.                                                   *)

\* The bills that the amount due on d leaves out.
LeftOut(d) == IF display[d].pc = "shown" THEN display[d].issued \ display[d].totalBalance
              ELSE {}

\* [settled] is what the user has seen to be settled when the page opens.
OpenList(l) ==
    /\ listPage[l].pc = "unopened"
    /\ listPage' = [listPage EXCEPT ![l].pc = "fetching",
                                    ![l].settled = UNION {LeftOut(d) : d \in Displays}]
    /\ UNCHANGED display

\* Mutant: the field is set to a new list.
GetUsers_NewList(l) ==
    /\ listPage[l].pc = "fetching"
    /\ listPage' = [listPage EXCEPT ![l].pc = "arrived", ![l].fetched = transactions,
                                    ![l].alias = FALSE]
    /\ UNCHANGED display

\* Mutant: the ids are kept in place of the entries.
GetUsers_Ids(l) ==
    /\ listPage[l].pc = "fetching"
    /\ listPage' = [listPage EXCEPT ![l].pc = "arrived",
                                    ![l].fetched = {t.payment : t \in transactions}]
    /\ UNCHANGED display

\* getUsers fills the list in place: it is shown if filteredUsers is still that list.
GetUsers(l) ==
    /\ listPage[l].pc = "fetching"
    /\ listPage' = [listPage EXCEPT ![l].pc = "arrived", ![l].fetched = transactions]
    /\ UNCHANGED display

GetUsersFails(l) ==
    /\ Faults
    /\ listPage[l].pc = "fetching"
    /\ listPage' = [listPage EXCEPT ![l].pc = "failed"]
    /\ UNCHANGED display

\* [alias]: filteredUsers is still the list that getUsers fills.
Shown(l) == IF listPage[l].alias THEN listPage[l].fetched ELSE listPage[l].filtered

Select(entries, matches) == {t \in entries : t.payment \in matches}

\* The search button: filteredUsers becomes a new list of what matches by then
\* ([early]: there was nothing yet).
FilterUsers(l) ==
    /\ listPage[l].pc \in {"fetching", "arrived", "failed"}
    /\ \E matches \in SUBSET Payments :
          listPage' = [listPage EXCEPT
              ![l].alias = FALSE, ![l].filtered = Select(listPage[l].fetched, matches),
              ![l].matches = matches, ![l].early = listPage[l].pc = "fetching"]
    /\ UNCHANGED display

LeaveList(l) ==
    /\ listPage[l].pc \notin {"unopened", "left"}
    /\ listPage' = [listPage EXCEPT ![l] = [NoList EXCEPT !.pc = "left"]]
    /\ UNCHANGED display

------------------------------------------------------------------------------
DisplayStep(d) ==
    OpenDisplay(d) \/ SumCards(d) \/ SumRents(d) \/ ShowTotal(d) \/ SumFails(d) \/ LeaveDisplay(d)

ListStep(l) ==
    OpenList(l) \/ GetUsers(l) \/ GetUsersFails(l) \/ FilterUsers(l) \/ LeaveList(l)

ViewsNext ==
    \/ Next /\ UNCHANGED viewVars
    \/ (\E d \in Displays : DisplayStep(d)) /\ UNCHANGED vars
    \/ (\E l \in Lists : ListStep(l)) /\ UNCHANGED vars

ViewsSpec == Init /\ ViewsInit /\ [][ViewsNext]_<<vars, viewVars>>

------------------------------------------------------------------------------
\* The amount due, once _fetchBalance has set it, leaves out no bill but one that was
\* cleared, although cards and rents are read one after the other and never again: of
\* the bills of when the page was opened, but those entered as 0, each is counted or
\* was cleared by the batches of a payment (which may not have charged it).
LeftOutIsSettled == \A d \in Displays : LeftOut(d) \subseteq Zero

\* A user who saw a bill, entered with an amount, left out of the amount due and opens
\* the list of payments after that finds a captured payment there: the handler writes
\* the receipt before it clears anything, and the two pages read in the opposite order.
SettledHasReceipt ==
    \A l \in Lists : listPage[l].pc = "arrived" /\ listPage[l].settled # {} =>
        \E t \in listPage[l].fetched :
            checkout[t.payment] = "captured" /\ charge[t.payment].amount # {}

\* The list shows what its last search matches among all it fetched, whatever was
\* searched before that; only a search that was quicker than the answer leaves the
\* list empty, and only until the next one.
ListIsSelection ==
    \A l \in Lists : listPage[l].pc = "arrived" =>
        Shown(l) = IF listPage[l].early THEN {}
                   ELSE Select(listPage[l].fetched, listPage[l].matches)

=============================================================================

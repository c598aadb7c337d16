------------------------------ MODULE BillEntry ------------------------------
(***************************************************************************)
(* The forms that enter bills (screens/add_card.dart, screens/add_rent.dart*)
(* ) and the lists they open (screens/display_cards.dart, rent_page.dart). *)
(* A submit awaits one add and then pushes the list; the form stays filled *)
(* and its button stays enabled meanwhile and when the user comes back.    *)
(*                                                                         *)
(* The texts of a form that its validators require are one value.  A rent's*)
(* due date is kept twice: as the form shows it (selectedDate) and as it   *)
(* will be stored (rentData['dueDate']); a card's is a constant.  The date *)
(* picker opens only while today is not after its lastDate.                *)
(***************************************************************************)
EXTENDS FiniteSets, Naturals

CONSTANTS
    CardForms, RentForms,   \* pages AddCards and AddRent, each opened once
    Entries,                \* texts the validators accept
    Dates,                  \* what the date picker returns
    CardDate,               \* the due date every card is stored with
    Submits,                \* taps on the button (bounds them)
    EmptyText, None

ASSUME NamesAssumption ==
    /\ CardForms \cap RentForms = {} /\ None \notin CardForms \cup RentForms
    /\ EmptyText \notin Entries \cup Dates \cup {CardDate} /\ None \notin Dates \cup {EmptyText}

Forms == CardForms \cup RentForms

VARIABLES
    form,      \* the pages and their fields
    stored,    \* the documents of Cards and Rents, named by the submit that added them
    submit,    \* running calls of _onValidate and _submitForm
    list       \* the RentScreen or DisplayCards that each submit opened

vars == <<form, stored, submit, list>>

DueDates == Dates \cup {EmptyText, CardDate}
Docs     == [id: Submits, entry: Entries, due: DueDates]

TypeOK ==
    /\ form \in [Forms -> [life: {"unopened", "mounted", "disposed"},
                           entry: Entries \cup {EmptyText},
                           selectedDate: Dates \cup {None}, due: DueDates]]
    /\ stored \in SUBSET Docs
    /\ submit \in [Submits -> [pc: {"none", "adding", "added", "done", "failed", "noList"},
                               form: Forms \cup {None}, shown: Dates \cup {None},
                               entry: Entries \cup {EmptyText}, due: DueDates]]
    /\ list \in [Submits -> [pc: {"none", "fetching", "shown", "failed"},
                             docs: SUBSET Docs]]

InitForm(f) == [life |-> "unopened", entry |-> EmptyText, selectedDate |-> None,
                due |-> IF f \in CardForms THEN CardDate ELSE EmptyText]

Init ==
    /\ form = [f \in Forms |-> InitForm(f)]
    /\ stored = {}
    /\ submit = [s \in Submits |-> [pc |-> "none", form |-> None, shown |-> None,
                                    entry |-> EmptyText, due |-> EmptyText]]
    /\ list = [s \in Submits |-> [pc |-> "none", docs |-> {}]]

------------------------------------------------------------------------------
OpenForm(f) ==
    /\ form[f].life = "unopened"
    /\ form' = [form EXCEPT ![f].life = "mounted"]
    /\ UNCHANGED <<stored, submit, list>>

Enter(f) ==
    /\ form[f].life = "mounted"
    /\ \E text \in Entries \cup {EmptyText} : form' = [form EXCEPT ![f].entry = text]
    /\ UNCHANGED <<stored, submit, list>>

TypeCard(f) == f \in CardForms /\ Enter(f)

TypeRent(f) == f \in RentForms /\ Enter(f)

\* Mutant: a cancelled dialog clears the shown date and keeps the stored one.
SelectDate_ClearsShown(f) ==
    /\ f \in RentForms /\ form[f].life = "mounted"
    /\ \E picked \in Dates \cup {None} :
          form' = [form EXCEPT ![f] =
              IF picked = None THEN [@ EXCEPT !.selectedDate = None]
              ELSE [@ EXCEPT !.selectedDate = picked, !.due = picked]]
    /\ UNCHANGED <<stored, submit, list>>

\* The dialog is modal.  A new date is shown and kept; a cancelled dialog, or the
\* date it had, keeps the shown date and clears the one to be stored.
SelectDate(f) ==
    /\ f \in RentForms /\ form[f].life = "mounted"
    /\ \E picked \in Dates \cup {None} :
          form' = [form EXCEPT ![f] =
              IF picked \notin {None, @.selectedDate}
              THEN [@ EXCEPT !.selectedDate = picked, !.due = picked]
              ELSE [@ EXCEPT !.due = EmptyText]]
    /\ UNCHANGED <<stored, submit, list>>

LeaveForm(f) ==
    /\ form[f].life = "mounted"
    /\ form' = [form EXCEPT ![f].life = "disposed"]
    /\ UNCHANGED <<stored, submit, list>>

\* add takes a copy of the map; its document is named by the submit.
StartAdd(f, s) ==
    /\ form[f].life = "mounted"
    /\ submit[s].pc = "none"
    /\ submit' = [submit EXCEPT ![s] = [pc |-> "adding", form |-> f,
                     shown |-> form[f].selectedDate, entry |-> form[f].entry, due |-> form[f].due]]
    /\ UNCHANGED <<form, stored, list>>

\* The validators are those of the library's CreditCardForm (external).
SubmitCard(f, s) ==
    /\ f \in CardForms /\ form[f].entry # EmptyText
    /\ StartAdd(f, s)

\* Mutant: the validators of the texts are dropped.
SubmitRent_NoValidator(f, s) == f \in RentForms /\ StartAdd(f, s)

\* The validators ask for the texts, not for a date.
SubmitRent(f, s) ==
    /\ f \in RentForms /\ form[f].entry # EmptyText
    /\ StartAdd(f, s)

\* Mutant: the add is made only if its page is still there.
AddDoc_IfMounted(s) ==
    /\ submit[s].pc = "adding"
    /\ IF form[submit[s].form].life = "mounted"
       THEN stored' = stored \cup {[id |-> s, entry |-> submit[s].entry, due |-> submit[s].due]}
       ELSE UNCHANGED stored
    /\ submit' = [submit EXCEPT ![s].pc = "added"]
    /\ UNCHANGED <<form, list>>

AddDoc(s) ==
    /\ submit[s].pc = "adding"
    /\ stored' = stored \cup {[id |-> s, entry |-> submit[s].entry, due |-> submit[s].due]}
    /\ submit' = [submit EXCEPT ![s].pc = "added"]
    /\ UNCHANGED <<form, list>>

AddFails(s) ==
    /\ submit[s].pc = "adding"
    /\ submit' = [submit EXCEPT ![s].pc = "failed"]
    /\ UNCHANGED <<form, stored, list>>

\* Mutant: the add is not awaited.
OpenList_NoAwait(s) ==
    /\ submit[s].pc \in {"adding", "added"}
    /\ form[submit[s].form].life = "mounted"
    /\ submit' = [submit EXCEPT ![s].pc = "done"]
    /\ list' = [list EXCEPT ![s].pc = "fetching"]
    /\ UNCHANGED <<form, stored>>

\* On a page that is gone the push throws.
OpenList(s) ==
    /\ submit[s].pc = "added"
    /\ \/ /\ form[submit[s].form].life = "mounted"
          /\ submit' = [submit EXCEPT ![s].pc = "done"]
          /\ list' = [list EXCEPT ![s].pc = "fetching"]
       \/ /\ form[submit[s].form].life = "disposed"
          /\ submit' = [submit EXCEPT ![s].pc = "noList"]
          /\ UNCHANGED list
    /\ UNCHANGED <<form, stored>>

Collection(F) == {doc \in stored : submit[doc.id].form \in F}

\* RentScreen reads its rents once.
FetchRents(s) ==
    /\ submit[s].form \in RentForms /\ list[s].pc = "fetching"
    /\ list' = [list EXCEPT ![s] = [pc |-> "shown", docs |-> Collection(RentForms)]]
    /\ UNCHANGED <<form, stored, submit>>

\* DisplayCards listens to its cards.
CardsSnapshot(s) ==
    /\ submit[s].form \in CardForms /\ list[s].pc \in {"fetching", "shown"}
    /\ list' = [list EXCEPT ![s] = [pc |-> "shown", docs |-> Collection(CardForms)]]
    /\ UNCHANGED <<form, stored, submit>>

FetchListFails(s) ==
    /\ list[s].pc = "fetching"
    /\ list' = [list EXCEPT ![s].pc = "failed"]
    /\ UNCHANGED <<form, stored, submit>>

SubmitStep(s) ==
    \/ AddDoc(s) \/ AddFails(s) \/ OpenList(s)
    \/ FetchRents(s) \/ CardsSnapshot(s) \/ FetchListFails(s)

Next ==
    \/ \E f \in Forms :
          \/ OpenForm(f) \/ TypeCard(f) \/ TypeRent(f) \/ SelectDate(f) \/ LeaveForm(f)
          \/ \E s \in Submits : SubmitCard(f, s) \/ SubmitRent(f, s)
    \/ \E s \in Submits : SubmitStep(s)

Spec == Init /\ [][Next]_vars

\* The backend answers each call, with a result or an error, which it does while the
\* user of the forms stays logged in.
FairSpec == Spec /\ \A s \in Submits : WF_vars(SubmitStep(s))

------------------------------------------------------------------------------
\* The list that a submit opens shows what was submitted, although the list of
\* rents is read only once: the add is awaited before it is opened.
ListShowsSubmitted ==
    \A s \in Submits : list[s].pc = "shown" => \E doc \in list[s].docs : doc.id = s

\* However often dates are picked, picked again and cancelled around the submits, a
\* rent is stored with the date its form showed or with none, never another.
DueDateIsShown ==
    \A doc \in stored :
        submit[doc.id].form \in RentForms => doc.due \in {EmptyText, submit[doc.id].shown}

\* What the validators accepted is stored, also when its form is left before the
\* answer, unless the add itself fails; its user stays logged in meanwhile.
AcceptedIsStored ==
    \A s \in Submits :
        submit[s].pc = "adding" ~> \/ \E doc \in stored : doc.id = s
                                  \/ submit[s].pc = "failed"

=============================================================================

--------------------------- MODULE BillEntryProofs ---------------------------
(***************************************************************************)
(* Theorems about BillEntry for any forms, texts, dates and submits.       *)
(* IInv says what each submit has reached: its document once the add has   *)
(* returned (SubmitState), and the date it was started with (DatesAgree).  *)
(***************************************************************************)
EXTENDS BillEntry, TLAPS

(* A document is of a submit whose add has returned, and the other way round;
   a list is of a submit that has ended. *)
SubmitState ==
    /\ \A doc \in stored : submit[doc.id].pc \notin {"none", "adding"}
    /\ \A s \in Submits :
        /\ submit[s].pc \in {"added", "done", "noList"} => \E doc \in stored : doc.id = s
        /\ list[s].pc # "none" => submit[s].pc = "done"
        /\ submit[s].pc # "none" => submit[s].form \in Forms /\ submit[s].entry \in Entries

(* The date to be stored is the one shown or none: in a rent's form, in a submit
   and in a document. *)
DatesAgree ==
    /\ \A f \in RentForms : form[f].due \in {EmptyText, form[f].selectedDate}
    /\ \A s \in Submits :
        submit[s].form \in RentForms => submit[s].due \in {EmptyText, submit[s].shown}
    /\ DueDateIsShown

IInv == TypeOK /\ SubmitState /\ DatesAgree /\ ListShowsSubmitted

FormStep(f) == OpenForm(f) \/ TypeCard(f) \/ TypeRent(f) \/ SelectDate(f) \/ LeaveForm(f)

FormRecs   == [life: {"unopened", "mounted", "disposed"}, entry: Entries \cup {EmptyText},
               selectedDate: Dates \cup {None}, due: DueDates]
SubmitRecs == [pc: {"none", "adding", "added", "done", "failed", "noList"},
               form: Forms \cup {None}, shown: Dates \cup {None},
               entry: Entries \cup {EmptyText}, due: DueDates]
ListRecs   == [pc: {"none", "fetching", "shown", "failed"}, docs: SUBSET Docs]

Types == /\ form \in [Forms -> FormRecs] /\ stored \in SUBSET Docs
         /\ submit \in [Submits -> SubmitRecs] /\ list \in [Submits -> ListRecs]

(* TypeOK with its records named. *)
LEMMA TypesLemma == TypeOK <=> Types
  BY DEF TypeOK, Types, FormRecs, SubmitRecs, ListRecs

------------------------------------------------------------------------------
(* Nothing is submitted at first, and a form shows no date. *)
LEMMA InitInv == Init => IInv
<1> SUFFICES ASSUME Init PROVE IInv
  OBVIOUS
<1> USE NamesAssumption DEF Init, InitForm
<1>1. TypeOK
  BY DEF TypeOK, DueDates, Forms
<1>2. SubmitState
  BY DEF SubmitState
<1>3. DatesAgree
  BY DEF DatesAgree, DueDateIsShown, Forms
<1>4. ListShowsSubmitted
  BY DEF ListShowsSubmitted
<1>5. QED
  BY <1>1, <1>2, <1>3, <1>4 DEF IInv

(* A step of a form changes that form only. *)
LEMMA FormLemma ==
  ASSUME Types, NEW f \in Forms, FormStep(f)
  PROVE  /\ UNCHANGED <<stored, submit, list>>
         /\ \E r \in FormRecs : form' = [form EXCEPT ![f] = r]
<1> USE DEF Types
<1>1. form[f] \in FormRecs
  OBVIOUS
<1>2. CASE OpenForm(f) \/ TypeCard(f) \/ TypeRent(f) \/ LeaveForm(f)
  BY <1>1, <1>2 DEF OpenForm, TypeCard, TypeRent, Enter, LeaveForm, FormRecs
<1>3. CASE SelectDate(f)
  <2>1. PICK picked \in Dates \cup {None} : form' = [form EXCEPT ![f] =
              IF picked \notin {None, @.selectedDate}
              THEN [@ EXCEPT !.selectedDate = picked, !.due = picked]
              ELSE [@ EXCEPT !.due = EmptyText]]
    BY <1>3 DEF SelectDate
  <2>2. [form[f] EXCEPT !.due = EmptyText] \in FormRecs
    BY <1>1 DEF FormRecs, DueDates
  <2>3. picked # None => [form[f] EXCEPT !.selectedDate = picked, !.due = picked] \in FormRecs
    BY <1>1 DEF FormRecs, DueDates
  <2>4. QED
    BY <1>3, <2>1, <2>2, <2>3 DEF SelectDate
<1>4. QED
  BY <1>2, <1>3 DEF FormStep

(* A step of a form leaves the date to be stored the shown one, or clears it. *)
LEMMA FormDates ==
  ASSUME Types, NEW f \in Forms, FormStep(f), DatesAgree, NEW g \in RentForms
  PROVE  form'[g].due \in {EmptyText, form'[g].selectedDate}
<1> USE DEF Types, DatesAgree, Forms
<1>1. g # f => form'[g] = form[g]
  BY FormLemma
<1>2. form[f] \in FormRecs
  OBVIOUS
<1>3. CASE OpenForm(f) \/ TypeCard(f) \/ TypeRent(f) \/ LeaveForm(f)
  <2>1. form'[f].due = form[f].due /\ form'[f].selectedDate = form[f].selectedDate
    BY <1>2, <1>3 DEF OpenForm, TypeCard, TypeRent, Enter, LeaveForm, FormRecs
  <2>2. QED
    BY <1>1, <2>1
<1>4. CASE SelectDate(f)
  <2>1. form'[f].due \in {EmptyText, form'[f].selectedDate}
    BY <1>2, <1>4 DEF SelectDate, FormRecs
  <2>2. QED
    BY <1>1, <2>1
<1>5. QED
  BY <1>3, <1>4 DEF FormStep

(* A submit starts from what its form holds. *)
LEMMA StartLemma ==
  ASSUME Types, NEW f \in Forms, NEW s \in Submits, SubmitCard(f, s) \/ SubmitRent(f, s)
  PROVE  /\ UNCHANGED <<form, stored, list>> /\ submit[s].pc = "none"
         /\ \E r \in SubmitRecs :
              /\ submit' = [submit EXCEPT ![s] = r]
              /\ r.pc = "adding" /\ r.form = f /\ r.entry \in Entries
              /\ r.shown = form[f].selectedDate /\ r.due = form[f].due
<1>1. form[f] \in FormRecs
  BY DEF Types
<1>2. [pc |-> "adding", form |-> f, shown |-> form[f].selectedDate,
       entry |-> form[f].entry, due |-> form[f].due] \in SubmitRecs
  BY <1>1 DEF FormRecs, SubmitRecs
<1>3. form[f].entry # EmptyText => form[f].entry \in Entries
  BY <1>1 DEF FormRecs
<1>4. QED
  BY <1>2, <1>3 DEF SubmitCard, SubmitRent, StartAdd

(* A running submit only moves on: what it was started with stays. *)
LEMMA SubmitLemma ==
  ASSUME Types, NEW s \in Submits, SubmitStep(s)
  PROVE  /\ UNCHANGED form
         /\ submit' \in [Submits -> SubmitRecs]
         /\ \A t \in Submits : /\ submit'[t].form = submit[t].form
                               /\ submit'[t].shown = submit[t].shown
                               /\ submit'[t].entry = submit[t].entry
                               /\ submit'[t].due = submit[t].due
                               /\ t # s => submit'[t] = submit[t]
<1>1. submit[s] \in SubmitRecs
  BY DEF Types
<1>2. ASSUME NEW pc \in {"added", "done", "failed", "noList"},
             submit' = [submit EXCEPT ![s].pc = pc]
      PROVE  /\ submit' \in [Submits -> SubmitRecs]
             /\ \A t \in Submits : /\ submit'[t].form = submit[t].form
                                   /\ submit'[t].shown = submit[t].shown
                                   /\ submit'[t].entry = submit[t].entry
                                   /\ submit'[t].due = submit[t].due
                                   /\ t # s => submit'[t] = submit[t]
  BY <1>1, <1>2 DEF Types, SubmitRecs
<1>3. CASE AddDoc(s) \/ AddFails(s) \/ OpenList(s)
  BY <1>2, <1>3 DEF AddDoc, AddFails, OpenList
<1>4. CASE FetchRents(s) \/ CardsSnapshot(s) \/ FetchListFails(s)
  BY <1>4 DEF FetchRents, CardsSnapshot, FetchListFails, Types
<1>5. QED
  BY <1>3, <1>4 DEF SubmitStep

------------------------------------------------------------------------------
(* Every step keeps every variable in its type. *)
LEMMA TypeStep == Types /\ SubmitState /\ [Next]_vars => Types'
<1> SUFFICES ASSUME Types, SubmitState, [Next]_vars PROVE Types'
  OBVIOUS
<1> USE DEF Types
<1>1. ASSUME NEW f \in Forms, FormStep(f) PROVE Types'
  BY <1>1, FormLemma
<1>2. ASSUME NEW f \in Forms, NEW s \in Submits, SubmitCard(f, s) \/ SubmitRent(f, s)
      PROVE  Types'
  BY <1>2, StartLemma
<1>3. ASSUME NEW s \in Submits, SubmitStep(s) PROVE Types'
  <2>1. submit' \in [Submits -> SubmitRecs] /\ UNCHANGED form
    BY <1>3, SubmitLemma
  <2>2. list[s] \in ListRecs /\ submit[s] \in SubmitRecs
    OBVIOUS
  <2>3. CASE AddDoc(s)
    <3>1. submit[s].entry \in Entries
      BY <2>3 DEF AddDoc, SubmitState
    <3>2. [id |-> s, entry |-> submit[s].entry, due |-> submit[s].due] \in Docs
      BY <2>2, <3>1 DEF Docs, SubmitRecs
    <3>3. QED
      BY <2>1, <2>3, <3>2 DEF AddDoc
  <2>4. CASE AddFails(s) \/ OpenList(s) \/ FetchListFails(s)
    <3>1. list' = list \/ \E r \in ListRecs : list' = [list EXCEPT ![s] = r]
      BY <2>2, <2>4 DEF AddFails, OpenList, FetchListFails, ListRecs
    <3>2. QED
      BY <2>1, <2>4, <3>1 DEF AddFails, OpenList, FetchListFails
  <2>5. CASE FetchRents(s) \/ CardsSnapshot(s)
    <3>1. \E F : list' = [list EXCEPT ![s] = [pc |-> "shown", docs |-> Collection(F)]]
      BY <2>5 DEF FetchRents, CardsSnapshot
    <3>2. \A F : [pc |-> "shown", docs |-> Collection(F)] \in ListRecs
      BY DEF Collection, ListRecs
    <3>3. QED
      BY <2>1, <2>5, <3>1, <3>2 DEF FetchRents, CardsSnapshot
  <2>6. QED
    BY <1>3, <2>3, <2>4, <2>5 DEF SubmitStep
<1>4. QED
  BY <1>1, <1>2, <1>3 DEF Next, FormStep, vars

(* An add that has returned has stored its document, and only then is the list
   opened. *)
LEMMA SubmitStateStep == Types /\ SubmitState /\ [Next]_vars => SubmitState'
<1> SUFFICES ASSUME Types, SubmitState, [Next]_vars PROVE SubmitState'
  OBVIOUS
<1>1. ASSUME NEW f \in Forms, FormStep(f) PROVE SubmitState'
  BY <1>1, FormLemma DEF SubmitState
<1>2. ASSUME NEW f \in Forms, NEW s \in Submits, SubmitCard(f, s) \/ SubmitRent(f, s)
      PROVE  SubmitState'
  <2>1. \A doc \in stored : doc.id # s /\ doc.id \in Submits
    BY <1>2, StartLemma DEF SubmitState, Types, Docs
  <2>2. list[s].pc = "none"
    BY <1>2, StartLemma DEF SubmitState
  <2>3. QED
    BY <1>2, <2>1, <2>2, StartLemma DEF SubmitState, Types
<1>3. ASSUME NEW s \in Submits, SubmitStep(s) PROVE SubmitState'
  <2> USE DEF SubmitState, Types
  <2>1. \A t \in Submits : /\ submit'[t].form = submit[t].form
                           /\ submit'[t].entry = submit[t].entry
                           /\ t # s => submit'[t] = submit[t]
    BY <1>3, SubmitLemma
  <2>2. submit[s] \in SubmitRecs /\ list[s] \in ListRecs
    OBVIOUS
  <2>3. CASE AddDoc(s)
    <3>1. submit[s].pc = "adding" /\ submit'[s].pc = "added" /\ UNCHANGED list
      BY <2>2, <2>3 DEF AddDoc, SubmitRecs
    <3>2. \A doc \in stored' : doc \in stored \/ doc.id = s
      BY <2>3 DEF AddDoc
    <3>3. stored \subseteq stored' /\ \E doc \in stored' : doc.id = s
      <4> DEFINE new == [id |-> s, entry |-> submit[s].entry, due |-> submit[s].due]
      <4>1. stored' = stored \cup {new} /\ new.id = s
        BY <2>3 DEF AddDoc
      <4>2. QED
        BY <4>1
    <3>4. \A doc \in stored : doc.id \in Submits
      BY DEF Docs
    <3>5. QED
      BY <2>1, <3>1, <3>2, <3>3, <3>4
  <2>4. CASE AddFails(s) \/ OpenList(s)
    <3>1. /\ UNCHANGED stored
          /\ \A t \in Submits : t # s => list'[t] = list[t]
          /\ submit[s].pc \in {"adding", "added"}
          /\ submit'[s].pc \notin {"none", "adding"}
          /\ submit'[s].pc \in {"added", "done", "noList"} => submit[s].pc = "added"
          /\ submit'[s].pc # "done" => UNCHANGED list
      BY <2>2, <2>4 DEF AddFails, OpenList, SubmitRecs
    <3>2. \A doc \in stored : doc.id \in Submits
      BY DEF Docs
    <3>3. QED
      BY <2>1, <3>1, <3>2
  <2>5. CASE FetchRents(s) \/ CardsSnapshot(s) \/ FetchListFails(s)
    <3>1. /\ UNCHANGED <<stored, submit>> /\ list[s].pc # "none"
          /\ \A t \in Submits : t # s => list'[t] = list[t]
      BY <2>2, <2>5 DEF FetchRents, CardsSnapshot, FetchListFails
    <3>2. QED
      BY <3>1
  <2>6. QED
    BY <1>3, <2>3, <2>4, <2>5 DEF SubmitStep
<1>4. QED
  BY <1>1, <1>2, <1>3 DEF Next, FormStep, vars, SubmitState

(* A document keeps the date its submit took from the form. *)
LEMMA DatesStep == Types /\ SubmitState /\ DatesAgree /\ [Next]_vars => DatesAgree'
<1> SUFFICES ASSUME Types, SubmitState, DatesAgree, [Next]_vars PROVE DatesAgree'
  OBVIOUS
<1> USE DEF DatesAgree, DueDateIsShown
<1>0. \A doc \in stored : doc.id \in Submits
  BY DEF Types, Docs
<1>1. ASSUME NEW f \in Forms, FormStep(f) PROVE DatesAgree'
  <2>1. \A g \in RentForms : form'[g].due \in {EmptyText, form'[g].selectedDate}
    BY <1>1, FormDates
  <2>2. UNCHANGED <<stored, submit>>
    BY <1>1, FormLemma
  <2>3. QED
    BY <2>1, <2>2
<1>2. ASSUME NEW f \in Forms, NEW s \in Submits, SubmitCard(f, s) \/ SubmitRent(f, s)
      PROVE  DatesAgree'
  <2>1. /\ UNCHANGED <<form, stored>> /\ submit'[s].form = f
        /\ submit'[s].shown = form[f].selectedDate /\ submit'[s].due = form[f].due
        /\ \A t \in Submits : t # s => submit'[t] = submit[t]
    BY <1>2, StartLemma DEF Types
  <2>2. \A doc \in stored : doc.id # s
    BY <1>2, StartLemma DEF SubmitState
  <2>3. QED
    BY <1>0, <2>1, <2>2
<1>3. ASSUME NEW s \in Submits, SubmitStep(s) PROVE DatesAgree'
  <2>1. /\ UNCHANGED form
        /\ \A t \in Submits : /\ submit'[t].form = submit[t].form
                              /\ submit'[t].shown = submit[t].shown
                              /\ submit'[t].due = submit[t].due
    BY <1>3, SubmitLemma
  <2>2. \A doc \in stored' : doc \in stored \/ (doc.id = s /\ doc.due = submit[s].due)
    BY <1>3 DEF SubmitStep, AddDoc, AddFails, OpenList, FetchRents, CardsSnapshot,
                FetchListFails
  <2>3. QED
    BY <1>0, <2>1, <2>2
<1>4. QED
  BY <1>1, <1>2, <1>3 DEF Next, FormStep, vars

(* A list that is opened finds the document: the add was awaited before. *)
LEMMA ListStep == Types /\ SubmitState /\ ListShowsSubmitted /\ [Next]_vars => ListShowsSubmitted'
<1> SUFFICES ASSUME Types, SubmitState, ListShowsSubmitted, [Next]_vars
             PROVE  ListShowsSubmitted'
  OBVIOUS
<1> USE DEF ListShowsSubmitted
<1>1. ASSUME NEW s \in Submits, NEW F,
             list' = [list EXCEPT ![s] = [pc |-> "shown", docs |-> Collection(F)]],
             list[s].pc # "none", submit[s].form \in F
      PROVE  ListShowsSubmitted'
  <2>1. PICK doc \in stored : doc.id = s
    BY <1>1 DEF SubmitState
  <2>2. doc \in Collection(F)
    BY <1>1, <2>1 DEF Collection
  <2>3. QED
    BY <1>1, <2>1, <2>2 DEF Types
<1>2. ASSUME NEW s \in Submits, FetchRents(s) \/ CardsSnapshot(s) PROVE ListShowsSubmitted'
  BY <1>1, <1>2 DEF FetchRents, CardsSnapshot
<1>3. ASSUME NEW s \in Submits, AddDoc(s) \/ AddFails(s) \/ OpenList(s) \/ FetchListFails(s)
      PROVE  ListShowsSubmitted'
  <2>1. \A t \in Submits : list'[t] = list[t] \/ list'[t].pc # "shown"
    BY <1>3 DEF AddDoc, AddFails, OpenList, FetchListFails, Types, ListRecs
  <2>2. QED
    BY <2>1
<1>4. CASE UNCHANGED list
  BY <1>4
<1>5. QED
  BY <1>2, <1>3, <1>4, FormLemma, StartLemma DEF Next, FormStep, SubmitStep, vars

(* IInv is an invariant. *)
LEMMA Invariance == Spec => []IInv
<1>1. IInv /\ [Next]_vars => IInv'
  <2> SUFFICES ASSUME IInv, [Next]_vars PROVE IInv'
    OBVIOUS
  <2>1. Types /\ SubmitState /\ DatesAgree /\ ListShowsSubmitted
    BY TypesLemma DEF IInv
  <2>2. Types' /\ SubmitState' /\ DatesAgree' /\ ListShowsSubmitted'
    BY <2>1, TypeStep, SubmitStateStep, DatesStep, ListStep
  <2>3. Types' => TypeOK'
    BY DEF TypeOK, Types, FormRecs, SubmitRecs, ListRecs
  <2>4. QED
    BY <2>2, <2>3 DEF IInv
<1>2. QED
  BY <1>1, InitInv, PTL DEF Spec

------------------------------------------------------------------------------
(* Forms, submits, documents and lists stay in their types; in particular   *)
(* what is stored always has the texts its validators ask for.              *)
THEOREM TypeCorrect == Spec => []TypeOK
  BY Invariance, PTL DEF IInv

(* The list that a submit opens shows its document, for any number of forms *)
(* and submits that overlap.                                                *)
THEOREM ListShowsSubmittedHolds == Spec => []ListShowsSubmitted
  BY Invariance, PTL DEF IInv

(* A rent is never stored with another date than its form showed when it    *)
(* was submitted.                                                           *)
THEOREM DueDateIsShownHolds == Spec => []DueDateIsShown
  BY Invariance, PTL DEF IInv, DatesAgree

=============================================================================

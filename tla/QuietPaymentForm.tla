--------------------------- MODULE QuietPaymentForm ---------------------------
(***************************************************************************)
(* The payment page used by one patient user on one device without faults: *)
(* a page is opened when nothing runs and left when nothing runs, bills    *)
(* are added while no page is open, PayNow is tapped once the balance is   *)
(* there and the previous payment is finished, and the gateway takes longer*)
(* than the balance call that makePayment starts and does not await.       *)
(* Under these conditions the page implements Dues.                        *)
(***************************************************************************)
EXTENDS PaymentForm

FetchesIdle  == \A c \in Calls : fetch[c].pc = "idle"
HandlersIdle == \A p \in Payments :
    /\ checkout[p] # "open"
    /\ handler[p].pc \notin RunPcs
    /\ checkout[p] = "captured" => handler[p].pc # "none"
Quiet        == FetchesIdle /\ HandlersIdle
NoPage       == \A f \in Forms : page[f] # "mounted"

QuietUserStep ==
    /\ Quiet
    /\ \/ NoPage /\ \E b \in Bills : AddCard(b) \/ AddRent(b)
       \/ NoPage /\ \E f \in Forms, c \in Calls : OpenForm(f, c)
       \/ \E f \in Forms, p \in Payments, c \in Calls : MakePayment(f, p, c)
       \/ \E f \in Forms : PopForm(f)

QuietNext ==
    \/ QuietUserStep
    \/ \E c \in Calls : FetchStep(c)
    \/ FetchesIdle /\ \E p \in Payments : GatewayResult(p) \/ HandlerStep(p)

QuietSpec == Init /\ [][QuietNext]_vars

\* What the gateway has taken for each captured payment, and all it was taken for.
Taken   == {[payment |-> p, amount |-> charge[p].amount] :
                p \in {q \in Payments : checkout[q] = "captured"}}
PaidFor == UNION {t.amount : t \in Taken}

D == INSTANCE Dues WITH due <- Owed \ PaidFor, taken <- Taken, receipts <- transactions

\* Under QuietSpec the page implements Dues: what the gateway takes is exactly what
\* is due at that moment, no bill is taken twice, and what the log records of a
\* payment is what was taken.
ImplementsDues == D!Spec

=============================================================================

--------------------------------- MODULE Dues ---------------------------------
(***************************************************************************)
(* What paying one's dues means: bills fall due one by one, a single       *)
(* payment takes everything that is due, and a receipt says what a payment *)
(* took, no more and no less.                                              *)
(***************************************************************************)
EXTENDS FiniteSets

CONSTANTS Bills, Payments

VARIABLES
    due,        \* the bills that are still to be paid
    taken,      \* the payments made, with what was taken from the user
    receipts    \* those of them that are recorded

duesVars == <<due, taken, receipts>>

Paid == UNION {t.amount : t \in taken}

Init == due = {} /\ taken = {} /\ receipts = {}

Issue(b) ==
    /\ b \notin due \cup Paid
    /\ due' = due \cup {b}
    /\ UNCHANGED <<taken, receipts>>

Take(p) ==
    /\ due # {}
    /\ \A t \in taken : t.payment # p
    /\ taken' = taken \cup {[payment |-> p, amount |-> due]}
    /\ due' = {}
    /\ UNCHANGED receipts

Record ==
    /\ \E t \in taken \ receipts : receipts' = receipts \cup {t}
    /\ UNCHANGED <<due, taken>>

Next == (\E b \in Bills : Issue(b)) \/ (\E p \in Payments : Take(p)) \/ Record

Spec == Init /\ [][Next]_duesVars

=============================================================================

---------------------------- MODULE WriteService ----------------------------
(***************************************************************************)
(* What an awaited write of the app (set, update, batch.commit) promises:  *)
(* the writes of one user are applied in the order they were issued, a     *)
(* write is confirmed only once it is applied, only a write that the       *)
(* backend refuses fails, and a refused write was never applied.  A write  *)
(* that was accepted stays accepted when the app dies; only its awaiting   *)
(* caller is gone.                                                         *)
(***************************************************************************)
EXTENDS Naturals, Sequences

CONSTANTS
    Users,
    Batches,  \* one element per awaited write
    Bad       \* the writes the backend's rules refuse

VARIABLES
    pending,  \* per user, the accepted and unresolved writes, oldest first
    applied,  \* writes the backend has applied
    answer    \* what the caller of each write has seen

Answers == {"none", "waiting", "ok", "error", "lost"}

Elements(s) == {s[i] : i \in DOMAIN s}

Init ==
    /\ pending = [u \in Users |-> <<>>]
    /\ applied = {}
    /\ answer = [b \in Batches |-> "none"]

Accept(u, b) ==
    /\ answer[b] = "none"
    /\ pending' = [pending EXCEPT ![u] = Append(@, b)]
    /\ answer' = [answer EXCEPT ![b] = "waiting"]
    /\ UNCHANGED applied

\* Only when everything before it is applied.
Apply(u) == \E i \in DOMAIN pending[u] :
    /\ Elements(SubSeq(pending[u], 1, i - 1)) \subseteq applied
    /\ pending[u][i] \notin Bad
    /\ applied' = applied \cup {pending[u][i]}
    /\ UNCHANGED <<pending, answer>>

Resolve(u, result) ==
    /\ pending[u] # <<>>
    /\ pending' = [pending EXCEPT ![u] = Tail(@)]
    /\ answer' = [answer EXCEPT ![Head(pending[u])] =
                    IF @ = "waiting" THEN result ELSE @]
    /\ UNCHANGED applied

Confirm(u) == Resolve(u, "ok") /\ Head(pending[u]) \in applied
Refuse(u)  == Resolve(u, "error") /\ Head(pending[u]) \in Bad

Forget ==
    /\ answer' = [b \in Batches |-> IF answer[b] = "waiting" THEN "lost" ELSE answer[b]]
    /\ UNCHANGED <<pending, applied>>

Next ==
    \/ \E u \in Users, b \in Batches : Accept(u, b)
    \/ \E u \in Users : Apply(u) \/ Confirm(u) \/ Refuse(u)
    \/ Forget

Spec == Init /\ [][Next]_<<pending, applied, answer>>

=============================================================================

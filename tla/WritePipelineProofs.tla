------------------------- MODULE WritePipelineProofs -------------------------
(***************************************************************************)
(* Theorems about WritePipeline for any users, writes, length of the       *)
(* pipeline and number of disturbances: its invariants, and that it keeps  *)
(* the promise of WriteService.                                            *)
(***************************************************************************)
EXTENDS WritePipeline, FiniteSetTheorems, SequenceTheorems, TLAPS

(* The writes the app has issued so far. *)
Written == {b \in Batches : answer[b] # "none"}

(* An id is given to one write at least. *)
IdsAreCounted == nextId <= Cardinality(Written) + 1

(* A mutation queue has issued writes in the order of their ids, all of them *)
(* given already. *)
QueueIsOrdered == \A u \in Users :
    /\ \A i \in DOMAIN queue[u] : queue[u][i].id < nextId /\ queue[u][i].batch \in Written
    /\ \A i, j \in DOMAIN queue[u] : i < j => queue[u][i].id < queue[u][j].id

(* No write is queued twice. *)
QueuedOnce == \A u, v \in Users : \A i \in DOMAIN queue[u], j \in DOMAIN queue[v] :
    queue[u][i].batch = queue[v][j].batch => u = v /\ i = j

(* The i-th response answers the i-th write of the pipeline. *)
Answers(i) ==
    \/ responses[i] = pipeline[i].batch /\ responses[i] \in ToSet(applied)
    \/ responses[i] = "refused" /\ i = Len(responses) /\ pipeline[i].batch \in Bad

(* A connection first has the handshake only; after that what is unread of the *)
(* responses and what is unserved of the requests make up the pipeline. *)
ConnectionState ==
    /\ stream # "Open" => ~handshake /\ wire = <<>> /\ responses = <<>>
    /\ stream = "Open" /\ ~handshake =>
          \/ wire = <<"hello">> /\ responses = <<>>
          \/ wire = <<>> /\ responses = <<"hello">>
    /\ handshake =>
          /\ Len(responses) + Len(wire) = Len(pipeline)
          /\ \A i \in DOMAIN responses : Answers(i)
          /\ \A i \in DOMAIN wire : wire[i] = pipeline[Len(responses) + i].batch

(* Stray requests s, with mutation queues q and applied writes a: one that will be *)
(* served is for a write that was applied before, or for one that nothing but the  *)
(* stray requests before it keeps from being applied.                              *)
InOrder(s, q, a) == \A i \in DOMAIN s :
    (\A k \in 1..i : s[k] \notin Bad) =>
        \/ s[i] \in a
        \/ \E u \in Users : \E j \in DOMAIN q[u] :
              /\ q[u][j].batch = s[i]
              /\ \A m \in 1..(j - 1) : q[u][m].batch \in a \cup {s[k] : k \in 1..(i - 1)}

StrayState == InOrder(stray, queue, ToSet(applied))

QueueTypes ==
    /\ queue \in [Users -> Seq(Entries)]
    /\ nextId \in 1..(Cardinality(Batches) + 1)
    /\ callbacks \in [Users -> SUBSET Entries]
    /\ answer \in [Batches -> {"none", "waiting", "ok", "error", "lost"}]

(* What concerns the mutation queues and the callers. *)
QueueInv == QueueTypes /\ IdsAreCounted /\ QueueIsOrdered /\ QueuedOnce /\ CallbackIsOwn

ConnectionTypes ==
    /\ stream \in StreamStates
    /\ handshake \in BOOLEAN /\ idle \in BOOLEAN
    /\ pipeline \in Seq(Entries) /\ Len(pipeline) <= MaxPending
    /\ wire \in Seq(Batches \cup {"hello"})
    /\ responses \in Seq(Batches \cup {"hello", "refused"})

(* What concerns the stream and the pipeline. *)
ConnectionInv == ConnectionTypes /\ PipelineIsHeadOfQueue /\ ConnectionState

(* What concerns the requests that are still under way. *)
StrayInv == stray \in Seq(Batches) /\ StrayState

IInv ==
    /\ TypeOK
    /\ IdsAreCounted
    /\ QueueIsOrdered
    /\ QueuedOnce
    /\ CallbackIsOwn
    /\ PipelineIsHeadOfQueue
    /\ ConnectionState
    /\ StrayState

------------------------------------------------------------------------------

(* The positions of a sequence, and of what Tail, Append, \o and SubSeq make *)
(* of it. *)
LEMMA Positions ==
  ASSUME NEW S, NEW s \in Seq(S)
  PROVE  /\ Len(s) \in Nat /\ DOMAIN s = 1..Len(s)
         /\ \A i \in 1..Len(s) : s[i] \in S
         /\ s = <<>> <=> Len(s) = 0
  BY LenProperties, ElementOfSeq, EmptySeq

LEMMA TailPositions ==
  ASSUME NEW S, NEW s \in Seq(S), s # <<>>
  PROVE  /\ Tail(s) \in Seq(S) /\ Len(Tail(s)) = Len(s) - 1 /\ Head(s) = s[1]
         /\ Len(s) >= 1
         /\ \A i \in 1..(Len(s) - 1) : Tail(s)[i] = s[i + 1]
<1>1. Len(s) \in Nat /\ Len(s) # 0
  BY Positions
<1>2. Tail(s) \in Seq(S) /\ Len(Tail(s)) = Len(s) - 1
  BY HeadTailProperties
<1>3. Tail(s) = SubSeq(s, 2, Len(s))
  BY TailIsSubSeq
<1>4. \A i \in 2..Len(s) : s[i] \in S
  BY <1>1, Positions
<1>5. \A i \in 1..(Len(s) - 2 + 1) : SubSeq(s, 2, Len(s))[i] = s[2 + i - 1]
  BY <1>1, <1>4, SubSeqProperties
<1>6. \A i \in 1..(Len(s) - 1) : Tail(s)[i] = s[i + 1]
  BY <1>1, <1>3, <1>5
<1> QED
  BY <1>1, <1>2, <1>6

LEMMA ContentPositions ==
  ASSUME NEW s \in Seq(Entries)
  PROVE  /\ Content(s) \in Seq(Batches) /\ Len(Content(s)) = Len(s)
         /\ \A i \in 1..Len(s) : Content(s)[i] = s[i].batch
<1>1. Len(s) \in Nat /\ DOMAIN s = 1..Len(s) /\ \A i \in 1..Len(s) : s[i] \in Entries
  BY Positions
<1>2. Content(s) \in [1..Len(s) -> Batches]
  BY <1>1 DEF Content, Entries
<1>3. Content(s) \in Seq(Batches)
  BY <1>1, <1>2, SeqDef
<1>4. Len(Content(s)) = Len(s)
  <2>1. DOMAIN Content(s) = 1..Len(s)
    BY <1>2
  <2>2. DOMAIN Content(s) = 1..Len(Content(s)) /\ Len(Content(s)) \in Nat
    BY <1>3, Positions
  <2> QED
    BY <1>1, <2>1, <2>2
<1> QED
  BY <1>1, <1>3, <1>4 DEF Content

LEMMA PrefixPositions ==
  ASSUME NEW S, NEW s \in Seq(S), NEW t \in Seq(S)
  PROVE  IsPrefix(s, t) <=> Len(s) <= Len(t) /\ \A i \in 1..Len(s) : s[i] = t[i]
<1>1. /\ Len(s) \in Nat /\ Len(t) \in Nat
      /\ \A i \in 1..Len(s) : s[i] \in S
      /\ \A i \in 1..Len(t) : t[i] \in S
  BY Positions
<1>2. SubSeq(s, 1, Len(s)) = s
  BY SubSeqFull
<1>3. CASE Len(s) <= Len(t)
  <2> DEFINE u == SubSeq(t, 1, Len(s))
  <2>1. u \in Seq(S) /\ Len(u) = Len(s) /\ \A i \in 1..Len(s) : u[i] = t[i]
    <3>1. \A i \in 1..Len(s) : t[i] \in S
      BY <1>1, <1>3
    <3>2. /\ u \in Seq(S) /\ Len(u) = IF 1 <= Len(s) THEN Len(s) - 1 + 1 ELSE 0
          /\ \A i \in 1..(Len(s) - 1 + 1) : u[i] = t[1 + i - 1]
      BY <1>1, <3>1, SubSeqProperties
    <3> QED
      BY <1>1, <3>2
  <2>2. s = u <=> \A i \in 1..Len(s) : s[i] = u[i]
    BY <2>1, SeqEqual
  <2> QED
    BY <1>2, <1>3, <2>1, <2>2 DEF IsPrefix
<1> QED
  BY <1>3 DEF IsPrefix

LEMMA EmptyPrefix ==
  ASSUME NEW S, NEW t \in Seq(S)
  PROVE  IsPrefix(<<>>, t)
<1>1. \A s \in Seq(S) : Len(s) = 0 => IsPrefix(s, t)
  <2> TAKE s \in Seq(S)
  <2> HAVE Len(s) = 0
  <2>1. Len(s) <= Len(t) /\ \A i \in 1..Len(s) : s[i] = t[i]
    BY Positions
  <2> QED
    BY <2>1, PrefixPositions
<1>2. <<>> \in Seq(S) /\ Len(<<>>) = 0
  BY EmptySeq
<1> QED
  BY <1>1, <1>2, Zenon

------------------------------------------------------------------------------
(* The smaller of two numbers. *)
LEMMA MinPair ==
  ASSUME NEW a \in Int, NEW b \in Int
  PROVE  Min({a, b}) = IF a <= b THEN a ELSE b
<1> DEFINE m == IF a <= b THEN a ELSE b
<1>1. m \in {a, b} /\ \A y \in {a, b} : m <= y
  OBVIOUS
<1>2. \A x \in {a, b} : (\A y \in {a, b} : x <= y) => x = m
  OBVIOUS
<1>3. Min({a, b}) \in {a, b} /\ \A y \in {a, b} : Min({a, b}) <= y
  BY <1>1 DEF Min
<1> QED
  BY <1>2, <1>3

(* A bounded set of numbers has a largest one. *)
LEMMA MaxOf ==
  ASSUME NEW bound \in Nat, NEW S \in SUBSET (0..bound), S # {}
  PROVE  Max(S) \in S /\ \A x \in S : x <= Max(S)
<1> DEFINE T == {bound - x : x \in S}
<1>1. \A x \in S : x \in Int /\ bound - x \in Nat
  OBVIOUS
<1>2. T \subseteq Nat /\ T # {}
  BY <1>1
<1> HIDE DEF T
<1>3. PICK n \in T : \A y \in T : ~ (<<y, n>> \in OpToRel(<, Nat))
  BY <1>2, WFMin, NatLessThanWellFounded, Zenon
<1>4. \A y \in T : n <= y
  <2> TAKE y \in T
  <2>1. y \in Nat /\ n \in Nat
    BY <1>2
  <2>2. y < n => <<y, n>> \in OpToRel(<, Nat)
    BY <2>1 DEF OpToRel
  <2>3. ~ (y < n)
    BY <2>2, <1>3, Zenon
  <2> QED
    BY <2>1, <2>3
<1>5. PICK x \in S : n = bound - x
  BY DEF T
<1>6. \A z \in S : x >= z
  <2> TAKE z \in S
  <2>1. n <= bound - z
    BY <1>4 DEF T
  <2> QED
    BY <2>1, <1>1, <1>5
<1>7. Max(S) \in S /\ \A z \in S : Max(S) >= z
  BY <1>6 DEF Max
<1> QED
  BY <1>7, <1>1

LEMMA EntryIds ==
  /\ Cardinality(Batches) \in Nat
  /\ \A e \in Entries : e.id \in Nat /\ e.id >= 1 /\ e.batch \in Batches
<1>1. Cardinality(Batches) \in Nat
  BY FiniteAssumption, FS_CardinalityType
<1> QED
  BY <1>1 DEF Entries

Ordered(q) == \A i, j \in DOMAIN q : i < j => q[i].id < q[j].id

(* What is taken from the queue follows what was taken before. *)
LEMMA NextFollows ==
  ASSUME NEW p \in Seq(Entries), NEW q \in Seq(Entries), Ordered(q), IsPrefix(p, q)
  PROVE  NextMutationBatchAfter(q, LastRetrieved(p)) = Len(p) + 1
<1> DEFINE n == Len(p)
<1>1. /\ n \in Nat /\ n <= Len(q) /\ Len(q) \in Nat /\ DOMAIN q = 1..Len(q)
      /\ \A i \in 1..n : p[i] = q[i]
      /\ \A i \in 1..Len(q) : q[i].id \in Nat /\ q[i].id >= 1
      /\ p = <<>> <=> n = 0
  <2>1. \A i \in 1..Len(q) : q[i] \in Entries
    BY Positions
  <2>2. \A i \in 1..Len(q) : q[i].id \in Nat /\ q[i].id >= 1
    BY <2>1, EntryIds
  <2> QED
    BY <2>2, Positions, PrefixPositions
<1>2. {i \in DOMAIN q : q[i].id <= LastRetrieved(p)} = 1..n
  <2>1. CASE n = 0
    BY <1>1, <2>1 DEF LastRetrieved
  <2>2. CASE n # 0
    <3>1. LastRetrieved(p) = q[n].id
      BY <1>1, <2>2 DEF LastRetrieved, Last
    <3>2. \A i \in 1..Len(q) : q[i].id <= q[n].id <=> i <= n
      BY <1>1, <2>2 DEF Ordered
    <3> QED
      BY <1>1, <3>1, <3>2
  <2> QED
    BY <2>1, <2>2
<1>3. Cardinality(1..n) = n
  <2>1. 1 \in Int /\ n \in Int
    BY <1>1
  <2>2. Cardinality(1..n) = IF 1 > n THEN 0 ELSE n - 1 + 1
    BY <2>1, FS_Interval, Zenon
  <2> QED
    BY <1>1, <2>2
<1> QED
  BY <1>2, <1>3 DEF NextMutationBatchAfter

(* FillWritePipeline makes the pipeline the head of the queue, as long as *)
(* kMaxPendingWrites allows. *)
LEMMA RefillFacts ==
  ASSUME NEW p \in Seq(Entries), NEW q \in Seq(Entries), Ordered(q), IsPrefix(p, q),
         Len(p) <= MaxPending
  PROVE  LET n == IF Len(q) <= MaxPending THEN Len(q) ELSE MaxPending
             more == Refill(p, q)
         IN
         /\ n \in Nat /\ Len(p) <= n
         /\ more \in Seq(Entries) /\ Len(more) = n - Len(p)
         /\ \A i \in 1..(n - Len(p)) : more[i] = q[Len(p) + i]
         /\ p \o more \in Seq(Entries) /\ Len(p \o more) = n
         /\ \A i \in 1..n : (p \o more)[i] = q[i]
<1> DEFINE n == IF Len(q) <= MaxPending THEN Len(q) ELSE MaxPending
           L == Len(p)
           more == Refill(p, q)
<1>1. /\ L \in Nat /\ Len(q) \in Nat /\ L <= Len(q) /\ MaxPending \in Nat
      /\ \A i \in 1..L : p[i] = q[i]
      /\ \A i \in 1..Len(q) : q[i] \in Entries
  BY Positions, PrefixPositions, MaxPendingAssumption
<1>2. n \in Nat /\ L <= n /\ n <= Len(q)
  BY <1>1
<1>3. Min({Len(q), L + 1 + MaxPending - L - 1}) = n
  <2>1. L + 1 + MaxPending - L - 1 = MaxPending
    BY <1>1
  <2> QED
    BY <1>1, <2>1, MinPair
<1>4. more = SubSeq(q, L + 1, n)
  BY <1>3, NextFollows DEF Refill
<1> HIDE DEF more, n
<1>5. /\ more \in Seq(Entries) /\ Len(more) = n - L
      /\ \A i \in 1..(n - L) : more[i] = q[L + i]
  <2>1. \A i \in (L + 1)..n : q[i] \in Entries
    BY <1>1, <1>2
  <2>2. /\ SubSeq(q, L + 1, n) \in Seq(Entries)
        /\ Len(SubSeq(q, L + 1, n)) = IF L + 1 <= n THEN n - (L + 1) + 1 ELSE 0
        /\ \A i \in 1..(n - (L + 1) + 1) : SubSeq(q, L + 1, n)[i] = q[L + 1 + i - 1]
    BY <1>1, <1>2, <2>1, SubSeqProperties
  <2> QED
    BY <1>1, <1>2, <1>4, <2>2
<1>6. /\ p \o more \in Seq(Entries) /\ Len(p \o more) = L + Len(more)
      /\ \A i \in 1..(L + Len(more)) : (p \o more)[i] = IF i <= L THEN p[i] ELSE more[i - L]
  BY <1>5, ConcatProperties
<1>7. \A i \in 1..n : (p \o more)[i] = q[i]
  BY <1>1, <1>2, <1>5, <1>6
<1> QED
  BY <1>1, <1>2, <1>5, <1>6, <1>7 DEF more, n

(* What is acknowledged or refused is the front of the queue. *)
LEMMA DequeueFront ==
  ASSUME NEW q \in Seq(Entries), q # <<>>, Ordered(q)
  PROVE  Dequeue(q, q[1].id) = Tail(q)
<1> DEFINE I == {i \in 1..Len(q) : q[i].id = q[1].id}
<1>1. /\ Len(q) \in Nat /\ Len(q) >= 1 /\ DOMAIN q = 1..Len(q)
      /\ \A i \in 1..Len(q) : q[i] \in Entries
  BY Positions
<1>2. I = {1}
  <2>1. \A i \in 1..Len(q) : i # 1 => q[1].id < q[i].id
    BY <1>1 DEF Ordered
  <2>2. \A i \in 1..Len(q) : q[i].id \in Nat
    BY <1>1, EntryIds
  <2> QED
    BY <1>1, <2>1, <2>2
<1>3. Min(I) = 1
  <2>1. Min({1}) = 1
    BY DEF Min
  <2> QED
    BY <1>2, <2>1
<1>4. Dequeue(q, q[1].id) = RemoveAt(q, Min(I))
  <2>1. \E i \in 1..Len(q) : q[i].id = q[1].id
    BY <1>1
  <2> QED
    BY <1>2, <2>1 DEF Dequeue, RemoveFirstMatch, SelectInSeq
<1>5. RemoveAt(q, 1) = SubSeq(q, 1, 0) \o SubSeq(q, 2, Len(q))
  BY DEF RemoveAt
<1>6. SubSeq(q, 1, 0) = <<>>
  BY SubSeqEmpty
<1>7. SubSeq(q, 2, Len(q)) = Tail(q) /\ Tail(q) \in Seq(Entries)
  BY TailIsSubSeq, HeadTailProperties
<1> QED
  BY <1>3, <1>4, <1>5, <1>6, <1>7, ConcatEmptySeq

Requests  == Batches \cup {"hello"}
Responses == Batches \cup {"hello", "refused"}

(* How far the pipeline gets in a queue of this length. *)
Reach(q) == IF Len(q) <= MaxPending THEN Len(q) ELSE MaxPending

(* What FillWritePipeline does, position by position. *)
Fills(p, q, s, w) ==
    /\ pipeline' \in Seq(Entries) /\ Len(pipeline') = Reach(q) /\ Reach(q) \in Nat
    /\ Len(p) <= Reach(q) /\ Reach(q) <= MaxPending /\ Reach(q) <= Len(q)
    /\ \A i \in 1..Reach(q) : pipeline'[i] = q[i]
    /\ IsPrefix(pipeline', q)
    /\ Reach(q) = 0 <=> q = <<>>
    /\ stream' = IF Reach(q) # 0 /\ ~Started(s) THEN Start(s) ELSE s
    /\ idle' = (s = "Open" /\ (Reach(q) = 0 \/ (idle /\ ~(handshake /\ Len(p) < Reach(q)))))
    /\ wire' \in Seq(Requests)
    /\ ~(s = "Open" /\ handshake) => wire' = w
    /\ s = "Open" /\ handshake =>
          /\ Len(wire') = Len(w) + Reach(q) - Len(p)
          /\ \A i \in 1..Len(w) : wire'[i] = w[i]
          /\ \A i \in (Len(w) + 1)..Len(wire') : wire'[i] = q[Len(p) + i - Len(w)].batch

LEMMA FillFacts ==
  ASSUME NEW p \in Seq(Entries), NEW q \in Seq(Entries), Ordered(q), IsPrefix(p, q),
         Len(p) <= MaxPending, NEW w \in Seq(Requests), NEW s,
         FillWritePipeline(p, q, s, w)
  PROVE  Fills(p, q, s, w)
<1> DEFINE n == Reach(q)
           more == Refill(p, q)
           send == s = "Open" /\ handshake /\ more # <<>>
<1>1. /\ n \in Nat /\ Len(p) <= n
      /\ more \in Seq(Entries) /\ Len(more) = n - Len(p)
      /\ \A i \in 1..(n - Len(p)) : more[i] = q[Len(p) + i]
      /\ p \o more \in Seq(Entries) /\ Len(p \o more) = n
      /\ \A i \in 1..n : (p \o more)[i] = q[i]
  BY RefillFacts DEF Reach
<1>2. /\ pipeline' = p \o more
      /\ wire' = IF send THEN w \o Content(more) ELSE w
      /\ idle' = (s = "Open" /\ (p \o more = <<>> \/ (idle /\ ~send)))
      /\ stream' = IF p \o more # <<>> /\ ~Started(s) THEN Start(s) ELSE s
  BY DEF FillWritePipeline
<1> HIDE DEF more
<1>3. /\ Len(p) \in Nat /\ Len(q) \in Nat /\ Len(w) \in Nat /\ q = <<>> <=> Len(q) = 0
      /\ p \o more = <<>> <=> n = 0
      /\ more = <<>> <=> Len(p) = n
  BY <1>1, Positions
<1>4. n <= MaxPending /\ n <= Len(q) /\ (n = 0 <=> q = <<>>)
  BY <1>3, MaxPendingAssumption DEF Reach
<1>5. IsPrefix(pipeline', q)
  BY <1>1, <1>2, <1>4, PrefixPositions
<1>6. idle' = (s = "Open" /\ (n = 0 \/ (idle /\ ~(handshake /\ Len(p) < n))))
  BY <1>1, <1>2, <1>3
<1>7. stream' = IF n # 0 /\ ~Started(s) THEN Start(s) ELSE s
  BY <1>2, <1>3
<1>8. /\ w \o Content(more) \in Seq(Requests)
      /\ Len(w \o Content(more)) = Len(w) + n - Len(p)
      /\ \A i \in 1..Len(w) : (w \o Content(more))[i] = w[i]
      /\ \A i \in (Len(w) + 1)..(Len(w) + n - Len(p)) :
            (w \o Content(more))[i] = q[Len(p) + i - Len(w)].batch
  <2>1. /\ Content(more) \in Seq(Batches) /\ Len(Content(more)) = n - Len(p)
        /\ \A i \in 1..(n - Len(p)) : Content(more)[i] = q[Len(p) + i].batch
    BY <1>1, ContentPositions, SMTT(30)
  <2>2. Content(more) \in Seq(Requests)
    BY <2>1, SeqMonotonic DEF Requests
  <2> DEFINE c == Content(more)
  <2>3. /\ w \o c \in Seq(Requests) /\ Len(w \o c) = Len(w) + Len(c)
        /\ \A i \in 1..(Len(w) + Len(c)) : (w \o c)[i] = IF i <= Len(w) THEN w[i] ELSE c[i - Len(w)]
    BY <2>2, ConcatProperties
  <2> HIDE DEF c, n
  <2>4. Len(c) = n - Len(p) /\ \A i \in 1..(n - Len(p)) : c[i] = q[Len(p) + i].batch
    BY <2>1 DEF c
  <2>5. ASSUME NEW i \in (Len(w) + 1)..(Len(w) + n - Len(p))
        PROVE  (w \o c)[i] = q[Len(p) + i - Len(w)].batch
    <3>1. /\ i \in Int /\ i > Len(w) /\ i - Len(w) \in 1..(n - Len(p))
          /\ i \in 1..(Len(w) + Len(c)) /\ Len(p) + (i - Len(w)) = Len(p) + i - Len(w)
      BY <1>1, <1>3, <2>4
    <3>2. (w \o c)[i] = c[i - Len(w)]
      BY <2>3, <3>1, <1>3
    <3> QED
      BY <2>4, <3>1, <3>2
  <2>6. \A i \in 1..Len(w) : (w \o c)[i] = w[i]
    BY <1>1, <1>3, <2>3, <2>4
  <2>7. Len(w) + Len(c) = Len(w) + n - Len(p)
    BY <1>1, <1>3, <2>4
  <2> QED
    BY <2>3, <2>5, <2>6, <2>7 DEF c
<1>9. s = "Open" /\ handshake /\ ~send =>
         /\ Len(w) = Len(w) + n - Len(p)
         /\ \A i \in (Len(w) + 1)..Len(w) : w[i] = q[Len(p) + i - Len(w)].batch
  BY <1>3
<1>10. wire' \in Seq(Requests) /\ (~(s = "Open" /\ handshake) => wire' = w)
  BY <1>2, <1>8
<1>11. s = "Open" /\ handshake =>
          /\ Len(wire') = Len(w) + n - Len(p)
          /\ \A i \in 1..Len(w) : wire'[i] = w[i]
          /\ \A i \in (Len(w) + 1)..Len(wire') : wire'[i] = q[Len(p) + i - Len(w)].batch
  <2>1. CASE send
    BY <1>2, <1>8, <2>1
  <2>2. CASE ~send
    BY <1>2, <1>9, <2>2
  <2> QED
    BY <2>1, <2>2
<1> QED
  BY <1>1, <1>2, <1>4, <1>5, <1>6, <1>7, <1>10, <1>11 DEF Fills

------------------------------------------------------------------------------
(* What the invariant says of positions. *)
LEMMA QueueFacts ==
  ASSUME IInv
  PROVE  /\ user \in Users
         /\ \A u \in Users :
              /\ queue[u] \in Seq(Entries) /\ Ordered(queue[u])
              /\ Len(queue[u]) \in Nat /\ DOMAIN queue[u] = 1..Len(queue[u])
              /\ \A i \in 1..Len(queue[u]) :
                    queue[u][i] \in Entries /\ queue[u][i].id < nextId /\ queue[u][i].batch \in Written
<1>1. user \in Users /\ \A u \in Users : queue[u] \in Seq(Entries)
  BY DEF IInv, TypeOK
<1>2. \A u \in Users : /\ Len(queue[u]) \in Nat /\ DOMAIN queue[u] = 1..Len(queue[u])
                       /\ \A i \in 1..Len(queue[u]) : queue[u][i] \in Entries
  BY <1>1, Positions
<1> QED
  BY <1>1, <1>2 DEF IInv, QueueIsOrdered, Ordered

LEMMA PipelineFacts ==
  ASSUME IInv
  PROVE  /\ pipeline \in Seq(Entries) /\ Len(pipeline) \in Nat /\ DOMAIN pipeline = 1..Len(pipeline)
         /\ Len(pipeline) <= MaxPending /\ Len(pipeline) <= Len(queue[user])
         /\ IsPrefix(pipeline, queue[user])
         /\ \A i \in 1..Len(pipeline) : pipeline[i] = queue[user][i]
         /\ wire \in Seq(Requests) /\ Len(wire) \in Nat /\ DOMAIN wire = 1..Len(wire)
         /\ responses \in Seq(Responses) /\ Len(responses) \in Nat
         /\ DOMAIN responses = 1..Len(responses)
         /\ stray \in Seq(Batches) /\ Len(stray) \in Nat /\ DOMAIN stray = 1..Len(stray)
         /\ applied \in Seq(Batches)
<1>1. /\ pipeline \in Seq(Entries) /\ Len(pipeline) <= MaxPending
      /\ wire \in Seq(Requests) /\ responses \in Seq(Responses) /\ stray \in Seq(Batches)
      /\ applied \in Seq(Batches) /\ IsPrefix(pipeline, queue[user])
  BY DEF IInv, TypeOK, Requests, Responses, PipelineIsHeadOfQueue
<1>2. queue[user] \in Seq(Entries)
  BY QueueFacts
<1>3. Len(pipeline) <= Len(queue[user]) /\ \A i \in 1..Len(pipeline) : pipeline[i] = queue[user][i]
  BY <1>1, <1>2, PrefixPositions
<1> QED
  BY <1>1, <1>3, Positions

(* A restart of the network starts from an empty connection. *)
LEMMA RestartFacts ==
  ASSUME IInv, NEW u \in Users, RestartNetwork(queue[u])
  PROVE  /\ Fills(<<>>, queue[u], "Initial", <<>>)
         /\ handshake' = FALSE /\ idle' = FALSE
         /\ responses' = <<>> /\ wire' = <<>>
         /\ stream' = IF Reach(queue[u]) # 0 THEN "Starting" ELSE "Initial"
<1>1. FillWritePipeline(<<>>, queue[u], "Initial", <<>>) /\ handshake' = FALSE /\ responses' = <<>>
  BY DEF RestartNetwork, Abandon
<1>2. /\ <<>> \in Seq(Entries) /\ <<>> \in Seq(Requests) /\ Len(<<>>) = 0
  BY EmptySeq
<1>3. queue[u] \in Seq(Entries) /\ Ordered(queue[u]) /\ Len(queue[u]) \in Nat
  BY QueueFacts
<1>4. IsPrefix(<<>>, queue[u])
  BY <1>3, EmptyPrefix, Zenon
<1>5. Fills(<<>>, queue[u], "Initial", <<>>)
  <2>1. Len(<<>>) <= MaxPending
    BY <1>2, MaxPendingAssumption
  <2> QED
    BY <1>1, <1>2, <1>3, <1>4, <2>1, FillFacts, Zenon
<1> QED
  BY <1>1, <1>5 DEF Fills, Started, Start

(* What is answered is the front of the pipeline and of the queue. *)
LEMMA FrontFacts ==
  ASSUME IInv, pipeline # <<>>
  PROVE  LET q == queue[user] IN
         /\ Len(pipeline) >= 1 /\ q # <<>> /\ Len(q) >= 1
         /\ Head(pipeline) = q[1] /\ pipeline[1] = q[1]
         /\ Dequeue(q, Head(pipeline).id) = Tail(q)
         /\ Tail(q) \in Seq(Entries) /\ Len(Tail(q)) = Len(q) - 1 /\ Ordered(Tail(q))
         /\ \A i \in 1..(Len(q) - 1) : Tail(q)[i] = q[i + 1]
         /\ Tail(pipeline) \in Seq(Entries) /\ Len(Tail(pipeline)) = Len(pipeline) - 1
         /\ IsPrefix(Tail(pipeline), Tail(q))
<1> DEFINE q == queue[user]
<1>1. /\ q \in Seq(Entries) /\ Ordered(q) /\ Len(q) \in Nat /\ DOMAIN q = 1..Len(q)
      /\ pipeline \in Seq(Entries) /\ Len(pipeline) \in Nat /\ Len(pipeline) <= Len(q)
      /\ \A i \in 1..Len(pipeline) : pipeline[i] = q[i]
  BY QueueFacts, PipelineFacts
<1> HIDE DEF q
<1>2. /\ Tail(pipeline) \in Seq(Entries) /\ Len(Tail(pipeline)) = Len(pipeline) - 1
      /\ Head(pipeline) = pipeline[1] /\ Len(pipeline) >= 1
      /\ \A i \in 1..(Len(pipeline) - 1) : Tail(pipeline)[i] = pipeline[i + 1]
  BY <1>1, TailPositions
<1>3. q # <<>> /\ pipeline[1] = q[1]
  BY <1>1, <1>2, Positions
<1>4. /\ Tail(q) \in Seq(Entries) /\ Len(Tail(q)) = Len(q) - 1 /\ Len(q) >= 1
      /\ \A i \in 1..(Len(q) - 1) : Tail(q)[i] = q[i + 1]
  BY <1>1, <1>3, TailPositions
<1>5. Dequeue(q, Head(pipeline).id) = Tail(q)
  BY <1>1, <1>2, <1>3, DequeueFront
<1>6. DOMAIN Tail(q) = 1..(Len(q) - 1)
  BY <1>4, Positions
<1>7. Ordered(Tail(q))
  <2> SUFFICES ASSUME NEW i \in 1..(Len(q) - 1), NEW j \in 1..(Len(q) - 1), i < j
               PROVE  Tail(q)[i].id < Tail(q)[j].id
    BY <1>6 DEF Ordered
  <2>1. i + 1 \in DOMAIN q /\ j + 1 \in DOMAIN q /\ i + 1 < j + 1
    BY <1>1
  <2> QED
    BY <1>1, <1>4, <2>1 DEF Ordered
<1>8. IsPrefix(Tail(pipeline), Tail(q))
  <2> DEFINE r == Tail(pipeline)
             s == Tail(q)
  <2>1. /\ r \in Seq(Entries) /\ Len(r) = Len(pipeline) - 1
        /\ s \in Seq(Entries) /\ Len(s) = Len(q) - 1
        /\ \A i \in 1..(Len(pipeline) - 1) : r[i] = pipeline[i + 1]
        /\ \A i \in 1..(Len(q) - 1) : s[i] = q[i + 1]
    BY <1>2, <1>4
  <2> HIDE DEF r, s
  <2>2. Len(r) <= Len(s) /\ \A i \in 1..Len(r) : r[i] = s[i]
    BY <1>1, <2>1
  <2>3. IsPrefix(r, s)
    BY <2>1, <2>2, PrefixPositions
  <2> QED
    BY <2>3 DEF r, s
<1> QED
  BY <1>2, <1>3, <1>4, <1>5, <1>7, <1>8 DEF q

(* The caller of that write is answered if it still waits, and nobody else: *)
(* ids are reused, but not while a callback is there. *)
LEMMA NotifyFacts ==
  ASSUME IInv, pipeline # <<>>, NEW result, NotifyUser(Head(pipeline).id, result)
  PROVE  LET e == queue[user][1] IN
         /\ answer' = [answer EXCEPT ![e.batch] = IF answer[e.batch] = "waiting" THEN result
                                                  ELSE answer[e.batch]]
         /\ callbacks' = [callbacks EXCEPT ![user] = callbacks[user] \ {e}]
<1> DEFINE q == queue[user]
           e == q[1]
           found == {c \in callbacks[user] : c.id = Head(pipeline).id}
<1>1. /\ q \in Seq(Entries) /\ Ordered(q) /\ Len(q) \in Nat /\ DOMAIN q = 1..Len(q) /\ Len(q) >= 1
      /\ Head(pipeline) = e /\ user \in Users /\ e \in Entries
      /\ \A i \in 1..Len(q) : q[i].id \in Nat
  BY QueueFacts, FrontFacts, EntryIds
<1>2. /\ callbacks \in [Users -> SUBSET Entries]
      /\ answer \in [Batches -> {"none", "waiting", "ok", "error", "lost"}]
      /\ callbacks[user] \subseteq ToSet(q)
  BY <1>1 DEF IInv, TypeOK, CallbackIsOwn
<1>3. ASSUME NEW c \in callbacks[user], c.id = e.id PROVE c = e
  <2>1. PICK i \in 1..Len(q) : c = q[i]
    BY <1>1, <1>2 DEF ToSet
  <2>2. i # 1 => q[1].id < q[i].id
    BY <1>1 DEF Ordered
  <2> QED
    BY <1>1, <1>3, <2>1, <2>2
<1>4. found = callbacks[user] \cap {e}
  BY <1>1, <1>3
<1>5. e \in callbacks[user] <=> answer[e.batch] = "waiting"
  <2>1. e \in callbacks[user] => answer[e.batch] = "waiting"
    BY <1>1 DEF IInv, CallbackIsOwn, Entries
  <2>2. ASSUME answer[e.batch] = "waiting" PROVE e \in callbacks[user]
    <3>1. PICK u \in Users : \E c \in callbacks[u] : c.batch = e.batch
      BY <1>1, <2>2 DEF IInv, CallbackIsOwn, Entries
    <3>2. PICK c \in callbacks[u] : c.batch = e.batch
      BY <3>1
    <3>3. PICK i \in DOMAIN queue[u] : c = queue[u][i]
      BY <3>2 DEF IInv, CallbackIsOwn, ToSet
    <3>4. u = user /\ i = 1
      BY <1>1, <3>2, <3>3 DEF IInv, QueuedOnce
    <3> QED
      BY <3>2, <3>3, <3>4
  <2> QED
    BY <2>1, <2>2
<1>6. /\ answer' = [b \in Batches |-> IF b \in {c.batch : c \in found} THEN result ELSE answer[b]]
      /\ callbacks' = [callbacks EXCEPT ![user] = callbacks[user] \ found]
  BY DEF NotifyUser
<1>7. \A b \in Batches : b \in {c.batch : c \in found} <=> b = e.batch /\ answer[e.batch] = "waiting"
  BY <1>4, <1>5
<1>8. answer' = [answer EXCEPT ![e.batch] = IF answer[e.batch] = "waiting" THEN result
                                            ELSE answer[e.batch]]
  <2> HIDE DEF found, e
  <2> QED
    BY <1>2, <1>6, <1>7
<1>9. callbacks[user] \ found = callbacks[user] \ {e}
  BY <1>4
<1> QED
  BY <1>6, <1>8, <1>9

LEMMA AppendPositions ==
  ASSUME NEW S, NEW s \in Seq(S), NEW e \in S
  PROVE  /\ Append(s, e) \in Seq(S) /\ Len(Append(s, e)) = Len(s) + 1
         /\ \A i \in 1..Len(s) : Append(s, e)[i] = s[i]
         /\ Append(s, e)[Len(s) + 1] = e
         /\ ToSet(Append(s, e)) = ToSet(s) \cup {e}
<1>1. /\ Append(s, e) \in Seq(S) /\ Len(Append(s, e)) = Len(s) + 1 /\ Len(s) \in Nat
      /\ \A i \in 1..Len(s) : Append(s, e)[i] = s[i]
      /\ Append(s, e)[Len(s) + 1] = e
  BY AppendProperties, LenProperties
<1>2. DOMAIN s = 1..Len(s) /\ DOMAIN Append(s, e) = 1..(Len(s) + 1)
  BY <1>1, LenProperties
<1>3. ToSet(Append(s, e)) = ToSet(s) \cup {e}
  <2> DEFINE a == Append(s, e)
             n == Len(s)
  <2>1. /\ n \in Nat /\ DOMAIN s = 1..n /\ DOMAIN a = 1..(n + 1)
        /\ \A i \in 1..n : a[i] = s[i]
        /\ a[n + 1] = e
    BY <1>1, <1>2
  <2> HIDE DEF a, n
  <2>2. ToSet(a) = ToSet(s) \cup {e}
    BY <2>1 DEF ToSet
  <2> QED
    BY <2>2 DEF a
<1> QED
  BY <1>1, <1>3

(* Once ids are given again, they are still larger than those of queued batches. *)
LEMMA NextIdFacts ==
  ASSUME IInv
  PROVE  /\ LoadNextBatchIdFromDb \in 1..nextId
         /\ \A u \in Users : \A i \in DOMAIN queue[u] : queue[u][i].id < LoadNextBatchIdFromDb
<1> DEFINE E == UNION {ToSet(queue[u]) : u \in Users}
           S == {0} \cup {e.id : e \in E}
<1>1. nextId \in Nat /\ nextId >= 1
  BY EntryIds DEF IInv, TypeOK
<1>2. \A e \in E : e.id \in Nat /\ e.id < nextId
  <2> TAKE e \in E
  <2>1. PICK u \in Users : e \in ToSet(queue[u])
    OBVIOUS
  <2>2. PICK i \in DOMAIN queue[u] : e = queue[u][i]
    BY <2>1 DEF ToSet
  <2> QED
    BY <2>2, QueueFacts, EntryIds
<1>3. S \in SUBSET (0..(nextId - 1)) /\ S # {} /\ nextId - 1 \in Nat
  BY <1>1, <1>2
<1>4. \A u \in Users : \A i \in DOMAIN queue[u] : queue[u][i].id \in S
  BY DEF ToSet
<1>5. Max(S) \in S /\ \A x \in S : x <= Max(S)
  BY <1>3, MaxOf
<1>6. LoadNextBatchIdFromDb = 1 + Max(S)
  BY DEF LoadNextBatchIdFromDb
<1> HIDE DEF S
<1> QED
  BY <1>1, <1>3, <1>4, <1>5, <1>6

(* A new write gets an id of its own and is queued last. *)
LEMMA WriteQueue ==
  ASSUME IInv, NEW b \in Batches, WriteMutations(b)
  PROVE  QueueInv'
<1> DEFINE entry == [id |-> nextId, batch |-> b]
           old == queue[user]
           q == Append(old, entry)
<1>1. /\ answer[b] = "none"
      /\ queue' = [queue EXCEPT ![user] = q]
      /\ nextId' = nextId + 1
      /\ callbacks' = [callbacks EXCEPT ![user] =
                            IF \E c \in @ : c.id = nextId THEN @ ELSE @ \cup {entry}]
      /\ answer' = [answer EXCEPT ![b] = "waiting"]
  BY DEF WriteMutations
<1>2. /\ QueueTypes /\ user \in Users /\ Cardinality(Batches) \in Nat
      /\ nextId \in Nat /\ nextId >= 1
  BY EntryIds DEF IInv, TypeOK, QueueTypes
<1>3. Written' = Written \cup {b} /\ b \notin Written /\ Written \subseteq Batches
  BY <1>1, <1>2 DEF QueueTypes, Written
<1>4. /\ Cardinality(Written) \in Nat /\ Cardinality(Written') = Cardinality(Written) + 1
      /\ Cardinality(Written') <= Cardinality(Batches)
  <2>1. IsFiniteSet(Written) /\ IsFiniteSet(Written')
    BY <1>3, FiniteAssumption, FS_Subset
  <2>2. Cardinality(Written') = Cardinality(Written) + 1
    BY <1>3, <2>1, FS_AddElement
  <2>3. Cardinality(Written') <= Cardinality(Batches)
    BY <1>3, FiniteAssumption, FS_Subset
  <2> QED
    BY <2>1, <2>2, <2>3, FS_CardinalityType
<1>5. nextId <= Cardinality(Batches) /\ nextId <= Cardinality(Written) + 1
  BY <1>2, <1>4 DEF IInv, IdsAreCounted
<1>6. entry \in Entries
  BY <1>2, <1>5 DEF Entries
<1>7. /\ old \in Seq(Entries) /\ Len(old) \in Nat /\ DOMAIN old = 1..Len(old)
      /\ q \in Seq(Entries) /\ Len(q) = Len(old) + 1 /\ DOMAIN q = 1..(Len(old) + 1)
      /\ \A i \in 1..Len(old) : q[i] = old[i]
      /\ q[Len(old) + 1] = entry
      /\ ToSet(q) = ToSet(old) \cup {entry}
  BY <1>6, QueueFacts, AppendPositions, Positions
<1>8. /\ \A u \in Users : queue'[u] = IF u = user THEN q ELSE queue[u]
      /\ queue' \in [Users -> Seq(Entries)]
  BY <1>1, <1>2, <1>7 DEF QueueTypes
<1> HIDE DEF old, q
<1>9. \A c \in callbacks[user] : c.id < nextId
  BY <1>2, QueueFacts DEF IInv, CallbackIsOwn, ToSet
<1>10. callbacks' = [callbacks EXCEPT ![user] = callbacks[user] \cup {entry}]
  <2>1. \A c \in callbacks[user] : c.id \in Nat
    BY <1>2, EntryIds DEF QueueTypes
  <2>2. ~ \E c \in callbacks[user] : c.id = nextId
    BY <1>2, <1>9, <2>1
  <2> QED
    BY <1>1, <2>2
<1>11. QueueTypes'
  BY <1>1, <1>2, <1>5, <1>6, <1>8, <1>10 DEF QueueTypes
<1>12. IdsAreCounted'
  BY <1>1, <1>2, <1>4, <1>5 DEF IdsAreCounted
<1>13. \A u \in Users : \A i \in DOMAIN queue'[u] :
          \/ i \in DOMAIN queue[u] /\ queue'[u][i] = queue[u][i]
          \/ u = user /\ i = Len(old) + 1 /\ queue'[u][i] = entry
  <2> TAKE u \in Users
  <2> TAKE i \in DOMAIN queue'[u]
  <2>1. CASE u # user
    BY <1>8, <2>1
  <2>2. CASE u = user
    <3>1. queue'[u] = q /\ queue[u] = old
      BY <1>8, <2>2 DEF old
    <3>2. i \in 1..Len(old) \/ i = Len(old) + 1
      BY <1>7, <3>1
    <3> QED
      BY <1>7, <2>2, <3>1, <3>2
  <2> QED
    BY <2>1, <2>2
<1>14. \A u \in Users : \A i \in DOMAIN queue[u] :
          queue[u][i].id < nextId /\ queue[u][i].batch \in Written /\ queue[u][i].id \in Nat
  BY QueueFacts, EntryIds
<1>15. QueueIsOrdered'
  <2>1. ASSUME NEW u \in Users, NEW i \in DOMAIN queue'[u]
        PROVE  queue'[u][i].id < nextId' /\ queue'[u][i].batch \in Written'
    BY <1>1, <1>2, <1>3, <1>13, <1>14
  <2>2. ASSUME NEW u \in Users, NEW i \in DOMAIN queue'[u], NEW j \in DOMAIN queue'[u], i < j
        PROVE  queue'[u][i].id < queue'[u][j].id
    <3>1. u = user => DOMAIN queue[u] = 1..Len(old)
      BY <1>7 DEF old
    <3>2. CASE u = user /\ j = Len(old) + 1
      <4>1. queue'[u][j].id = nextId
        BY <1>7, <1>8, <3>2
      <4>2. i \in DOMAIN queue[u] /\ queue'[u][i] = queue[u][i]
        BY <1>7, <1>8, <1>13, <2>2, <3>2
      <4> QED
        BY <1>14, <4>1, <4>2
    <3>3. CASE ~(u = user /\ j = Len(old) + 1)
      <4>1. /\ i \in DOMAIN queue[u] /\ queue'[u][i] = queue[u][i]
            /\ j \in DOMAIN queue[u] /\ queue'[u][j] = queue[u][j]
        BY <1>7, <1>13, <2>2, <3>1, <3>3
      <4> QED
        BY <2>2, <4>1 DEF IInv, QueueIsOrdered
    <3> QED
      BY <3>2, <3>3
  <2> QED
    BY <2>1, <2>2 DEF QueueIsOrdered
<1>16. QueuedOnce'
  <2> SUFFICES ASSUME NEW u \in Users, NEW v \in Users, NEW i \in DOMAIN queue'[u],
                      NEW j \in DOMAIN queue'[v], queue'[u][i].batch = queue'[v][j].batch
               PROVE  u = v /\ i = j
    BY DEF QueuedOnce
  <2>1. queue'[u][i].batch \in Written <=> i \in DOMAIN queue[u] /\ queue'[u][i] = queue[u][i]
    BY <1>3, <1>13, <1>14
  <2>2. queue'[v][j].batch \in Written <=> j \in DOMAIN queue[v] /\ queue'[v][j] = queue[v][j]
    BY <1>3, <1>13, <1>14
  <2> QED
    BY <1>13, <2>1, <2>2 DEF IInv, QueuedOnce
<1>17. CallbackIsOwn'
  <2>1. \A u \in Users : callbacks'[u] = IF u = user THEN callbacks[u] \cup {entry} ELSE callbacks[u]
    BY <1>2, <1>10 DEF QueueTypes
  <2>2. \A u \in Users : callbacks'[u] \subseteq ToSet(queue'[u])
    BY <1>7, <1>8, <2>1 DEF IInv, CallbackIsOwn, old
  <2>3. \A c \in Batches : answer'[c] = IF c = b THEN "waiting" ELSE answer[c]
    BY <1>1, <1>2 DEF QueueTypes
  <2>4. \A c \in Batches : answer'[c] = "waiting" <=>
           \E u \in Users : \E d \in callbacks'[u] : d.batch = c
    <3> TAKE c \in Batches
    <3>1. answer[c] = "waiting" <=> \E u \in Users : \E d \in callbacks[u] : d.batch = c
      BY DEF IInv, CallbackIsOwn
    <3>2. CASE c = b
      <4>1. entry \in callbacks'[user] /\ entry.batch = b
        BY <1>2, <2>1
      <4>2. \E u \in Users : \E d \in callbacks'[u] : d.batch = b
        BY <1>2, <4>1
      <4> QED
        BY <2>3, <3>2, <4>2
    <3>3. CASE c # b
      <4>1. entry.batch = b
        OBVIOUS
      <4> HIDE DEF entry
      <4>2. \A u \in Users : \A d : d.batch = c => (d \in callbacks'[u] <=> d \in callbacks[u])
        BY <2>1, <3>3, <4>1
      <4> QED
        BY <2>3, <3>1, <3>3, <4>2
    <3> QED
      BY <3>2, <3>3
  <2> QED
    BY <2>2, <2>4 DEF CallbackIsOwn
<1> QED
  BY <1>11, <1>12, <1>15, <1>16, <1>17 DEF QueueInv

(* The queues are unchanged, ids may be given again. *)
LEMMA RestartQueue ==
  ASSUME IInv, queue' = queue, nextId' \in {nextId, LoadNextBatchIdFromDb},
         \/ UNCHANGED <<callbacks, answer>>
         \/ /\ callbacks' = [u \in Users |-> {}]
            /\ answer' = [b \in Batches |-> IF answer[b] = "waiting" THEN "lost" ELSE answer[b]]
  PROVE  QueueInv'
<1>1. /\ QueueTypes /\ Cardinality(Batches) \in Nat
  BY EntryIds DEF IInv, TypeOK, QueueTypes
<1>2. /\ nextId' \in 1..nextId /\ nextId \in Nat
      /\ \A u \in Users : \A i \in DOMAIN queue[u] : queue[u][i].id < nextId'
  BY <1>1, NextIdFacts, QueueFacts DEF QueueTypes
<1>3. QueueTypes'
  BY <1>1, <1>2 DEF QueueTypes
<1>4. Written' = Written
  BY <1>1 DEF Written, QueueTypes
<1>5. Cardinality(Written) \in Nat
  <2>1. Written \subseteq Batches
    BY DEF Written
  <2> QED
    BY <2>1, FiniteAssumption, FS_Subset, FS_CardinalityType
<1>6. IdsAreCounted'
  BY <1>2, <1>4, <1>5 DEF IInv, IdsAreCounted
<1>7. QueueIsOrdered' /\ QueuedOnce'
  BY <1>2, <1>4 DEF IInv, QueueIsOrdered, QueuedOnce
<1>8. CallbackIsOwn'
  BY <1>1 DEF IInv, CallbackIsOwn, QueueTypes
<1> QED
  BY <1>3, <1>6, <1>7, <1>8 DEF QueueInv

(* The front batch leaves the queue, and its callback goes with it. *)
LEMMA AnswerQueue ==
  ASSUME IInv, pipeline # <<>>, NEW result \in {"ok", "error"},
         NotifyUser(Head(pipeline).id, result),
         queue' = [queue EXCEPT ![user] = Dequeue(queue[user], Head(pipeline).id)],
         nextId' = nextId
  PROVE  QueueInv'
<1> DEFINE q == queue[user]
           e == q[1]
           n == Len(q)
<1>1. /\ QueueTypes /\ user \in Users
  BY DEF IInv, TypeOK, QueueTypes
<1>2. /\ q \in Seq(Entries) /\ n \in Nat /\ n >= 1 /\ DOMAIN q = 1..n
      /\ Dequeue(q, Head(pipeline).id) = Tail(q)
      /\ Tail(q) \in Seq(Entries) /\ Len(Tail(q)) = n - 1
      /\ \A i \in 1..(n - 1) : Tail(q)[i] = q[i + 1]
      /\ e \in Entries
  BY QueueFacts, FrontFacts
<1>3. DOMAIN Tail(q) = 1..(n - 1)
  BY <1>2, Positions
<1>4. /\ answer' = [answer EXCEPT ![e.batch] = IF answer[e.batch] = "waiting" THEN result
                                                ELSE answer[e.batch]]
      /\ callbacks' = [callbacks EXCEPT ![user] = callbacks[user] \ {e}]
  BY NotifyFacts
<1>5. /\ queue' \in [Users -> Seq(Entries)]
      /\ \A u \in Users : queue'[u] = IF u = user THEN Tail(q) ELSE queue[u]
  BY <1>1, <1>2 DEF QueueTypes
<1>6. e.batch \in Batches /\ e.batch \in Written
  BY <1>1, <1>2, QueueFacts DEF Entries
<1> DEFINE At(u, i) == IF u = user THEN i + 1 ELSE i
<1>7. \A u \in Users : \A i \in DOMAIN queue'[u] :
         /\ At(u, i) \in DOMAIN queue[u] /\ queue'[u][i] = queue[u][At(u, i)]
         /\ u = user => i \in Nat /\ i >= 1
  <2> TAKE u \in Users
  <2> TAKE i \in DOMAIN queue'[u]
  <2>1. CASE u # user
    BY <1>5, <2>1
  <2>2. CASE u = user
    <3>1. i \in 1..(n - 1)
      BY <1>3, <1>5, <2>2
    <3> QED
      BY <1>2, <1>5, <2>2, <3>1
  <2> QED
    BY <2>1, <2>2
<1>8. QueueTypes'
  <2>1. answer' \in [Batches -> {"none", "waiting", "ok", "error", "lost"}]
    BY <1>1, <1>4, <1>6 DEF QueueTypes
  <2>2. callbacks' \in [Users -> SUBSET Entries]
    BY <1>1, <1>4 DEF QueueTypes
  <2> QED
    BY <1>1, <1>5, <2>1, <2>2 DEF QueueTypes
<1>9. \A b \in Batches : answer'[b] = IF b = e.batch /\ answer[b] = "waiting" THEN result
                                      ELSE answer[b]
  BY <1>1, <1>4, <1>6 DEF QueueTypes
<1>10. Written' = Written
  BY <1>9 DEF Written
<1>11. IdsAreCounted'
  BY <1>10 DEF IInv, IdsAreCounted
<1>12. \A u \in Users : DOMAIN queue[u] \subseteq Nat
  BY QueueFacts
<1> HIDE DEF At
<1>13. \A u \in Users : \A i, j \in DOMAIN queue'[u] :
          (i < j <=> At(u, i) < At(u, j)) /\ (i = j <=> At(u, i) = At(u, j))
  BY <1>5, <1>7, <1>12 DEF At
<1>14. QueueIsOrdered'
  <2>1. ASSUME NEW u \in Users, NEW i \in DOMAIN queue'[u]
        PROVE  queue'[u][i].id < nextId' /\ queue'[u][i].batch \in Written'
    BY <1>7, <1>10 DEF IInv, QueueIsOrdered
  <2>2. ASSUME NEW u \in Users, NEW i \in DOMAIN queue'[u], NEW j \in DOMAIN queue'[u], i < j
        PROVE  queue'[u][i].id < queue'[u][j].id
    BY <1>7, <1>13, <2>2 DEF IInv, QueueIsOrdered
  <2> QED
    BY <2>1, <2>2 DEF QueueIsOrdered
<1>15. QueuedOnce'
  <2> SUFFICES ASSUME NEW u \in Users, NEW v \in Users, NEW i \in DOMAIN queue'[u],
                      NEW j \in DOMAIN queue'[v], queue'[u][i].batch = queue'[v][j].batch
               PROVE  u = v /\ i = j
    BY DEF QueuedOnce
  <2>1. u = v /\ At(u, i) = At(v, j)
    BY <1>7 DEF IInv, QueuedOnce
  <2> QED
    BY <1>13, <2>1
<1>16. CallbackIsOwn'
  <2>1. \A u \in Users : callbacks'[u] = IF u = user THEN callbacks[u] \ {e} ELSE callbacks[u]
    BY <1>1, <1>4 DEF QueueTypes
  <2>2. ASSUME NEW u \in Users, NEW c \in callbacks'[u] PROVE c \in ToSet(queue'[u])
    <3>1. c \in ToSet(queue[u])
      BY <2>1 DEF IInv, CallbackIsOwn
    <3>2. CASE u # user
      BY <1>5, <3>1, <3>2
    <3>3. CASE u = user
      <4>1. PICK i \in 1..n : c = q[i]
        BY <1>2, <3>1, <3>3 DEF ToSet
      <4>2. i # 1
        BY <2>1, <3>3, <4>1
      <4>3. i - 1 \in 1..(n - 1) /\ (i - 1) + 1 = i
        BY <1>2, <4>2
      <4>4. Tail(q)[i - 1] = c
        BY <1>2, <4>1, <4>3
      <4> QED
        BY <1>3, <1>5, <3>3, <4>3, <4>4 DEF ToSet
    <3> QED
      BY <3>2, <3>3
  <2>3. ASSUME NEW u \in Users, NEW c \in callbacks[u], c.batch = e.batch
        PROVE  u = user /\ c = e
    <3>1. PICK i \in DOMAIN queue[u] : c = queue[u][i]
      BY DEF IInv, CallbackIsOwn, ToSet
    <3>2. u = user /\ i = 1
      BY <1>1, <1>2, <2>3, <3>1 DEF IInv, QueuedOnce
    <3> QED
      BY <3>1, <3>2
  <2>4. ASSUME NEW b \in Batches
        PROVE  answer'[b] = "waiting" <=> \E u \in Users : \E d \in callbacks'[u] : d.batch = b
    <3>1. answer[b] = "waiting" <=> \E u \in Users : \E d \in callbacks[u] : d.batch = b
      BY DEF IInv, CallbackIsOwn
    <3>2. CASE b = e.batch
      <4>1. answer'[b] # "waiting"
        BY <1>9, <3>2
      <4>2. \A u \in Users : \A d \in callbacks'[u] : d.batch # b
        BY <2>1, <2>3, <3>2, ZenonT(40)
      <4> QED
        BY <4>1, <4>2
    <3>3. CASE b # e.batch
      <4>1. \A u \in Users : \A d : d.batch = b => (d \in callbacks'[u] <=> d \in callbacks[u])
        BY <2>1, <3>3
      <4> QED
        BY <1>9, <3>1, <3>3, <4>1
    <3> QED
      BY <3>2, <3>3
  <2> QED
    BY <2>2, <2>4 DEF CallbackIsOwn
<1> QED
  BY <1>8, <1>11, <1>14, <1>15, <1>16 DEF QueueInv

(* The mutation queues and the callers over every step. *)
LEMMA QueueStep ==
  ASSUME IInv, [Next]_vars
  PROVE  QueueInv'
<1>1. ASSUME NEW b \in Batches, WriteMutations(b) PROVE QueueInv'
  BY <1>1, WriteQueue
<1>2. ASSUME NEW u \in Users, HandleCredentialChange(u) PROVE QueueInv'
  BY <1>2, RestartQueue DEF HandleCredentialChange
<1>3. CASE Relaunch
  BY <1>3, RestartQueue DEF Relaunch
<1>4. CASE OnWriteStreamMutationResult
  <2>1. /\ pipeline # <<>> /\ NotifyUser(Head(pipeline).id, "ok") /\ nextId' = nextId
        /\ queue' = [queue EXCEPT ![user] = Dequeue(queue[user], Head(pipeline).id)]
    BY <1>4 DEF OnWriteStreamMutationResult
  <2> QED
    BY <2>1, AnswerQueue
<1>5. CASE HandlePermanentWriteError
  <2>1. /\ pipeline # <<>> /\ NotifyUser(Head(pipeline).id, "error") /\ nextId' = nextId
        /\ queue' = [queue EXCEPT ![user] = Dequeue(queue[user], Head(pipeline).id)]
    BY <1>5 DEF HandlePermanentWriteError
  <2> QED
    BY <2>1, AnswerQueue
<1>6. ASSUME UNCHANGED <<queue, nextId, callbacks, answer>> PROVE QueueInv'
  <2>1. QueueInv
    BY DEF IInv, TypeOK, QueueInv, QueueTypes
  <2>2. Written' = Written
    BY <1>6 DEF Written
  <2> QED
    BY <1>6, <2>1, <2>2 DEF QueueInv, QueueTypes, IdsAreCounted, QueueIsOrdered, QueuedOnce,
                            CallbackIsOwn
<1>7. CASE \/ ResumeStartWithCredentials \/ OnWriteStreamHandshakeComplete \/ BackoffElapsed
           \/ IdleTimeout \/ StreamFails \/ ServeHandshake \/ ServeWrite \/ ServeStray
           \/ UNCHANGED vars
  BY <1>6, <1>7 DEF ResumeStartWithCredentials, OnWriteStreamHandshakeComplete, BackoffElapsed,
       IdleTimeout, StreamFails, ServeHandshake, ServeWrite, ServeStray, vars, disk, client
<1> QED
  BY <1>1, <1>2, <1>3, <1>4, <1>5, <1>7 DEF Next, ClientStep

------------------------------------------------------------------------------
(* A pipeline filled on a connection that is closed. *)
LEMMA ClosedConnection ==
  ASSUME NEW p, NEW q, Fills(p, q, "Initial", <<>>), handshake' = FALSE, responses' = <<>>,
         queue'[user'] = q
  PROVE  ConnectionInv'
<1>1. /\ stream' \in {"Initial", "Starting"} /\ idle' = FALSE /\ wire' = <<>>
      /\ pipeline' \in Seq(Entries) /\ Len(pipeline') <= MaxPending /\ IsPrefix(pipeline', q)
      /\ Len(pipeline') # 0 => stream' = "Starting"
  BY DEF Fills, Started, Start
<1>2. pipeline' # <<>> => Len(pipeline') # 0
  BY <1>1, Positions
<1>3. ConnectionTypes'
  BY <1>1, EmptySeq DEF ConnectionTypes, StreamStates
<1>4. PipelineIsHeadOfQueue'
  BY <1>1, <1>2 DEF PipelineIsHeadOfQueue, Started
<1>5. ConnectionState'
  BY <1>1 DEF ConnectionState
<1> QED
  BY <1>3, <1>4, <1>5 DEF ConnectionInv

LEMMA Shift ==
  ASSUME NEW r \in Nat, NEW w \in Nat, NEW p \in Nat, NEW n \in Nat, r + w = p, p <= n,
         NEW i \in (w + 1)..(w + n - p)
  PROVE  r + i = p + i - w /\ r + i \in 1..n
OBVIOUS

(* A write is sent at once if the handshake is complete and the pipeline has room. *)
LEMMA WriteConnection ==
  ASSUME IInv, NEW b \in Batches, WriteMutations(b)
  PROVE  ConnectionInv'
<1> DEFINE entry == [id |-> nextId, batch |-> b]
           old == queue[user]
           q == Append(old, entry)
           n == Reach(q)
<1>1. /\ FillWritePipeline(pipeline, q, stream, wire)
      /\ queue' = [queue EXCEPT ![user] = q]
      /\ UNCHANGED <<user, handshake, responses, applied>>
  BY DEF WriteMutations
<1>2. QueueInv'
  BY WriteQueue
<1>3. user \in Users /\ queue \in [Users -> Seq(Entries)]
  BY DEF IInv, TypeOK
<1>4. queue'[user] = q /\ q \in Seq(Entries) /\ Ordered(q)
  BY <1>1, <1>2, <1>3 DEF QueueInv, QueueTypes, QueueIsOrdered, Ordered
<1>5. /\ old \in Seq(Entries) /\ Len(old) \in Nat /\ DOMAIN old = 1..Len(old)
      /\ pipeline \in Seq(Entries) /\ Len(pipeline) \in Nat /\ Len(pipeline) <= Len(old)
      /\ Len(pipeline) <= MaxPending
      /\ \A i \in 1..Len(pipeline) : pipeline[i] = old[i]
      /\ wire \in Seq(Requests) /\ Len(wire) \in Nat /\ DOMAIN wire = 1..Len(wire)
      /\ responses \in Seq(Responses) /\ Len(responses) \in Nat
      /\ DOMAIN responses = 1..Len(responses)
  BY QueueFacts, PipelineFacts
<1>6. Len(q) = Len(old) + 1 /\ \A i \in 1..Len(old) : q[i] = old[i]
  BY <1>5, AppendProperties
<1> HIDE DEF q, old
<1>7. IsPrefix(pipeline, q)
  BY <1>4, <1>5, <1>6, PrefixPositions
<1>8. Fills(pipeline, q, stream, wire)
  BY <1>1, <1>4, <1>5, <1>7, FillFacts
<1>9. stream \in StreamStates /\ handshake \in BOOLEAN /\ idle \in BOOLEAN
  BY DEF IInv, TypeOK
<1>10. /\ pipeline' \in Seq(Entries) /\ Len(pipeline') = n /\ n \in Nat /\ n <= MaxPending
       /\ Len(pipeline) <= n /\ n >= 1 /\ pipeline' # <<>>
  <2>1. /\ pipeline' \in Seq(Entries) /\ Len(pipeline') = n /\ n \in Nat /\ n <= MaxPending
        /\ Len(pipeline) <= n /\ (n = 0 <=> q = <<>>)
    BY <1>8 DEF Fills
  <2>2. q # <<>>
    BY <1>4, <1>5, <1>6, Positions
  <2> QED
    BY <2>1, <2>2, Positions
<1>11. stream' = IF Started(stream) THEN stream ELSE Start(stream)
  BY <1>8, <1>10 DEF Fills
<1>12. idle' = FALSE
  <2> HIDE DEF n
  <2>1. idle' => stream = "Open" /\ idle /\ ~(handshake /\ Len(pipeline) < n)
    <3>1. idle' = (stream = "Open" /\ (n = 0 \/ (idle /\ ~(handshake /\ Len(pipeline) < n))))
      BY <1>8 DEF Fills, n
    <3>2. n # 0
      BY <1>10
    <3> QED
      BY <3>1, <3>2, Zenon
  <2>2. idle => handshake /\ pipeline = <<>>
    BY DEF IInv, PipelineIsHeadOfQueue
  <2>3. pipeline = <<>> => Len(pipeline) < n
    BY <1>5, <1>10, Positions
  <2>4. idle' \in BOOLEAN
    BY <1>8 DEF Fills
  <2> QED
    BY <2>1, <2>2, <2>3, <2>4
<1>13. wire' \in Seq(Requests)
  BY <1>8 DEF Fills
<1>14. ConnectionTypes'
  BY <1>1, <1>5, <1>9, <1>10, <1>11, <1>12, <1>13
     DEF ConnectionTypes, StreamStates, Start, Started, Requests, Responses
<1>15. PipelineIsHeadOfQueue'
  BY <1>1, <1>4, <1>8, <1>10, <1>11, <1>12 DEF Fills, PipelineIsHeadOfQueue, Started, Start
<1>16. ConnectionState'
  <2>1. CASE ~handshake
    <3>1. wire' = wire
      BY <1>8, <2>1 DEF Fills
    <3>2. stream' = "Open" <=> stream = "Open"
      BY <1>9, <1>11 DEF Started, Start, StreamStates
    <3> QED
      BY <1>1, <2>1, <3>1, <3>2 DEF IInv, ConnectionState
  <2>2. CASE handshake
    <3>1. /\ stream = "Open" /\ Len(responses) + Len(wire) = Len(pipeline)
          /\ \A i \in DOMAIN responses : Answers(i)
          /\ \A i \in DOMAIN wire : wire[i] = pipeline[Len(responses) + i].batch
      BY <2>2 DEF IInv, ConnectionState
    <3>2. stream' = "Open"
      BY <1>11, <3>1 DEF Started
    <3>3. /\ Len(wire') = Len(wire) + n - Len(pipeline)
          /\ \A i \in 1..Len(wire) : wire'[i] = wire[i]
          /\ \A i \in (Len(wire) + 1)..Len(wire') :
                wire'[i] = q[Len(pipeline) + i - Len(wire)].batch
          /\ \A i \in 1..n : pipeline'[i] = q[i]
      BY <1>8, <2>2, <3>1 DEF Fills
    <3>4. \A i \in 1..Len(pipeline) : pipeline'[i] = pipeline[i]
      BY <1>5, <1>6, <1>10, <3>3
    <3>5. \A i \in DOMAIN responses' : Answers(i)'
      BY <1>1, <1>5, <3>1, <3>4 DEF Answers
    <3>6. Len(responses') + Len(wire') = Len(pipeline')
      BY <1>1, <1>5, <1>10, <3>1, <3>3
    <3>7. DOMAIN wire' = 1..Len(wire')
      BY <1>13, Positions
    <3>8. \A i \in DOMAIN wire' : wire'[i] = pipeline'[Len(responses') + i].batch
      <4> TAKE i \in DOMAIN wire'
      <4> HIDE DEF n
      <4>1. CASE i \in 1..Len(wire)
        <5>1. Len(responses) + i \in 1..Len(pipeline)
          BY <1>5, <3>1, <4>1
        <5> QED
          BY <1>1, <1>5, <3>1, <3>3, <3>4, <4>1, <5>1
      <4>2. CASE i \notin 1..Len(wire)
        <5>1. i \in (Len(wire) + 1)..Len(wire') /\ i \in Nat
          BY <1>5, <1>13, <3>7, <4>2, Positions
        <5>2. Len(responses) + i = Len(pipeline) + i - Len(wire) /\ Len(responses) + i \in 1..n
          <6>1. i \in (Len(wire) + 1)..(Len(wire) + n - Len(pipeline))
            BY <3>3, <5>1
          <6>2. /\ Len(responses) \in Nat /\ Len(wire) \in Nat /\ Len(pipeline) \in Nat
                /\ n \in Nat /\ Len(responses) + Len(wire) = Len(pipeline) /\ Len(pipeline) <= n
            BY <1>5, <1>10, <3>1
          <6> QED
            BY <6>1, <6>2, Shift
        <5> QED
          BY <1>1, <3>3, <5>1, <5>2
      <4> QED
        BY <4>1, <4>2
    <3> QED
      BY <1>1, <2>2, <3>2, <3>5, <3>6, <3>8 DEF ConnectionState
  <2> QED
    BY <2>1, <2>2
<1> QED
  BY <1>14, <1>15, <1>16 DEF ConnectionInv

(* An answer takes the front from the pipeline, the queue and the responses. *)
LEMMA AnswerConnection ==
  ASSUME IInv, OnWriteStreamMutationResult
  PROVE  ConnectionInv'
<1> DEFINE old == queue[user]
           q == Tail(old)
           p == Tail(pipeline)
           n == Reach(q)
           R == Len(responses)
           W == Len(wire)
           P == Len(pipeline)
<1>1. /\ stream = "Open" /\ handshake /\ responses # <<>> /\ pipeline # <<>>
      /\ responses' = Tail(responses)
      /\ UNCHANGED <<user, handshake, applied>>
      /\ queue' = [queue EXCEPT ![user] = Dequeue(old, Head(pipeline).id)]
      /\ FillWritePipeline(p, Dequeue(old, Head(pipeline).id), stream, wire)
  BY DEF OnWriteStreamMutationResult
<1>2. /\ Len(old) \in Nat /\ Len(old) >= 1
      /\ Dequeue(old, Head(pipeline).id) = q
      /\ q \in Seq(Entries) /\ Len(q) = Len(old) - 1 /\ Ordered(q)
      /\ \A i \in 1..(Len(old) - 1) : q[i] = old[i + 1]
      /\ p \in Seq(Entries) /\ Len(p) = P - 1
      /\ IsPrefix(p, q)
  BY <1>1, FrontFacts, QueueFacts
<1>3. /\ P \in Nat /\ P >= 1 /\ P <= MaxPending /\ P <= Len(old)
      /\ \A i \in 1..P : pipeline[i] = old[i]
      /\ wire \in Seq(Requests) /\ W \in Nat /\ DOMAIN wire = 1..W
      /\ responses \in Seq(Responses) /\ R \in Nat /\ DOMAIN responses = 1..R
  BY <1>1, PipelineFacts, FrontFacts
<1>4. /\ responses' \in Seq(Responses) /\ Len(responses') = R - 1 /\ R >= 1
      /\ \A i \in 1..(R - 1) : responses'[i] = responses[i + 1]
  BY <1>1, <1>3, TailPositions
<1>5. queue'[user'] = q
  <2>1. user \in Users /\ queue \in [Users -> Seq(Entries)]
    BY DEF IInv, TypeOK
  <2> QED
    BY <1>1, <1>2, <2>1
<1>6. Fills(p, q, stream, wire)
  <2>1. Len(p) <= MaxPending
    BY <1>2, <1>3, MaxPendingAssumption
  <2> QED
    BY <1>1, <1>2, <1>3, <2>1, FillFacts
<1>7. /\ R + W = P
      /\ \A i \in 1..R : Answers(i)
      /\ \A i \in 1..W : wire[i] = pipeline[R + i].batch
      /\ ~idle
  BY <1>1, <1>3 DEF IInv, ConnectionState, PipelineIsHeadOfQueue
<1> HIDE DEF q, p, old, n
<1>8. /\ pipeline' \in Seq(Entries) /\ Len(pipeline') = n /\ n \in Nat /\ n <= MaxPending
      /\ P - 1 <= n /\ n <= Len(q) /\ IsPrefix(pipeline', q)
      /\ \A i \in 1..n : pipeline'[i] = q[i]
      /\ pipeline' # <<>> <=> n # 0
  <2>1. /\ pipeline' \in Seq(Entries) /\ Len(pipeline') = n /\ n \in Nat /\ n <= MaxPending
        /\ P - 1 <= n /\ n <= Len(q) /\ IsPrefix(pipeline', q)
        /\ \A i \in 1..n : pipeline'[i] = q[i]
    BY <1>2, <1>6 DEF Fills, n
  <2> QED
    BY <2>1, Positions
<1>9. /\ stream' = "Open" /\ idle' = (n = 0) /\ wire' \in Seq(Requests)
      /\ Len(wire') = W + n - (P - 1)
      /\ \A i \in 1..W : wire'[i] = wire[i]
      /\ \A i \in (W + 1)..Len(wire') : wire'[i] = q[P - 1 + i - W].batch
  <2>1. stream' = "Open" /\ wire' \in Seq(Requests)
    BY <1>1, <1>6 DEF Fills, Started
  <2>2. idle' = (n = 0)
    <3>1. idle' = (stream = "Open" /\ (n = 0 \/ (idle /\ ~(handshake /\ Len(p) < n))))
      BY <1>6 DEF Fills, n
    <3> QED
      BY <1>1, <1>7, <3>1, Zenon
  <2>3. /\ Len(wire') = W + n - Len(p)
        /\ \A i \in 1..W : wire'[i] = wire[i]
        /\ \A i \in (W + 1)..Len(wire') : wire'[i] = q[Len(p) + i - W].batch
    BY <1>1, <1>6 DEF Fills, n
  <2> QED
    BY <1>2, <2>1, <2>2, <2>3
<1>10. ConnectionTypes'
  BY <1>1, <1>4, <1>8, <1>9 DEF ConnectionTypes, StreamStates, Requests, Responses
<1>11. PipelineIsHeadOfQueue'
  BY <1>1, <1>5, <1>8, <1>9 DEF PipelineIsHeadOfQueue, Started
<1>12. \A i \in 1..(P - 1) : pipeline'[i] = pipeline[i + 1]
  <2> TAKE i \in 1..(P - 1)
  <2>1. i + 1 \in 1..P /\ i \in 1..n /\ i \in 1..(Len(old) - 1)
    BY <1>2, <1>3, <1>8
  <2> QED
    BY <1>2, <1>3, <1>8, <2>1
<1>13. ConnectionState'
  <2>1. DOMAIN responses' = 1..(R - 1) /\ DOMAIN wire' = 1..Len(wire')
    BY <1>4, <1>9, Positions
  <2>2. Len(responses') + Len(wire') = Len(pipeline')
    <3>1. R \in Nat /\ W \in Nat /\ P \in Nat /\ n \in Nat /\ R + W = P
      BY <1>3, <1>7, <1>8
    <3>2. (R - 1) + (W + n - (P - 1)) = n
      BY <3>1
    <3> QED
      BY <1>4, <1>8, <1>9, <3>2
  <2>3. ASSUME NEW i \in 1..(R - 1) PROVE Answers(i)'
    <3>1. i + 1 \in 1..R /\ (i + 1 = R <=> i = R - 1) /\ i \in 1..(P - 1)
      BY <1>3, <1>7
    <3>2. responses'[i] = responses[i + 1] /\ pipeline'[i] = pipeline[i + 1] /\ Answers(i + 1)
      BY <1>4, <1>7, <1>12, <3>1
    <3>3. applied' = applied /\ Len(responses') = R - 1
      BY <1>1, <1>4
    <3> QED
      BY <3>1, <3>2, <3>3 DEF Answers
  <2>4. ASSUME NEW i \in 1..Len(wire') PROVE wire'[i] = pipeline'[R - 1 + i].batch
    <3>1. CASE i \in 1..W
      <4>1. R - 1 + i \in 1..(P - 1) /\ R - 1 + i + 1 = R + i
        BY <1>3, <1>4, <1>7, <3>1
      <4>2. wire'[i] = pipeline[R + i].batch
        BY <1>7, <1>9, <3>1
      <4>3. pipeline'[R - 1 + i] = pipeline[R + i]
        BY <1>12, <4>1
      <4> QED
        BY <4>2, <4>3
    <3>2. CASE i \notin 1..W
      <4>1. i \in (W + 1)..Len(wire')
        BY <1>3, <1>9, <3>2, Positions
      <4>2. i \in (W + 1)..(W + n - (P - 1))
        BY <1>9, <4>1
      <4>3. /\ R - 1 \in Nat /\ W \in Nat /\ P - 1 \in Nat /\ n \in Nat
            /\ (R - 1) + W = P - 1 /\ P - 1 <= n
        BY <1>3, <1>4, <1>7, <1>8
      <4>4. R - 1 + i = P - 1 + i - W /\ R - 1 + i \in 1..n
        BY <4>2, <4>3, Shift
      <4>5. wire'[i] = q[P - 1 + i - W].batch
        BY <1>9, <4>1
      <4> QED
        BY <1>8, <4>4, <4>5
    <3> QED
      BY <3>1, <3>2
  <2>5. /\ stream' = "Open" /\ handshake'
        /\ \A i \in DOMAIN responses' : Answers(i)'
        /\ \A i \in DOMAIN wire' : wire'[i] = pipeline'[Len(responses') + i].batch
    BY <1>1, <1>4, <1>9, <2>1, <2>3, <2>4
  <2> QED
    BY <2>2, <2>5 DEF ConnectionState
<1> QED
  BY <1>10, <1>11, <1>13 DEF ConnectionInv

LEMMA PermanentErrorFacts ==
  ASSUME IInv, HandlePermanentWriteError
  PROVE  /\ Fills(Tail(pipeline), Tail(queue[user]), "Initial", <<>>)
         /\ queue'[user'] = Tail(queue[user])
<1> DEFINE old == queue[user]
<1>1. /\ pipeline # <<>> /\ user' = user
      /\ queue' = [queue EXCEPT ![user] = Dequeue(old, Head(pipeline).id)]
      /\ FillWritePipeline(Tail(pipeline), Dequeue(old, Head(pipeline).id), "Initial", <<>>)
  BY DEF HandlePermanentWriteError
<1>2. /\ Dequeue(old, Head(pipeline).id) = Tail(old)
      /\ Tail(old) \in Seq(Entries) /\ Ordered(Tail(old))
      /\ Tail(pipeline) \in Seq(Entries) /\ Len(Tail(pipeline)) = Len(pipeline) - 1
      /\ IsPrefix(Tail(pipeline), Tail(old))
  BY <1>1, FrontFacts
<1>3. Len(Tail(pipeline)) <= MaxPending
  BY <1>2, PipelineFacts, MaxPendingAssumption
<1>4. <<>> \in Seq(Requests)
  BY EmptySeq
<1>5. user \in Users /\ queue \in [Users -> Seq(Entries)]
  BY DEF IInv, TypeOK
<1>6. Fills(Tail(pipeline), Tail(old), "Initial", <<>>)
  BY <1>1, <1>2, <1>3, <1>4, FillFacts, Zenon
<1> QED
  BY <1>1, <1>2, <1>5, <1>6

(* The steps that leave the pipeline and the mutation queue as they are. *)
LEMMA StreamConnection ==
  ASSUME IInv,
         \/ ResumeStartWithCredentials \/ OnWriteStreamHandshakeComplete
         \/ BackoffElapsed \/ IdleTimeout \/ StreamFails
  PROVE  ConnectionInv'
<1>1. /\ UNCHANGED <<queue, user, pipeline>>
  BY DEF ResumeStartWithCredentials, OnWriteStreamHandshakeComplete, BackoffElapsed, IdleTimeout,
         StreamFails, disk
<1>2. /\ stream \in StreamStates /\ handshake \in BOOLEAN /\ idle \in BOOLEAN
      /\ pipeline \in Seq(Entries) /\ Len(pipeline) <= MaxPending
      /\ wire \in Seq(Requests) /\ responses \in Seq(Responses)
      /\ IsPrefix(pipeline, queue[user])
  BY DEF IInv, TypeOK, PipelineIsHeadOfQueue, Requests, Responses
<1>3. /\ pipeline # <<>> => Started(stream) /\ ~idle
      /\ idle => stream = "Open" /\ handshake
      /\ ConnectionState
  BY DEF IInv, PipelineIsHeadOfQueue
<1>4. <<>> \in Seq(Requests) /\ <<>> \in Seq(Responses) /\ <<"hello">> \in Seq(Requests)
  <2>1. "hello" \in Requests
    BY DEF Requests
  <2> QED
    BY <2>1
<1>5. SUFFICES /\ stream' \in StreamStates /\ handshake' \in BOOLEAN /\ idle' \in BOOLEAN
               /\ wire' \in Seq(Requests) /\ responses' \in Seq(Responses)
               /\ pipeline # <<>> => Started(stream') /\ ~idle'
               /\ idle' => stream' = "Open" /\ handshake'
               /\ ConnectionState'
  <2>1. ConnectionTypes'
    BY <1>1, <1>2, <1>5 DEF ConnectionTypes, Requests, Responses
  <2>2. PipelineIsHeadOfQueue'
    BY <1>1, <1>2, <1>5 DEF PipelineIsHeadOfQueue
  <2> QED
    BY <1>5, <2>1, <2>2 DEF ConnectionInv
<1>6. CASE ResumeStartWithCredentials
  BY <1>2, <1>3, <1>4, <1>6 DEF ResumeStartWithCredentials, ConnectionState, StreamStates, Started
<1>7. CASE OnWriteStreamHandshakeComplete
  <2>1. /\ stream = "Open" /\ responses # <<>> /\ ~handshake /\ handshake' = TRUE
        /\ responses' = Tail(responses) /\ wire' = wire \o Content(pipeline)
        /\ idle' = (idle /\ pipeline = <<>>) /\ stream' = stream
    BY <1>7 DEF OnWriteStreamHandshakeComplete
  <2>2. wire = <<>> /\ responses = <<"hello">>
    BY <1>3, <2>1 DEF ConnectionState
  <2>3. /\ Content(pipeline) \in Seq(Batches) /\ Len(Content(pipeline)) = Len(pipeline)
        /\ \A i \in 1..Len(pipeline) : Content(pipeline)[i] = pipeline[i].batch
    BY <1>2, ContentPositions
  <2>4. responses' = <<>> /\ wire' = Content(pipeline)
    BY <2>1, <2>2, <2>3, ConcatEmptySeq
  <2>5. wire' \in Seq(Requests)
    BY <2>3, <2>4, SeqMonotonic DEF Requests
  <2>6. idle' = FALSE
    BY <1>3, <2>1
  <2>7. ConnectionState'
    <3>1. DOMAIN wire' = 1..Len(pipeline) /\ Len(wire') = Len(pipeline) /\ Len(pipeline) \in Nat
      BY <2>3, <2>4, Positions
    <3>2. Len(responses') = 0 /\ DOMAIN responses' = {}
      BY <2>4
    <3>3. \A i \in DOMAIN wire' : wire'[i] = pipeline'[Len(responses') + i].batch
      BY <1>1, <2>3, <2>4, <3>1, <3>2
    <3>4. Len(responses') + Len(wire') = Len(pipeline')
      BY <1>1, <3>1, <3>2
    <3>5. \A i \in DOMAIN responses' : Answers(i)'
      BY <3>2
    <3>6. stream' = "Open" /\ handshake'
      BY <2>1
    <3> QED
      BY <3>3, <3>4, <3>5, <3>6 DEF ConnectionState
  <2> QED
    BY <1>2, <1>3, <1>4, <2>1, <2>4, <2>5, <2>6, <2>7
<1>8. CASE BackoffElapsed
  BY <1>2, <1>3, <1>8
     DEF BackoffElapsed, ConnectionState, StreamStates, Started, Start, network
<1>9. CASE IdleTimeout
  BY <1>2, <1>3, <1>4, <1>9 DEF IdleTimeout, Abandon, ConnectionState, StreamStates
<1>10. CASE StreamFails
  BY <1>2, <1>3, <1>4, <1>10 DEF StreamFails, Abandon, ConnectionState, StreamStates, Started, Start
<1> QED
  BY <1>6, <1>7, <1>8, <1>9, <1>10

(* What the backend does next on a live connection: it answers the handshake, or *)
(* the first write of the pipeline that it has not answered.                     *)
LEMMA LiveFacts ==
  ASSUME IInv, Live
  PROVE  \/ /\ Head(wire) = "hello" /\ ~handshake /\ stream = "Open"
            /\ wire = <<"hello">> /\ responses = <<>>
         \/ /\ Head(wire) # "hello" /\ handshake /\ stream = "Open"
            /\ Len(wire) >= 1 /\ Len(responses) + 1 <= Len(pipeline)
            /\ Head(wire) = wire[1] /\ Head(wire) = pipeline[Len(responses) + 1].batch
            /\ Head(wire) \in Batches
            /\ \A i \in 1..Len(responses) :
                  responses[i] = pipeline[i].batch /\ pipeline[i].batch \in ToSet(applied)
<1>1. wire # <<>> /\ \A i \in 1..Len(responses) : responses[i] # "refused"
  BY PipelineFacts DEF Live, ToSet
<1>2. CASE ~handshake
  BY <1>1, <1>2 DEF IInv, ConnectionState
<1>3. CASE handshake
  <2>1. /\ stream = "Open" /\ Len(responses) + Len(wire) = Len(pipeline)
        /\ \A i \in 1..Len(responses) : Answers(i)
        /\ \A i \in 1..Len(wire) : wire[i] = pipeline[Len(responses) + i].batch
    BY <1>3, PipelineFacts DEF IInv, ConnectionState
  <2>2. /\ Len(wire) \in Nat /\ Len(responses) \in Nat /\ Len(wire) >= 1 /\ Head(wire) = wire[1]
    BY <1>1, PipelineFacts, TailPositions
  <2>3. Len(responses) + 1 \in 1..Len(pipeline) /\ 1 \in 1..Len(wire)
    BY <2>1, <2>2, PipelineFacts
  <2>4. pipeline[Len(responses) + 1] \in Entries
    BY <2>3, PipelineFacts, Positions
  <2>5. Head(wire) = pipeline[Len(responses) + 1].batch /\ Head(wire) \in Batches
    BY <2>1, <2>2, <2>3, <2>4, EntryIds
  <2>6. Head(wire) # "hello"
    BY <2>5, MessagesAssumption
  <2>7. \A i \in 1..Len(responses) :
          responses[i] = pipeline[i].batch /\ pipeline[i].batch \in ToSet(applied)
    BY <1>1, <2>1 DEF Answers
  <2> QED
    BY <1>3, <2>1, <2>2, <2>3, <2>5, <2>6, <2>7
<1>4. handshake \in BOOLEAN
  BY DEF IInv, TypeOK
<1> QED
  BY <1>2, <1>3, <1>4

(* The steps of the backend move a request to a response. *)
LEMMA BackendConnection ==
  ASSUME IInv, ServeHandshake \/ ServeWrite \/ ServeStray
  PROVE  ConnectionInv' /\ ToSet(applied) \subseteq ToSet(applied')
<1>1. UNCHANGED <<queue, user, pipeline, stream, handshake, idle>>
  BY DEF ServeHandshake, ServeWrite, ServeStray, disk, client
<1>2. ConnectionTypes /\ PipelineIsHeadOfQueue /\ ConnectionState /\ applied \in Seq(Batches)
  BY DEF IInv, TypeOK, ConnectionTypes
<1>3. PipelineIsHeadOfQueue'
  BY <1>1, <1>2 DEF PipelineIsHeadOfQueue
<1>4. CASE ServeHandshake
  <2>1. /\ Live /\ Head(wire) = "hello" /\ wire' = Tail(wire)
        /\ responses' = Append(responses, "hello") /\ applied' = applied
    BY <1>4 DEF ServeHandshake
  <2>2. ~handshake /\ stream = "Open" /\ wire' = <<>> /\ responses' = <<"hello">>
    <3>1. ~handshake /\ stream = "Open" /\ wire = <<"hello">> /\ responses = <<>>
      BY <2>1, LiveFacts, Zenon
    <3> QED
      BY <2>1, <3>1
  <2>3. <<>> \in Seq(Batches \cup {"hello"}) /\ <<"hello">> \in Seq(Batches \cup {"hello", "refused"})
    OBVIOUS
  <2>4. ConnectionTypes'
    BY <1>1, <1>2, <2>2, <2>3 DEF ConnectionTypes
  <2>5. ConnectionState'
    BY <1>1, <2>2 DEF ConnectionState
  <2> QED
    BY <1>3, <2>1, <2>4, <2>5 DEF ConnectionInv
<1>5. CASE ServeWrite
  <2> DEFINE R == Len(responses)
             h == Head(wire)
             a == IF h \in Bad THEN "refused" ELSE h
  <2>1. /\ Live /\ h # "hello" /\ wire' = Tail(wire) /\ responses' = Append(responses, a)
        /\ applied' = IF h \in Bad THEN applied ELSE Append(applied, h)
    BY <1>5 DEF ServeWrite
  <2>2. /\ handshake /\ stream = "Open" /\ Len(wire) >= 1 /\ R + 1 <= Len(pipeline)
        /\ h = pipeline[R + 1].batch /\ h \in Batches
    BY <2>1, LiveFacts
  <2>3. /\ wire \in Seq(Requests) /\ Len(wire) \in Nat /\ wire # <<>>
        /\ responses \in Seq(Responses) /\ R \in Nat /\ Len(pipeline) \in Nat
        /\ R + Len(wire) = Len(pipeline)
        /\ \A i \in 1..R : Answers(i)
        /\ \A i \in 1..Len(wire) : wire[i] = pipeline[R + i].batch
    BY <1>2, <2>1, <2>2, PipelineFacts DEF ConnectionState, Live
  <2>4. /\ wire' \in Seq(Requests) /\ Len(wire') = Len(wire) - 1
        /\ \A i \in 1..(Len(wire) - 1) : wire'[i] = wire[i + 1]
    BY <2>1, <2>3, TailPositions
  <2>5. a \in Responses
    BY <2>2 DEF Responses
  <2>6. /\ responses' \in Seq(Responses) /\ Len(responses') = R + 1
        /\ \A i \in 1..R : responses'[i] = responses[i]
        /\ responses'[R + 1] = a
    BY <2>1, <2>3, <2>5, AppendPositions
  <2>7. /\ ToSet(applied) \subseteq ToSet(applied')
        /\ h \notin Bad => h \in ToSet(applied')
    BY <1>2, <2>1, <2>2, AppendPositions
  <2> HIDE DEF h, a
  <2>8. ConnectionTypes'
    BY <1>1, <1>2, <2>4, <2>6 DEF ConnectionTypes, Requests, Responses
  <2>9. DOMAIN responses' = 1..(R + 1) /\ DOMAIN wire' = 1..(Len(wire) - 1)
    BY <2>4, <2>6, Positions
  <2>10. Len(responses') + Len(wire') = Len(pipeline')
    <3>1. R \in Nat /\ Len(wire) \in Nat /\ R + Len(wire) = Len(pipeline)
      BY <2>3
    <3>2. (R + 1) + (Len(wire) - 1) = Len(pipeline)
      BY <3>1
    <3> QED
      BY <1>1, <2>4, <2>6, <3>2
  <2>11. ASSUME NEW i \in DOMAIN responses' PROVE Answers(i)'
    <3>1. CASE i = R + 1
      <4>1. \/ responses'[i] = pipeline'[i].batch /\ responses'[i] \in ToSet(applied')
            \/ responses'[i] = "refused" /\ i = R + 1 /\ pipeline'[i].batch \in Bad
        BY <1>1, <2>2, <2>6, <2>7, <3>1 DEF a
      <4> QED
        BY <2>6, <4>1 DEF Answers
    <3>2. CASE i # R + 1
      <4>1. i \in 1..R
        <5>1. R \in Nat /\ i \in 1..(R + 1)
          BY <2>3, <2>9
        <5> QED
          BY <3>2, <5>1
      <4>2. responses'[i] = responses[i] /\ responses[i] = pipeline[i].batch /\ responses[i] \in ToSet(applied)
        BY <2>1, <2>6, <4>1, <2>2, LiveFacts DEF h
      <4> QED
        BY <1>1, <2>7, <4>2 DEF Answers
    <3> QED
      BY <3>1, <3>2
  <2>12. ASSUME NEW i \in DOMAIN wire' PROVE wire'[i] = pipeline'[Len(responses') + i].batch
    <3>1. i + 1 \in 1..Len(wire) /\ R + (i + 1) = R + 1 + i /\ i \in 1..(Len(wire) - 1)
      BY <2>3, <2>9
    <3>2. wire'[i] = pipeline[R + (i + 1)].batch
      BY <2>3, <2>4, <3>1
    <3> QED
      BY <1>1, <2>6, <3>1, <3>2
  <2>13. ConnectionState'
    BY <1>1, <2>2, <2>10, <2>11, <2>12 DEF ConnectionState
  <2> QED
    BY <1>3, <2>7, <2>8, <2>13 DEF ConnectionInv
<1>6. CASE ServeStray
  <2>1. /\ stray # <<>> /\ UNCHANGED <<wire, responses>>
        /\ applied' = IF Head(stray) \in Bad THEN applied ELSE Append(applied, Head(stray))
    BY <1>6 DEF ServeStray
  <2>2. Head(stray) \in Batches
    BY <2>1, PipelineFacts, HeadTailProperties
  <2>3. ToSet(applied) \subseteq ToSet(applied')
    BY <1>2, <2>1, <2>2, AppendPositions
  <2>4. \A i : Answers(i) => Answers(i)'
    BY <1>1, <2>1, <2>3 DEF Answers
  <2>5. ConnectionState'
    BY <1>1, <1>2, <2>1, <2>4 DEF ConnectionState
  <2>6. ConnectionTypes'
    BY <1>1, <1>2, <2>1 DEF ConnectionTypes
  <2> QED
    BY <1>3, <2>3, <2>5, <2>6 DEF ConnectionInv
<1> QED
  BY <1>4, <1>5, <1>6

(* The stream and the pipeline over every step. *)
LEMMA ConnectionStep ==
  ASSUME IInv, [Next]_vars
  PROVE  ConnectionInv'
<1>1. ASSUME NEW b \in Batches, WriteMutations(b) PROVE ConnectionInv'
  BY <1>1, WriteConnection
<1>2. ASSUME NEW u \in Users, HandleCredentialChange(u) PROVE ConnectionInv'
  <2>1. RestartNetwork(queue[u]) /\ user' = u /\ queue' = queue
    BY <1>2 DEF HandleCredentialChange
  <2>2. Fills(<<>>, queue[u], "Initial", <<>>) /\ handshake' = FALSE /\ responses' = <<>>
    BY <2>1, RestartFacts
  <2> QED
    BY <2>1, <2>2, ClosedConnection
<1>3. CASE Relaunch
  <2>1. RestartNetwork(queue[user]) /\ user' = user /\ queue' = queue
    BY <1>3 DEF Relaunch
  <2>2. user \in Users
    BY QueueFacts
  <2>3. Fills(<<>>, queue[user], "Initial", <<>>) /\ handshake' = FALSE /\ responses' = <<>>
    BY <2>1, <2>2, RestartFacts
  <2> QED
    BY <2>1, <2>3, ClosedConnection
<1>4. CASE OnWriteStreamMutationResult
  BY <1>4, AnswerConnection
<1>5. CASE HandlePermanentWriteError
  <2>1. handshake' = FALSE /\ responses' = <<>>
    BY <1>5 DEF HandlePermanentWriteError, Abandon
  <2> QED
    BY <1>5, <2>1, PermanentErrorFacts, ClosedConnection
<1>6. CASE \/ ResumeStartWithCredentials \/ OnWriteStreamHandshakeComplete
           \/ BackoffElapsed \/ IdleTimeout \/ StreamFails
  BY <1>6, StreamConnection
<1>7. CASE ServeHandshake \/ ServeWrite \/ ServeStray
  BY <1>7, BackendConnection
<1>8. CASE UNCHANGED vars
  BY <1>8 DEF IInv, TypeOK, ConnectionInv, ConnectionTypes, PipelineIsHeadOfQueue, ConnectionState,
              Answers, vars, disk, client, network
<1> QED
  BY <1>1, <1>2, <1>3, <1>4, <1>5, <1>6, <1>7, <1>8 DEF Next, ClientStep

------------------------------------------------------------------------------
(* Nothing becomes out of order when more is applied or queued. *)
LEMMA OrderGrows ==
  ASSUME NEW s, NEW q, NEW q2, NEW a, NEW a2, InOrder(s, q, a), a \subseteq a2,
         \A u \in Users : /\ Len(q[u]) \in Nat /\ DOMAIN q[u] = 1..Len(q[u])
                          /\ \A j \in DOMAIN q[u] : j \in DOMAIN q2[u] /\ q2[u][j] = q[u][j]
  PROVE  InOrder(s, q2, a2)
<1> SUFFICES ASSUME NEW i \in DOMAIN s, \A k \in 1..i : s[k] \notin Bad, s[i] \notin a2
             PROVE  \E u \in Users : \E j \in DOMAIN q2[u] :
                      /\ q2[u][j].batch = s[i]
                      /\ \A m \in 1..(j - 1) : q2[u][m].batch \in a2 \cup {s[k] : k \in 1..(i - 1)}
  BY DEF InOrder
<1>1. PICK u \in Users : \E j \in DOMAIN q[u] :
         /\ q[u][j].batch = s[i]
         /\ \A m \in 1..(j - 1) : q[u][m].batch \in a \cup {s[k] : k \in 1..(i - 1)}
  BY DEF InOrder
<1>2. PICK j \in DOMAIN q[u] :
         /\ q[u][j].batch = s[i]
         /\ \A m \in 1..(j - 1) : q[u][m].batch \in a \cup {s[k] : k \in 1..(i - 1)}
  BY <1>1
<1>3. \A m \in 1..(j - 1) : m \in DOMAIN q[u]
  OBVIOUS
<1>4. j \in DOMAIN q2[u] /\ q2[u][j].batch = s[i]
  BY <1>2
<1>5. \A m \in 1..(j - 1) : q2[u][m].batch \in a2 \cup {s[k] : k \in 1..(i - 1)}
  BY <1>2, <1>3
<1> QED
  BY <1>4, <1>5

(* Nothing becomes out of order when the front batch was applied, or will never be. *)
LEMMA OrderWithoutFront ==
  ASSUME IInv, pipeline # <<>>, NEW s \in Seq(Batches), InOrder(s, queue, ToSet(applied)),
         queue[user][1].batch \in ToSet(applied) \cup Bad, NEW q2,
         \A u \in Users : q2[u] = IF u = user THEN Tail(queue[user]) ELSE queue[u]
  PROVE  InOrder(s, q2, ToSet(applied))
<1> DEFINE a == ToSet(applied)
           old == queue[user]
<1>1. /\ \A u \in Users : Len(queue[u]) \in Nat /\ DOMAIN queue[u] = 1..Len(queue[u])
      /\ Tail(old) \in Seq(Entries) /\ Len(Tail(old)) = Len(old) - 1
      /\ \A i \in 1..(Len(old) - 1) : Tail(old)[i] = old[i + 1]
      /\ user \in Users
  BY QueueFacts, FrontFacts
<1>2. DOMAIN Tail(old) = 1..(Len(old) - 1)
  BY <1>1, Positions
<1>3. \A i \in DOMAIN s : i \in 1..i
  BY Positions
<1> HIDE DEF a
<1> SUFFICES ASSUME NEW i \in DOMAIN s, \A k \in 1..i : s[k] \notin Bad, s[i] \notin a
             PROVE  \E u \in Users : \E j \in DOMAIN q2[u] :
                      /\ q2[u][j].batch = s[i]
                      /\ \A m \in 1..(j - 1) : q2[u][m].batch \in a \cup {s[k] : k \in 1..(i - 1)}
  BY DEF InOrder, a
<1>4. PICK u \in Users : \E j \in DOMAIN queue[u] :
         /\ queue[u][j].batch = s[i]
         /\ \A m \in 1..(j - 1) : queue[u][m].batch \in a \cup {s[k] : k \in 1..(i - 1)}
  BY DEF InOrder, a
<1>5. PICK j \in DOMAIN queue[u] :
         /\ queue[u][j].batch = s[i]
         /\ \A m \in 1..(j - 1) : queue[u][m].batch \in a \cup {s[k] : k \in 1..(i - 1)}
  BY <1>4
<1>6. CASE u # user
  BY <1>5, <1>6
<1>7. CASE u = user
  <2>1. j # 1
    BY <1>3, <1>5, <1>7 DEF a
  <2>2. j - 1 \in DOMAIN q2[u] /\ q2[u][j - 1] = queue[u][j]
    <3>1. j \in 1..Len(old) /\ Len(old) \in Nat
      BY <1>1, <1>7
    <3>2. j - 1 \in 1..(Len(old) - 1) /\ (j - 1) + 1 = j
      BY <2>1, <3>1
    <3> QED
      BY <1>1, <1>2, <1>7, <3>2
  <2>3. ASSUME NEW m \in 1..(j - 1 - 1)
        PROVE  q2[u][m].batch \in a \cup {s[k] : k \in 1..(i - 1)}
    <3>1. j \in 1..Len(old) /\ Len(old) \in Nat
      BY <1>1, <1>7
    <3>2. m \in 1..(Len(old) - 1) /\ m + 1 \in 1..(j - 1)
      BY <3>1
    <3>3. q2[u][m] = queue[u][m + 1]
      BY <1>1, <1>7, <3>2
    <3> QED
      BY <1>5, <3>2, <3>3
  <2> QED
    BY <1>5, <2>2, <2>3
<1> QED
  BY <1>6, <1>7

(* What may still arrive after a connection is given up. *)
LEMMA AbandonOrder ==
  ASSUME IInv, Abandon
  PROVE  /\ stray' \in Seq(Batches) /\ InOrder(stray', queue, ToSet(applied))
         /\ "refused" \in ToSet(responses) => stray' = stray
<1>1. CASE ~(stream = "Open" /\ "refused" \notin ToSet(responses))
  BY <1>1 DEF Abandon, IInv, TypeOK, StrayState
<1>2. CASE stream = "Open" /\ "refused" \notin ToSet(responses) /\ ~handshake
  <2>1. stray' = Writes(wire) /\ (wire = <<"hello">> \/ wire = <<>>)
    BY <1>2 DEF Abandon, IInv, ConnectionState
  <2>2. Writes(<<"hello">>) = <<>> /\ Writes(<<>>) = <<>>
    BY DEF Writes
  <2>3. stray' = <<>>
    BY <2>1, <2>2
  <2> QED
    BY <1>2, <2>3 DEF InOrder
<1>3. CASE stream = "Open" /\ "refused" \notin ToSet(responses) /\ handshake
  <2> DEFINE R == Len(responses)
             W == Len(wire)
             P == Len(pipeline)
             q == queue[user]
  <2>1. /\ R + W = P
        /\ \A i \in 1..R : Answers(i)
        /\ \A i \in 1..W : wire[i] = pipeline[R + i].batch
        /\ R \in Nat /\ W \in Nat /\ P \in Nat /\ P <= Len(q) /\ DOMAIN q = 1..Len(q)
        /\ Len(q) \in Nat /\ wire \in Seq(Requests) /\ DOMAIN wire = 1..W
        /\ \A i \in 1..P : pipeline[i] = q[i]
        /\ \A i \in 1..Len(q) : q[i].batch \in Batches
        /\ user \in Users
    BY <1>3, PipelineFacts, QueueFacts, EntryIds DEF IInv, ConnectionState
  <2>2. \A i \in 1..W : R + i \in 1..Len(q) /\ wire[i] = q[R + i].batch
    <3> TAKE i \in 1..W
    <3>1. R + i \in 1..P /\ R + i \in 1..Len(q)
      BY <2>1
    <3> QED
      BY <2>1, <3>1
  <2>3. \A i \in 1..W : wire[i] \in Batches
    BY <2>1, <2>2
  <2>4. stray' = wire
    <3>1. wire # <<>> => Head(wire) # "hello"
      BY <2>1, <2>3, MessagesAssumption, TailPositions
    <3> QED
      BY <1>3, <3>1 DEF Abandon, Writes
  <2>5. wire \in Seq(Batches)
    <3>1. wire \in [1..W -> Batches]
      <4>1. wire \in [1..W -> Requests]
        BY <2>1, SeqDef
      <4> QED
        BY <2>3, <4>1
    <3> QED
      BY <2>1, <3>1, SeqDef
  <2>6. \A i \in 1..R : q[i].batch \in ToSet(applied)
    <3> TAKE i \in 1..R
    <3>1. responses[i] # "refused"
      BY <1>3, PipelineFacts DEF ToSet
    <3>2. i \in 1..P
      BY <2>1
    <3>3. pipeline[i] = q[i] /\ Answers(i)
      BY <2>1, <3>2
    <3> QED
      BY <3>1, <3>3 DEF Answers
  <2>7. InOrder(wire, queue, ToSet(applied))
    <3> SUFFICES ASSUME NEW i \in 1..W
                 PROVE  \E u \in Users : \E j \in DOMAIN queue[u] :
                          /\ queue[u][j].batch = wire[i]
                          /\ \A m \in 1..(j - 1) : queue[u][m].batch \in
                                ToSet(applied) \cup {wire[k] : k \in 1..(i - 1)}
      BY <2>1 DEF InOrder
    <3>1. ASSUME NEW m \in 1..(R + i - 1)
          PROVE  q[m].batch \in ToSet(applied) \cup {wire[k] : k \in 1..(i - 1)}
      <4>1. CASE m \in 1..R
        BY <2>6, <4>1
      <4>2. CASE m \notin 1..R
        <5>1. m - R \in 1..(i - 1) /\ m - R \in 1..W /\ R + (m - R) = m
          BY <2>1, <4>2
        <5> QED
          BY <2>2, <5>1
      <4> QED
        BY <4>1, <4>2
    <3>2. R + i \in DOMAIN q /\ q[R + i].batch = wire[i]
      BY <2>1, <2>2
    <3> DEFINE j == R + i
    <3>3. user \in Users /\ q = queue[user]
      BY <2>1
    <3>4. /\ j \in DOMAIN q /\ q[j].batch = wire[i]
          /\ \A m \in 1..(j - 1) : q[m].batch \in
                ToSet(applied) \cup {wire[k] : k \in 1..(i - 1)}
      BY <3>1, <3>2
    <3> HIDE DEF j, R, W, P, q
    <3> QED
      BY <3>3, <3>4
  <2> QED
    BY <1>3, <2>4, <2>5, <2>7
<1>4. handshake \in BOOLEAN
  BY DEF IInv, TypeOK
<1> QED
  BY <1>1, <1>2, <1>3, <1>4

(* The backend serves the next stray request, or drops them all. *)
LEMMA ServeStrayOrder ==
  ASSUME IInv, ServeStray
  PROVE  stray' \in Seq(Batches) /\ InOrder(stray', queue, ToSet(applied'))
<1> DEFINE h == Head(stray)
<1>1. /\ stray # <<>>
      /\ IF h \in Bad THEN stray' = <<>> /\ UNCHANGED applied
                      ELSE stray' = Tail(stray) /\ applied' = Append(applied, h)
  BY DEF ServeStray
<1>2. CASE h \in Bad
  <2>1. stray' = <<>>
    BY <1>1, <1>2
  <2> QED
    BY <2>1 DEF InOrder
<1>3. CASE h \notin Bad
  <2> DEFINE n == Len(stray)
             a == ToSet(applied)
             s == Tail(stray)
  <2>1. /\ stray \in Seq(Batches) /\ n \in Nat /\ n >= 1 /\ DOMAIN stray = 1..n
        /\ h = stray[1] /\ h \in Batches
        /\ s \in Seq(Batches) /\ Len(s) = n - 1
        /\ \A i \in 1..(n - 1) : s[i] = stray[i + 1]
    BY <1>1, PipelineFacts, TailPositions, Positions
  <2>2. DOMAIN s = 1..(n - 1)
    BY <2>1, Positions
  <2>3. ToSet(applied') = a \cup {h}
    <3>1. applied' = Append(applied, h) /\ applied \in Seq(Batches) /\ h \in Batches
      BY <1>1, <1>3, <2>1, PipelineFacts
    <3> HIDE DEF h
    <3> QED
      BY <3>1, AppendPositions
  <2>4. InOrder(stray, queue, a)
    BY DEF IInv, StrayState
  <2> HIDE DEF s, a, h, n
  <2>5. InOrder(s, queue, a \cup {h})
    <3> SUFFICES ASSUME NEW i \in 1..(n - 1), \A k \in 1..i : s[k] \notin Bad,
                        s[i] \notin a \cup {h}
                 PROVE  \E u \in Users : \E j \in DOMAIN queue[u] :
                          /\ queue[u][j].batch = s[i]
                          /\ \A m \in 1..(j - 1) : queue[u][m].batch \in
                                a \cup {h} \cup {s[k] : k \in 1..(i - 1)}
      BY <2>2 DEF InOrder
    <3>1. i + 1 \in DOMAIN stray /\ s[i] = stray[i + 1] /\ (i + 1) - 1 = i
      BY <2>1
    <3>2. ASSUME NEW k \in 1..(i + 1) PROVE stray[k] \notin Bad
      <4>1. CASE k = 1
        BY <1>3, <2>1, <4>1
      <4>2. CASE k # 1
        <5>1. k - 1 \in 1..i /\ k - 1 \in 1..(n - 1) /\ (k - 1) + 1 = k
          BY <2>1, <4>2
        <5> QED
          BY <2>1, <5>1
      <4> QED
        BY <4>1, <4>2
    <3>3. PICK u \in Users : \E j \in DOMAIN queue[u] :
             /\ queue[u][j].batch = s[i]
             /\ \A m \in 1..(j - 1) : queue[u][m].batch \in a \cup {stray[k] : k \in 1..i}
      BY <2>4, <3>1, <3>2 DEF InOrder
    <3>4. {stray[k] : k \in 1..i} \subseteq {h} \cup {s[k] : k \in 1..(i - 1)}
      <4> SUFFICES ASSUME NEW k \in 1..i, k # 1 PROVE stray[k] \in {s[l] : l \in 1..(i - 1)}
        BY <2>1
      <4>1. k - 1 \in 1..(i - 1) /\ k - 1 \in 1..(n - 1) /\ (k - 1) + 1 = k
        BY <2>1
      <4> QED
        BY <2>1, <4>1
    <3> QED
      BY <3>3, <3>4
  <2> QED
    BY <1>1, <1>3, <2>1, <2>3, <2>5 DEF s
<1> QED
  BY <1>2, <1>3

(* The stray requests over every step. *)
LEMMA StrayStep ==
  ASSUME IInv, [Next]_vars
  PROVE  StrayInv'
<1>1. /\ stray \in Seq(Batches) /\ applied \in Seq(Batches) /\ InOrder(stray, queue, ToSet(applied))
      /\ user \in Users /\ queue \in [Users -> Seq(Entries)]
  BY DEF IInv, TypeOK, StrayState
<1>2. ASSUME NEW b \in Batches, WriteMutations(b) PROVE StrayInv'
  <2> DEFINE entry == [id |-> nextId, batch |-> b]
             q == Append(queue[user], entry)
  <2>1. queue' = [queue EXCEPT ![user] = q] /\ stray' = stray /\ applied' = applied
    BY <1>2 DEF WriteMutations
  <2>2. ASSUME NEW u \in Users, NEW j \in DOMAIN queue[u]
        PROVE  j \in DOMAIN queue'[u] /\ queue'[u][j] = queue[u][j]
    <3>1. CASE u # user
      BY <1>1, <2>1, <3>1
    <3>2. CASE u = user
      <4>1. Len(q) = Len(queue[u]) + 1 /\ \A i \in 1..Len(queue[u]) : q[i] = queue[u][i]
        BY <1>1, <3>2, AppendProperties
      <4>2. queue'[u] = q /\ q \in Seq(Entries)
        <5>1. QueueInv' /\ queue'[u] = q
          BY <1>1, <1>2, <2>1, <3>2, WriteQueue
        <5> QED
          BY <5>1 DEF QueueInv, QueueTypes
      <4>3. DOMAIN q = 1..Len(q) /\ DOMAIN queue[u] = 1..Len(queue[u]) /\ Len(queue[u]) \in Nat
        BY <1>1, <4>2, Positions
      <4> QED
        BY <4>1, <4>2, <4>3
    <3> QED
      BY <3>1, <3>2
  <2>3. InOrder(stray, queue', ToSet(applied))
    BY <1>1, <2>2, QueueFacts, OrderGrows, SMTT(30)
  <2> QED
    BY <1>1, <2>1, <2>3 DEF StrayInv, StrayState
<1>3. ASSUME Abandon, queue' = queue, applied' = applied PROVE StrayInv'
  BY <1>3, AbandonOrder DEF StrayInv, StrayState
<1>4. CASE \/ \E u \in Users : HandleCredentialChange(u)
           \/ Relaunch \/ StreamFails \/ IdleTimeout
  BY <1>3, <1>4 DEF HandleCredentialChange, Relaunch, RestartNetwork, StreamFails, IdleTimeout, disk
<1>5. CASE OnWriteStreamMutationResult
  <2>1. /\ pipeline # <<>> /\ responses # <<>> /\ Head(responses) # "refused" /\ handshake
        /\ queue' = [queue EXCEPT ![user] = Dequeue(queue[user], Head(pipeline).id)]
        /\ stray' = stray /\ applied' = applied
    BY <1>5 DEF OnWriteStreamMutationResult
  <2>2. \A u \in Users : queue'[u] = IF u = user THEN Tail(queue[user]) ELSE queue[u]
    BY <1>1, <2>1, FrontFacts
  <2>3. Head(responses) = responses[1] /\ 1 \in DOMAIN responses
    BY <2>1, PipelineFacts, TailPositions
  <2>4. Answers(1)
    BY <2>1, <2>3 DEF IInv, ConnectionState
  <2>5. queue[user][1].batch \in ToSet(applied)
    BY <2>1, <2>3, <2>4, FrontFacts DEF Answers
  <2>6. InOrder(stray, queue', ToSet(applied))
    BY <1>1, <2>1, <2>2, <2>5, OrderWithoutFront
  <2> QED
    BY <1>1, <2>1, <2>6 DEF StrayInv, StrayState
<1>6. CASE HandlePermanentWriteError
  <2>1. /\ pipeline # <<>> /\ responses # <<>> /\ Head(responses) = "refused" /\ handshake
        /\ queue' = [queue EXCEPT ![user] = Dequeue(queue[user], Head(pipeline).id)]
        /\ Abandon /\ applied' = applied
    BY <1>6 DEF HandlePermanentWriteError
  <2>2. \A u \in Users : queue'[u] = IF u = user THEN Tail(queue[user]) ELSE queue[u]
    BY <1>1, <2>1, FrontFacts
  <2>3. Head(responses) = responses[1] /\ 1 \in DOMAIN responses
    BY <2>1, PipelineFacts, TailPositions
  <2>4. Answers(1)
    BY <2>1, <2>3 DEF IInv, ConnectionState
  <2>5. "refused" \in ToSet(responses)
    BY <2>1, <2>3 DEF ToSet
  <2>6. queue[user][1].batch \in ToSet(applied) \cup Bad
    BY <2>3, <2>4, FrontFacts, <2>1 DEF Answers
  <2>7. stray' = stray
    BY <2>1, <2>5, AbandonOrder
  <2>8. InOrder(stray, queue', ToSet(applied))
    BY <1>1, <2>1, <2>2, <2>6, OrderWithoutFront
  <2> QED
    BY <1>1, <2>1, <2>7, <2>8 DEF StrayInv, StrayState
<1>7. CASE ServeWrite \/ ServeHandshake
  <2>1. stray' = stray /\ queue' = queue
    BY <1>7 DEF ServeWrite, ServeHandshake, disk
  <2>2. ToSet(applied) \subseteq ToSet(applied')
    BY <1>7, BackendConnection
  <2>3. InOrder(stray, queue, ToSet(applied'))
    BY <1>1, <2>2, QueueFacts, OrderGrows
  <2> QED
    BY <1>1, <2>1, <2>3 DEF StrayInv, StrayState
<1>8. CASE ServeStray
  <2>1. queue' = queue
    BY <1>8 DEF ServeStray, disk
  <2> QED
    BY <1>8, <2>1, ServeStrayOrder DEF StrayInv, StrayState
<1>9. CASE \/ ResumeStartWithCredentials \/ OnWriteStreamHandshakeComplete \/ BackoffElapsed
           \/ UNCHANGED vars
  <2>1. UNCHANGED <<stray, applied, queue>>
    BY <1>9 DEF ResumeStartWithCredentials, OnWriteStreamHandshakeComplete, BackoffElapsed, vars,
                disk, network
  <2> QED
    BY <1>1, <2>1 DEF StrayInv, StrayState
<1> QED
  BY <1>2, <1>4, <1>5, <1>6, <1>7, <1>8, <1>9 DEF Next, ClientStep

------------------------------------------------------------------------------
(* Who is signed in, the bound on disturbances and what the backend has applied. *)
LEMMA OtherTypes ==
  ASSUME IInv, [Next]_vars
  PROVE  user' \in Users /\ faults' \in 0..MaxFaults /\ applied' \in Seq(Batches)
<1>1. /\ user \in Users /\ faults \in 0..MaxFaults /\ applied \in Seq(Batches) /\ MaxFaults \in Nat
  BY MaxFaultsAssumption DEF IInv, TypeOK
<1>2. user' \in Users
  BY <1>1 DEF Next, ClientStep, WriteMutations, HandleCredentialChange, Relaunch,
       ResumeStartWithCredentials, OnWriteStreamHandshakeComplete, OnWriteStreamMutationResult,
       HandlePermanentWriteError, BackoffElapsed, IdleTimeout, StreamFails, ServeHandshake,
       ServeWrite, ServeStray, vars, client
<1>3. faults' \in 0..MaxFaults
  <2>1. faults' = faults \/ (faults < MaxFaults /\ faults' = faults + 1)
    BY DEF Next, ClientStep, WriteMutations, HandleCredentialChange, Relaunch,
       ResumeStartWithCredentials, OnWriteStreamHandshakeComplete, OnWriteStreamMutationResult,
       HandlePermanentWriteError, BackoffElapsed, IdleTimeout, StreamFails, ServeHandshake,
       ServeWrite, ServeStray, vars
  <2> QED
    BY <1>1, <2>1
<1>4. applied' \in Seq(Batches)
  <2>1. CASE ServeWrite
    <3>1. Head(wire) \in Batches
      BY <2>1, LiveFacts DEF ServeWrite
    <3>2. applied' = applied \/ applied' = Append(applied, Head(wire))
      BY <2>1 DEF ServeWrite
    <3> QED
      BY <1>1, <3>1, <3>2, AppendPositions
  <2>2. CASE ServeStray
    <3>1. Head(stray) \in Batches
      BY <2>2, PipelineFacts, HeadTailProperties DEF ServeStray
    <3>2. applied' = applied \/ applied' = Append(applied, Head(stray))
      BY <2>2 DEF ServeStray
    <3> QED
      BY <1>1, <3>1, <3>2, AppendPositions
  <2>3. ASSUME ~ServeWrite, ~ServeStray PROVE applied' = applied
    BY <2>3 DEF Next, ClientStep, WriteMutations, HandleCredentialChange, Relaunch,
       ResumeStartWithCredentials, OnWriteStreamHandshakeComplete, OnWriteStreamMutationResult,
       HandlePermanentWriteError, BackoffElapsed, IdleTimeout, StreamFails, ServeHandshake,
       vars, network
  <2> QED
    BY <1>1, <2>1, <2>2, <2>3
<1> QED
  BY <1>2, <1>3, <1>4

LEMMA InitInv == Init => IInv
<1> SUFFICES ASSUME Init PROVE IInv
  OBVIOUS
<1>1. \A S : <<>> \in Seq(S) /\ Len(<<>>) = 0 /\ DOMAIN <<>> = {}
  BY EmptySeq
<1>2. Cardinality(Batches) \in Nat /\ MaxFaults \in Nat /\ MaxPending \in Nat
  BY EntryIds, MaxFaultsAssumption, MaxPendingAssumption
<1>3. user \in Users /\ queue[user] = <<>> /\ \A u \in Users : queue[u] = <<>>
  BY DEF Init
<1>4. TypeOK
  <2>1. QueueTypes
    BY <1>1, <1>2 DEF Init, QueueTypes
  <2>2. /\ pipeline = <<>> /\ wire = <<>> /\ responses = <<>> /\ stray = <<>> /\ applied = <<>>
        /\ stream \in StreamStates /\ handshake \in BOOLEAN /\ idle \in BOOLEAN
    BY DEF Init, StreamStates
  <2>3. Len(pipeline) <= MaxPending /\ faults \in 0..MaxFaults
    BY <1>2, <2>2 DEF Init
  <2> QED
    BY <1>1, <1>3, <2>1, <2>2, <2>3, Zenon DEF QueueTypes, TypeOK
<1>5. IdsAreCounted
  <2>1. Written = {}
    BY DEF Written, Init
  <2> QED
    BY <2>1, FS_EmptySet DEF IdsAreCounted, Init
<1>6. QueueIsOrdered /\ QueuedOnce
  BY <1>1, <1>3 DEF QueueIsOrdered, QueuedOnce
<1>7. CallbackIsOwn
  BY DEF CallbackIsOwn, Init
<1>8. PipelineIsHeadOfQueue
  <2>1. IsPrefix(<<>>, queue[user])
    BY <1>1, <1>3, EmptyPrefix, Zenon
  <2> QED
    BY <2>1 DEF PipelineIsHeadOfQueue, Init
<1>9. ConnectionState
  BY DEF ConnectionState, Init
<1>10. StrayState
  BY <1>1 DEF StrayState, InOrder, Init
<1> QED
  BY <1>4, <1>5, <1>6, <1>7, <1>8, <1>9, <1>10 DEF IInv

LEMMA StepInv == IInv /\ [Next]_vars => IInv'
<1> SUFFICES ASSUME IInv, [Next]_vars PROVE IInv'
  OBVIOUS
<1>1. QueueInv' /\ ConnectionInv' /\ StrayInv'
  BY QueueStep, ConnectionStep, StrayStep
<1>2. TypeOK'
  BY <1>1, OtherTypes DEF TypeOK, QueueInv, QueueTypes, ConnectionInv, ConnectionTypes, StrayInv
<1> QED
  BY <1>1, <1>2 DEF IInv, QueueInv, ConnectionInv, StrayInv

LEMMA Invariance == Spec => []IInv
  BY InitInv, StepInv, PTL DEF Spec

(* WritePipeline's types, ids included: the counter never passes the number of  *)
(* writes, although it is set back by launches and changes of user.             *)
THEOREM TypeCorrect == Spec => []TypeOK
<1>1. IInv => TypeOK
  BY DEF IInv
<1> QED
  BY <1>1, Invariance, PTL

(* The write pipeline stays the head of the signed-in user's mutation queue, and *)
(* its stream runs while anything is in it (FillWritePipeline, RestartNetwork,   *)
(* OnWriteStreamClose).                                                          *)
THEOREM PipelineIsHeadOfQueueHolds == Spec => []PipelineIsHeadOfQueue
<1>1. IInv => PipelineIsHeadOfQueue
  BY DEF IInv
<1> QED
  BY <1>1, Invariance, PTL

(* The response that comes next is for the front of the pipeline. *)
LEMMA NextAnswer ==
  ASSUME IInv
  PROVE  AnswerIsForFront
<1> SUFFICES ASSUME handshake, responses # <<>>
             PROVE  /\ pipeline # <<>>
                    /\ Head(responses) \in {"refused", Head(pipeline).batch}
                    /\ Head(responses) = "refused" => Head(pipeline).batch \in Bad
  BY DEF AnswerIsForFront
<1>1. 1 \in DOMAIN responses /\ Head(responses) = responses[1] /\ Len(responses) >= 1
  BY PipelineFacts, TailPositions
<1>2. Answers(1) /\ Len(responses) + Len(wire) = Len(pipeline)
  BY <1>1 DEF IInv, ConnectionState
<1>3. pipeline # <<>>
  BY <1>1, <1>2, PipelineFacts, Positions
<1>4. Head(pipeline) = pipeline[1]
  BY <1>3, PipelineFacts, TailPositions
<1>5. \A i \in 1..Len(pipeline) : pipeline[i].batch \in Batches
  BY PipelineFacts, Positions, EntryIds
<1>6. pipeline[1].batch # "refused"
  BY <1>3, <1>5, PipelineFacts, TailPositions, MessagesAssumption
<1> QED
  BY <1>1, <1>2, <1>3, <1>4, <1>6 DEF Answers

(* The response that comes next is for the front of the pipeline, for any number *)
(* of writes in flight and of reconnects (OnWriteStreamMutationResult,           *)
(* HandlePermanentWriteError).                                                   *)
THEOREM AnswerIsForFrontHolds == Spec => []AnswerIsForFront
  BY NextAnswer, Invariance, PTL

(* The callbacks are those of queued writes, and a caller waits exactly as long as *)
(* its callback is there, although batch ids are given again (NotifyUser).         *)
THEOREM CallbackIsOwnHolds == Spec => []CallbackIsOwn
<1>1. IInv => CallbackIsOwn
  BY DEF IInv
<1> QED
  BY <1>1, Invariance, PTL

------------------------------------------------------------------------------
(* The mutation queues as WriteService sees them. *)
Pending == [u \in Users |-> Content(queue[u])]

LEMMA ContentAppend ==
  ASSUME NEW q \in Seq(Entries), NEW e \in Entries
  PROVE  Content(Append(q, e)) = Append(Content(q), e.batch)
<1> DEFINE n == Len(q)
           s == Content(Append(q, e))
           c == Content(q)
           t == Append(c, e.batch)
<1>1. e.batch \in Batches /\ n \in Nat
  BY EntryIds, Positions
<1>2. /\ Append(q, e) \in Seq(Entries) /\ Len(Append(q, e)) = n + 1
      /\ \A i \in 1..n : Append(q, e)[i] = q[i]
      /\ Append(q, e)[n + 1] = e
  BY AppendPositions
<1>3. /\ s \in Seq(Batches) /\ Len(s) = n + 1
      /\ \A i \in 1..(n + 1) : s[i] = Append(q, e)[i].batch
  BY <1>2, ContentPositions
<1>4. c \in Seq(Batches) /\ Len(c) = n /\ \A i \in 1..n : c[i] = q[i].batch
  BY ContentPositions
<1>5. /\ t \in Seq(Batches) /\ Len(t) = n + 1
      /\ \A i \in 1..n : t[i] = c[i]
      /\ t[n + 1] = e.batch
  BY <1>1, <1>4, AppendPositions
<1> HIDE DEF s, t, c
<1>6. \A i \in 1..(n + 1) : s[i] = t[i]
  <2> TAKE i \in 1..(n + 1)
  <2>1. CASE i = n + 1
    BY <1>1, <1>2, <1>3, <1>5, <2>1
  <2>2. CASE i # n + 1
    <3>1. i \in 1..n
      BY <1>1, <2>2
    <3> QED
      BY <1>2, <1>3, <1>4, <1>5, <3>1
  <2> QED
    BY <2>1, <2>2
<1>7. s = t
  BY <1>3, <1>5, <1>6, SeqEqual
<1> QED
  BY <1>7 DEF s, t, c

LEMMA ContentTail ==
  ASSUME NEW q \in Seq(Entries), q # <<>>
  PROVE  /\ Content(Tail(q)) = Tail(Content(q))
         /\ Content(q) # <<>> /\ Head(Content(q)) = q[1].batch
<1> DEFINE n == Len(q)
           s == Content(Tail(q))
           c == Content(q)
           t == Tail(c)
<1>1. /\ n \in Nat /\ n >= 1 /\ Tail(q) \in Seq(Entries) /\ Len(Tail(q)) = n - 1
      /\ \A i \in 1..(n - 1) : Tail(q)[i] = q[i + 1]
  BY TailPositions, Positions
<1>2. c \in Seq(Batches) /\ Len(c) = n /\ \A i \in 1..n : c[i] = q[i].batch
  BY ContentPositions
<1>3. c # <<>>
  BY <1>1, <1>2, Positions
<1>4. /\ s \in Seq(Batches) /\ Len(s) = n - 1
      /\ \A i \in 1..(n - 1) : s[i] = Tail(q)[i].batch
  <2> DEFINE r == Tail(q)
  <2>1. r \in Seq(Entries) /\ Len(r) = n - 1
    BY <1>1
  <2> HIDE DEF r
  <2>2. /\ Content(r) \in Seq(Batches) /\ Len(Content(r)) = n - 1
        /\ \A i \in 1..(n - 1) : Content(r)[i] = r[i].batch
    BY <2>1, ContentPositions
  <2> QED
    BY <2>2 DEF r
<1> HIDE DEF s, c
<1>5. /\ t \in Seq(Batches) /\ Len(t) = n - 1 /\ Head(c) = c[1]
      /\ \A i \in 1..(n - 1) : t[i] = c[i + 1]
  BY <1>2, <1>3, TailPositions
<1> HIDE DEF t
<1>6. \A i \in 1..(n - 1) : s[i] = t[i]
  <2> TAKE i \in 1..(n - 1)
  <2>1. i + 1 \in 1..n
    BY <1>1
  <2> QED
    BY <1>1, <1>2, <1>4, <1>5, <2>1
<1>7. s = t
  BY <1>4, <1>5, <1>6, SeqEqual
<1> QED
  BY <1>1, <1>2, <1>3, <1>5, <1>7 DEF s, t, c

(* A write may be applied once all that were accepted before it are. *)
LEMMA MayApply ==
  ASSUME IInv, NEW u \in Users, NEW j \in DOMAIN queue[u], NEW b, queue[u][j].batch = b,
         b \notin Bad, \A m \in 1..(j - 1) : queue[u][m].batch \in ToSet(applied),
         ToSet(applied') = ToSet(applied) \cup {b}, UNCHANGED <<queue, answer>>
  PROVE  Service!Apply(u)
<1> DEFINE s == Content(queue[u])
           r == SubSeq(s, 1, j - 1)
<1>1. /\ queue[u] \in Seq(Entries) /\ j \in 1..Len(queue[u]) /\ Len(queue[u]) \in Nat
  BY QueueFacts
<1>2. /\ s \in Seq(Batches) /\ Len(s) = Len(queue[u])
      /\ \A i \in 1..Len(s) : s[i] = queue[u][i].batch
  BY <1>1, ContentPositions
<1>3. DOMAIN s = 1..Len(s)
  BY <1>2, Positions
<1> HIDE DEF s
<1>4. /\ r \in Seq(Batches) /\ Len(r) = j - 1
      /\ \A i \in 1..(j - 1) : r[i] = s[i]
  <2>1. \A i \in 1..(j - 1) : s[i] \in Batches
    BY <1>1, <1>2, Positions
  <2>2. 1 \in Int /\ j - 1 \in Int /\ j - 1 >= 0
    BY <1>1
  <2>3. /\ r \in Seq(Batches) /\ Len(r) = IF 1 <= j - 1 THEN j - 1 - 1 + 1 ELSE 0
        /\ \A i \in 1..(j - 1 - 1 + 1) : r[i] = s[1 + i - 1]
    BY <2>1, <2>2, SubSeqProperties
  <2> QED
    BY <1>1, <2>2, <2>3
<1>5. DOMAIN r = 1..(j - 1)
  BY <1>4, Positions
<1>6. Service!Elements(r) \subseteq ToSet(applied)
  <2> HIDE DEF r
  <2>1. \A i \in 1..(j - 1) : r[i] \in ToSet(applied)
    BY <1>1, <1>2, <1>4
  <2> QED
    BY <1>5, <2>1 DEF Service!Elements
<1>7. s[j] = b /\ j \in DOMAIN s
  BY <1>1, <1>2, <1>3
<1>8. Pending[u] = s /\ Pending' = Pending
  BY DEF Pending, s
<1>9. /\ j \in DOMAIN Pending[u]
      /\ Service!Elements(SubSeq(Pending[u], 1, j - 1)) \subseteq ToSet(applied)
      /\ Pending[u][j] \notin Bad
      /\ ToSet(applied)' = ToSet(applied) \cup {Pending[u][j]}
      /\ UNCHANGED <<Pending, answer>>
  BY <1>6, <1>7, <1>8
<1> QED
  BY <1>9 DEF Service!Apply, Pending

(* What is answered is resolved. *)
LEMMA Resolves ==
  ASSUME IInv, pipeline # <<>>, NEW result, NotifyUser(Head(pipeline).id, result),
         queue' = [queue EXCEPT ![user] = Dequeue(queue[user], Head(pipeline).id)],
         applied' = applied
  PROVE  /\ Service!Resolve(user, result)
         /\ Head(Pending[user]) = queue[user][1].batch
<1> DEFINE q == queue[user]
<1>1. /\ q \in Seq(Entries) /\ q # <<>> /\ Dequeue(q, Head(pipeline).id) = Tail(q)
      /\ user \in Users /\ queue \in [Users -> Seq(Entries)]
  BY QueueFacts, FrontFacts DEF IInv, TypeOK
<1>2. /\ Content(Tail(q)) = Tail(Content(q))
      /\ Content(q) # <<>> /\ Head(Content(q)) = q[1].batch
  BY <1>1, ContentTail
<1>3. Pending[user] = Content(q)
  BY <1>1 DEF Pending
<1>4. Pending' = [Pending EXCEPT ![user] = Tail(Pending[user])]
  <2>1. \A u \in Users : queue'[u] = IF u = user THEN Tail(q) ELSE queue[u]
    BY <1>1
  <2> HIDE DEF q
  <2>2. \A u \in Users : Content(queue'[u]) = IF u = user THEN Tail(Pending[user])
                                             ELSE Content(queue[u])
    <3> TAKE u \in Users
    <3>1. CASE u = user
      <4>1. queue'[u] = Tail(q) /\ Content(Tail(q)) = Tail(Pending[user])
        BY <1>2, <1>3, <2>1, <3>1
      <4> QED
        BY <3>1, <4>1, Zenon
    <3>2. CASE u # user
      <4>1. queue'[u] = queue[u]
        BY <2>1, <3>2
      <4>2. Content(queue'[u]) = Content(queue[u])
        BY <4>1, Zenon
      <4> QED
        BY <3>2, <4>2
    <3> QED
      BY <3>1, <3>2
  <2>3. \A u \in Users : Pending[u] = Content(queue[u])
    BY DEF Pending
  <2>4. /\ Pending = [u \in Users |-> Pending[u]]
        /\ Pending' = [u \in Users |-> Content(queue'[u])]
    BY DEF Pending
  <2>5. \A u \in Users : Content(queue'[u]) = IF u = user THEN Tail(Pending[user])
                                             ELSE Pending[u]
    BY <2>2, <2>3
  <2> QED
    BY <1>1, <2>4, <2>5
<1>5. answer' = [answer EXCEPT ![Head(Pending[user])] =
                    IF answer[Head(Pending[user])] = "waiting" THEN result
                    ELSE answer[Head(Pending[user])]]
  BY <1>2, <1>3, NotifyFacts
<1>6. ToSet(applied)' = ToSet(applied)
  OBVIOUS
<1> QED
  BY <1>2, <1>3, <1>4, <1>5, <1>6 DEF Service!Resolve, Pending

(* Every step of the client and the network is a step of WriteService or changes *)
(* nothing that it knows.                                                        *)
LEMMA ServiceStep ==
  IInv /\ [Next]_vars => [Service!Next]_<<Pending, ToSet(applied), answer>>
<1> SUFFICES ASSUME IInv, [Next]_vars
             PROVE  Service!Next \/ UNCHANGED <<Pending, ToSet(applied), answer>>
  OBVIOUS
<1>1. user \in Users /\ queue \in [Users -> Seq(Entries)] /\ applied \in Seq(Batches)
  BY DEF IInv, TypeOK
<1>2. ASSUME UNCHANGED <<queue, applied, answer>>
      PROVE  UNCHANGED <<Pending, ToSet(applied), answer>>
  BY <1>2 DEF Pending
<1>3. ASSUME NEW b \in Batches, WriteMutations(b) PROVE Service!Accept(user, b)
  <2> DEFINE q == queue[user]
             entry == [id |-> nextId, batch |-> b]
  <2>1. /\ answer[b] = "none" /\ queue' = [queue EXCEPT ![user] = Append(q, entry)]
        /\ answer' = [answer EXCEPT ![b] = "waiting"] /\ applied' = applied
    BY <1>3 DEF WriteMutations
  <2>2. entry \in Entries
    <3>1. queue'[user] \in Seq(Entries) /\ queue'[user] = Append(q, entry)
      BY <1>1, <1>3, <2>1, WriteQueue DEF QueueInv, QueueTypes
    <3>2. Len(Append(q, entry)) = Len(q) + 1 /\ Append(q, entry)[Len(q) + 1] = entry /\ Len(q) \in Nat
      BY <1>1, AppendProperties, LenProperties
    <3>3. Len(q) + 1 \in 1..Len(Append(q, entry))
      BY <3>2
    <3> QED
      BY <3>1, <3>2, <3>3, ElementOfSeq
  <2>3. Content(Append(q, entry)) = Append(Content(q), b)
    <3>1. entry.batch = b
      OBVIOUS
    <3> HIDE DEF entry
    <3> QED
      BY <1>1, <2>2, <3>1, ContentAppend
  <2>4. Pending' = [Pending EXCEPT ![user] = Append(Pending[user], b)]
    <3>1. \A u \in Users : queue'[u] = IF u = user THEN Append(q, entry) ELSE queue[u]
      BY <1>1, <2>1
    <3> HIDE DEF entry, q
    <3>2. \A u \in Users : Pending[u] = Content(queue[u])
      BY DEF Pending
    <3>3. \A u \in Users : Content(queue'[u]) = IF u = user THEN Append(Pending[user], b)
                                                ELSE Pending[u]
      BY <1>1, <2>3, <3>1, <3>2 DEF q
    <3>4. /\ Pending = [u \in Users |-> Pending[u]]
          /\ Pending' = [u \in Users |-> Content(queue'[u])]
      BY DEF Pending
    <3> QED
      BY <1>1, <3>3, <3>4
  <2>5. ToSet(applied)' = ToSet(applied)
    BY <2>1
  <2> QED
    BY <2>1, <2>4, <2>5 DEF Service!Accept, Pending
<1>4. CASE OnWriteStreamMutationResult
  <2>1. /\ pipeline # <<>> /\ responses # <<>> /\ Head(responses) # "refused" /\ handshake
        /\ queue' = [queue EXCEPT ![user] = Dequeue(queue[user], Head(pipeline).id)]
        /\ NotifyUser(Head(pipeline).id, "ok") /\ applied' = applied
    BY <1>4 DEF OnWriteStreamMutationResult
  <2>2. Head(responses) = responses[1] /\ 1 \in DOMAIN responses
    BY <2>1, PipelineFacts, TailPositions
  <2>3. Answers(1)
    BY <2>1, <2>2 DEF IInv, ConnectionState
  <2>4. queue[user][1].batch \in ToSet(applied)
    BY <2>1, <2>2, <2>3, FrontFacts DEF Answers
  <2>5. Service!Resolve(user, "ok") /\ Head(Pending[user]) = queue[user][1].batch
    BY <2>1, Resolves
  <2>6. Service!Confirm(user)
    BY <2>4, <2>5 DEF Service!Confirm, Pending
  <2> QED
    BY <1>1, <2>6 DEF Service!Next
<1>5. CASE HandlePermanentWriteError
  <2>1. /\ pipeline # <<>> /\ responses # <<>> /\ Head(responses) = "refused" /\ handshake
        /\ queue' = [queue EXCEPT ![user] = Dequeue(queue[user], Head(pipeline).id)]
        /\ NotifyUser(Head(pipeline).id, "error") /\ applied' = applied
    BY <1>5 DEF HandlePermanentWriteError
  <2>2. AnswerIsForFront
    BY NextAnswer
  <2>3. queue[user][1].batch \in Bad
    BY <2>1, <2>2, FrontFacts DEF AnswerIsForFront
  <2>4. Service!Resolve(user, "error") /\ Head(Pending[user]) = queue[user][1].batch
    BY <2>1, Resolves
  <2>5. Service!Refuse(user)
    BY <2>3, <2>4 DEF Service!Refuse, Pending
  <2> QED
    BY <1>1, <2>5 DEF Service!Next
<1>6. CASE Relaunch
  <2>1. queue' = queue /\ applied' = applied
    BY <1>6 DEF Relaunch
  <2>2. Pending' = Pending /\ ToSet(applied)' = ToSet(applied)
    BY <2>1 DEF Pending
  <2>3. answer' = [b \in Batches |-> IF answer[b] = "waiting" THEN "lost" ELSE answer[b]]
    BY <1>6 DEF Relaunch
  <2>4. Service!Forget
    BY <2>2, <2>3 DEF Service!Forget, Pending
  <2> QED
    BY <2>4 DEF Service!Next
<1>7. CASE ServeWrite
  <2> DEFINE h == Head(wire)
             R == Len(responses)
  <2>1. /\ Live /\ h # "hello" /\ UNCHANGED <<queue, answer>>
        /\ applied' = IF h \in Bad THEN applied ELSE Append(applied, h)
    BY <1>7 DEF ServeWrite, disk, client
  <2>2. /\ R + 1 <= Len(pipeline) /\ h = pipeline[R + 1].batch /\ h \in Batches
        /\ \A i \in 1..R : pipeline[i].batch \in ToSet(applied)
    BY <2>1, LiveFacts
  <2> HIDE DEF h
  <2>3. CASE h \in Bad
    BY <1>2, <2>1, <2>3
  <2>4. CASE h \notin Bad
    <3> DEFINE j == R + 1
    <3>1. /\ R \in Nat /\ j \in DOMAIN queue[user] /\ j \in 1..Len(pipeline)
          /\ \A m \in 1..(j - 1) : m \in 1..R /\ m \in 1..Len(pipeline)
      BY <1>1, <2>2, PipelineFacts, QueueFacts
    <3>2. /\ queue[user][j].batch = h
          /\ \A m \in 1..(j - 1) : queue[user][m].batch \in ToSet(applied)
      BY <2>2, <3>1, PipelineFacts
    <3>3. ToSet(applied') = ToSet(applied) \cup {h}
      BY <1>1, <2>1, <2>2, <2>4, AppendPositions
    <3> HIDE DEF j
    <3>4. Service!Apply(user)
      BY <1>1, <2>1, <2>4, <3>1, <3>2, <3>3, MayApply
    <3> QED
      BY <1>1, <3>4 DEF Service!Next
  <2> QED
    BY <2>3, <2>4
<1>8. CASE ServeStray
  <2> DEFINE h == Head(stray)
  <2>1. /\ stray # <<>> /\ UNCHANGED <<queue, answer>>
        /\ applied' = IF h \in Bad THEN applied ELSE Append(applied, h)
    BY <1>8 DEF ServeStray, disk, client
  <2>2. h = stray[1] /\ 1 \in DOMAIN stray /\ h \in Batches
    BY <2>1, PipelineFacts, TailPositions, Positions
  <2>3. InOrder(stray, queue, ToSet(applied))
    BY DEF IInv, StrayState
  <2> HIDE DEF h
  <2>4. CASE h \in Bad
    BY <1>2, <2>1, <2>4
  <2>5. CASE h \notin Bad /\ h \in ToSet(applied)
    <3>1. ToSet(applied') = ToSet(applied) \cup {h}
      BY <1>1, <2>1, <2>2, <2>5, AppendPositions
    <3> QED
      BY <2>1, <2>5, <3>1 DEF Pending
  <2>6. CASE h \notin Bad /\ h \notin ToSet(applied)
    <3>1. ToSet(applied') = ToSet(applied) \cup {h}
      BY <1>1, <2>1, <2>2, <2>6, AppendPositions
    <3>2. \A k \in 1..1 : stray[k] \notin Bad
      BY <2>2, <2>6
    <3>3. {stray[k] : k \in 1..(1 - 1)} = {}
      OBVIOUS
    <3>4. PICK u \in Users : \E j \in DOMAIN queue[u] :
             /\ queue[u][j].batch = h
             /\ \A m \in 1..(j - 1) : queue[u][m].batch \in ToSet(applied)
      BY <2>2, <2>3, <2>6, <3>2, <3>3 DEF InOrder
    <3>5. Service!Apply(u)
      BY <2>1, <2>6, <3>1, <3>4, MayApply
    <3> QED
      BY <3>5 DEF Service!Next
  <2> QED
    BY <2>4, <2>5, <2>6
<1>9. CASE \/ \E u \in Users : HandleCredentialChange(u)
           \/ ResumeStartWithCredentials \/ OnWriteStreamHandshakeComplete \/ BackoffElapsed
           \/ IdleTimeout \/ StreamFails \/ ServeHandshake \/ UNCHANGED vars
  BY <1>2, <1>9 DEF HandleCredentialChange, ResumeStartWithCredentials,
       OnWriteStreamHandshakeComplete, BackoffElapsed, IdleTimeout, StreamFails, ServeHandshake,
       vars, disk, client, network
<1> QED
  BY <1>1, <1>3, <1>4, <1>5, <1>6, <1>7, <1>8, <1>9 DEF Next, ClientStep, Service!Next

(* The client keeps the promise of WriteService: what the app awaits is confirmed *)
(* only when the backend has applied it, in the order of each user's writes, with *)
(* a refusal only for what the rules refuse, over lost, repeated and late         *)
(* requests, relaunches and changes of user.                                      *)
THEOREM ServiceIsImplemented == Spec => ImplementsService
<1>1. Init => Service!Init
  <2> SUFFICES ASSUME Init PROVE Service!Init
    OBVIOUS
  <2>1. \A u \in Users : queue[u] = <<>>
    BY DEF Init
  <2>2. Content(<<>>) = <<>> /\ ToSet(<<>>) = {}
    BY DEF Content, ToSet
  <2>3. [u \in Users |-> Content(queue[u])] = [u \in Users |-> <<>>]
    BY <2>1, <2>2
  <2>4. ToSet(applied) = {}
    BY <2>2 DEF Init
  <2> QED
    BY <2>3, <2>4 DEF Init, Service!Init
<1>2. IInv /\ [Next]_vars => [Service!Next]_<<[u \in Users |-> Content(queue[u])], ToSet(applied), answer>>
  BY ServiceStep DEF Pending
<1> QED
  BY <1>1, <1>2, Invariance, PTL DEF Spec, ImplementsService, Service!Spec

------------------------------------------------------------------------------
(* What the refinement gives the app. *)

(* What a caller is told is true: a write that was confirmed is applied, and one *)
(* that was refused is against the rules and has not been, and never will be,    *)
(* applied.                                                                      *)
AnswersAreTrue ==
    /\ \A b \in Batches : answer[b] = "ok" => b \in ToSet(applied)
    /\ \A b \in Batches : answer[b] = "error" => b \in Bad
    /\ ToSet(applied) \cap Bad = {}

(* The backend has never applied a write of a mutation queue without the ones that *)
(* were issued before it.                                                          *)
AppliedInOrder == \A u \in Users : \A i, j \in DOMAIN Pending[u] :
    i < j /\ Pending[u][j] \in ToSet(applied) => Pending[u][i] \in ToSet(applied)

(* It has applied only what the app has issued. *)
AppliedIsWritten == ToSet(applied) \subseteq Written

(* The steps of WriteService, over the names above. *)
LEMMA ServiceCases ==
  ASSUME [Service!Next]_<<Pending, ToSet(applied), answer>>,
         NEW P, P = Pending, NEW A, A = ToSet(applied)
  PROVE  \/ \E u \in Users, b \in Batches :
               /\ answer[b] = "none" /\ answer' = [answer EXCEPT ![b] = "waiting"]
               /\ Pending' = [P EXCEPT ![u] = Append(P[u], b)]
               /\ ToSet(applied') = A
         \/ \E u \in Users : \E i \in DOMAIN P[u] :
               /\ Service!Elements(SubSeq(P[u], 1, i - 1)) \subseteq A
               /\ P[u][i] \notin Bad
               /\ ToSet(applied') = A \cup {P[u][i]}
               /\ Pending' = P /\ answer' = answer
         \/ \E u \in Users, result \in {"ok", "error"} :
               /\ P[u] # <<>> /\ Pending' = [P EXCEPT ![u] = Tail(P[u])]
               /\ answer' = [answer EXCEPT ![Head(P[u])] =
                               IF answer[Head(P[u])] = "waiting" THEN result
                               ELSE answer[Head(P[u])]]
               /\ ToSet(applied') = A
               /\ result = "ok" => Head(P[u]) \in A
               /\ result = "error" => Head(P[u]) \in Bad
         \/ /\ answer' = [b \in Batches |-> IF answer[b] = "waiting" THEN "lost" ELSE answer[b]]
            /\ Pending' = P /\ ToSet(applied') = A
         \/ Pending' = P /\ ToSet(applied') = A /\ answer' = answer
<1>1. CASE \E u \in Users, b \in Batches : Service!Accept(u, b)
  BY <1>1 DEF Service!Accept, Pending
<1>2. CASE \E u \in Users : Service!Apply(u)
  BY <1>2 DEF Service!Apply, Pending
<1>3. ASSUME NEW u \in Users, Service!Confirm(u) \/ Service!Refuse(u)
      PROVE  \E result \in {"ok", "error"} :
               /\ P[u] # <<>> /\ Pending' = [P EXCEPT ![u] = Tail(P[u])]
               /\ answer' = [answer EXCEPT ![Head(P[u])] =
                               IF answer[Head(P[u])] = "waiting" THEN result
                               ELSE answer[Head(P[u])]]
               /\ ToSet(applied') = A
               /\ result = "ok" => Head(P[u]) \in A
               /\ result = "error" => Head(P[u]) \in Bad
  <2>1. CASE Service!Confirm(u)
    BY <2>1 DEF Service!Confirm, Service!Resolve, Pending
  <2>2. CASE Service!Refuse(u)
    BY <2>2 DEF Service!Refuse, Service!Resolve, Pending
  <2> QED
    BY <1>3, <2>1, <2>2
<1>4. CASE Service!Forget
  BY <1>4 DEF Service!Forget, Pending
<1>5. CASE UNCHANGED <<Pending, ToSet(applied), answer>>
  BY <1>5
<1> QED
  BY <1>1, <1>2, <1>3, <1>4, <1>5 DEF Service!Next

LEMMA AnswersStep == IInv /\ AnswersAreTrue /\ [Next]_vars => AnswersAreTrue'
<1> SUFFICES ASSUME IInv, AnswersAreTrue, [Next]_vars PROVE AnswersAreTrue'
  OBVIOUS
<1> DEFINE P == Pending
           A == ToSet(applied)
<1>1. [Service!Next]_<<Pending, ToSet(applied), answer>>
  BY ServiceStep
<1>2. DOMAIN answer = Batches
  BY DEF IInv, TypeOK
<1>3. /\ \A b \in Batches : answer[b] = "ok" => b \in A
      /\ \A b \in Batches : answer[b] = "error" => b \in Bad
      /\ A \cap Bad = {}
  BY DEF AnswersAreTrue
<1>4. SUFFICES /\ \A b \in Batches : answer'[b] = "ok" => b \in ToSet(applied')
               /\ \A b \in Batches : answer'[b] = "error" => b \in Bad
               /\ ToSet(applied') \cap Bad = {}
  BY DEF AnswersAreTrue
<1>5. P = Pending /\ A = ToSet(applied)
  OBVIOUS
<1> HIDE DEF P, A
<1> QED
  BY <1>1, <1>2, <1>3, <1>5, ServiceCases

(* What an awaited write of the app ends with is true of the backend. *)
THEOREM AnswersAreTrueHolds == Spec => []AnswersAreTrue
<1>1. Init => AnswersAreTrue
  BY DEF Init, AnswersAreTrue, ToSet
<1> QED
  BY <1>1, AnswersStep, Invariance, PTL DEF Spec

LEMMA OrderStep ==
  IInv /\ AppliedInOrder /\ AppliedIsWritten /\ [Next]_vars
    => AppliedInOrder' /\ AppliedIsWritten'
<1> SUFFICES ASSUME IInv, AppliedInOrder, AppliedIsWritten, [Next]_vars
             PROVE  AppliedInOrder' /\ AppliedIsWritten'
  OBVIOUS
<1> DEFINE P == Pending
           A == ToSet(applied)
<1>1. [Service!Next]_<<Pending, ToSet(applied), answer>>
  BY ServiceStep
<1>2. answer \in [Batches -> {"none", "waiting", "ok", "error", "lost"}]
  BY DEF IInv, TypeOK
<1>3. /\ \A u \in Users : \A i, j \in DOMAIN P[u] : i < j /\ P[u][j] \in A => P[u][i] \in A
      /\ \A b \in A : b \in Batches /\ answer[b] # "none"
  BY DEF AppliedInOrder, AppliedIsWritten, Written
<1>4. \A u \in Users : /\ P[u] \in Seq(Batches) /\ DOMAIN P[u] = DOMAIN queue[u]
                       /\ \A i \in DOMAIN P[u] : P[u][i] = queue[u][i].batch
  <2> TAKE u \in Users
  <2>1. queue[u] \in Seq(Entries) /\ P[u] = Content(queue[u])
    BY DEF IInv, TypeOK, Pending
  <2> QED
    BY <2>1, ContentPositions, Positions
<1>5. /\ \A u, v \in Users : \A i \in DOMAIN P[u], j \in DOMAIN P[v] :
              P[u][i] = P[v][j] => u = v /\ i = j
      /\ \A u \in Users : \A i \in DOMAIN P[u] : P[u][i] \in Batches /\ answer[P[u][i]] # "none"
  BY <1>4 DEF IInv, QueuedOnce, QueueIsOrdered, Written
<1>6. DOMAIN P = Users
  BY DEF Pending
<1>7. SUFFICES /\ \A u \in Users : \A i, j \in DOMAIN Pending'[u] :
                     i < j /\ Pending'[u][j] \in ToSet(applied') => Pending'[u][i] \in ToSet(applied')
               /\ \A b \in ToSet(applied') : b \in Batches /\ answer'[b] # "none"
  BY DEF AppliedInOrder, AppliedIsWritten, Written
<1>8. P = Pending /\ A = ToSet(applied)
  OBVIOUS
<1> HIDE DEF P, A
<1>9. ASSUME NEW u \in Users, NEW b \in Batches, answer[b] = "none",
             answer' = [answer EXCEPT ![b] = "waiting"],
             Pending' = [P EXCEPT ![u] = Append(P[u], b)], ToSet(applied') = A
      PROVE  /\ \A v \in Users : \A i, j \in DOMAIN Pending'[v] :
                   i < j /\ Pending'[v][j] \in A => Pending'[v][i] \in A
             /\ \A c \in A : answer'[c] # "none"
  <2>1. \A c \in A : answer'[c] # "none"
    BY <1>2, <1>3, <1>9
  <2>2. b \notin A
    BY <1>3, <1>9
  <2> DEFINE q == Append(P[u], b)
             n == Len(P[u])
  <2>3. /\ n \in Nat /\ DOMAIN P[u] = 1..n /\ DOMAIN q = 1..(n + 1)
        /\ q[n + 1] = b /\ \A i \in 1..n : q[i] = P[u][i]
    BY <1>4, AppendProperties, Positions
  <2>4. ASSUME NEW i \in DOMAIN q, NEW j \in DOMAIN q, i < j, q[j] \in A PROVE q[i] \in A
    <3>1. j \in 1..n /\ i \in 1..n
      BY <2>2, <2>3, <2>4
    <3> QED
      BY <1>3, <2>3, <2>4, <3>1
  <2>5. \A v \in Users : Pending'[v] = IF v = u THEN q ELSE P[v]
    BY <1>6, <1>9
  <2> HIDE DEF q
  <2> QED
    BY <1>3, <2>1, <2>4, <2>5
<1>10. ASSUME NEW u \in Users, NEW k \in DOMAIN P[u],
              Service!Elements(SubSeq(P[u], 1, k - 1)) \subseteq A,
              ToSet(applied') = A \cup {P[u][k]}, Pending' = P, answer' = answer
       PROVE  /\ \A v \in Users : \A i, j \in DOMAIN P[v] :
                    i < j /\ P[v][j] \in ToSet(applied') => P[v][i] \in ToSet(applied')
              /\ \A c \in ToSet(applied') : c \in Batches /\ answer[c] # "none"
  <2> DEFINE r == SubSeq(P[u], 1, k - 1)
  <2>1. /\ k \in 1..Len(P[u]) /\ Len(P[u]) \in Nat /\ DOMAIN P[u] = 1..Len(P[u])
        /\ \A i \in 1..(k - 1) : P[u][i] \in Batches
    BY <1>4, Positions
  <2>2. /\ r \in Seq(Batches) /\ Len(r) = k - 1
        /\ \A i \in 1..(k - 1) : r[i] = P[u][i]
    <3>1. /\ r \in Seq(Batches) /\ Len(r) = IF 1 <= k - 1 THEN k - 1 - 1 + 1 ELSE 0
          /\ \A i \in 1..(k - 1 - 1 + 1) : r[i] = P[u][1 + i - 1]
      BY <2>1, SubSeqProperties
    <3> QED
      BY <2>1, <3>1
  <2>3. DOMAIN r = 1..(k - 1)
    BY <2>2, Positions
  <2>4. \A i \in 1..(k - 1) : P[u][i] \in A
    <3>1. Service!Elements(r) \subseteq A
      BY <1>10
    <3> HIDE DEF r
    <3> QED
      BY <2>2, <2>3, <3>1 DEF Service!Elements
  <2>5. ASSUME NEW v \in Users, NEW i \in DOMAIN P[v], NEW j \in DOMAIN P[v],
               i < j, P[v][j] \in A \cup {P[u][k]}
        PROVE  P[v][i] \in A
    <3>1. CASE P[v][j] \in A
      BY <1>3, <2>5, <3>1
    <3>2. CASE P[v][j] = P[u][k]
      <4>1. v = u /\ j = k
        BY <1>5, <3>2
      <4>2. i \in 1..(k - 1)
        BY <2>1, <2>5, <4>1
      <4> QED
        BY <2>4, <4>1, <4>2
    <3> QED
      BY <2>5, <3>1, <3>2
  <2> QED
    BY <1>3, <1>5, <1>10, <2>5
<1>11. ASSUME NEW u \in Users, NEW result \in {"ok", "error"}, P[u] # <<>>,
              Pending' = [P EXCEPT ![u] = Tail(P[u])],
              answer' = [answer EXCEPT ![Head(P[u])] =
                           IF answer[Head(P[u])] = "waiting" THEN result
                           ELSE answer[Head(P[u])]],
              ToSet(applied') = A
       PROVE  /\ \A v \in Users : \A i, j \in DOMAIN Pending'[v] :
                    i < j /\ Pending'[v][j] \in A => Pending'[v][i] \in A
              /\ \A c \in A : answer'[c] # "none"
  <2>1. \A c \in A : answer'[c] # "none"
    BY <1>2, <1>3, <1>11
  <2> DEFINE q == Tail(P[u])
             n == Len(P[u])
  <2>2. /\ n \in Nat /\ DOMAIN P[u] = 1..n /\ DOMAIN q = 1..(n - 1)
        /\ \A i \in 1..(n - 1) : q[i] = P[u][i + 1]
    BY <1>4, <1>11, TailPositions, Positions
  <2>3. ASSUME NEW i \in DOMAIN q, NEW j \in DOMAIN q, i < j, q[j] \in A PROVE q[i] \in A
    <3> i \in 1..(n - 1) /\ j \in 1..(n - 1)
      BY <2>2
    <3> HIDE DEF q
    <3>1. i + 1 \in DOMAIN P[u] /\ j + 1 \in DOMAIN P[u] /\ i + 1 < j + 1
      BY <2>2, <2>3
    <3>2. q[i] = P[u][i + 1] /\ q[j] = P[u][j + 1]
      BY <2>2
    <3> QED
      BY <1>3, <2>3, <3>1, <3>2
  <2>4. \A v \in Users : Pending'[v] = IF v = u THEN q ELSE P[v]
    BY <1>6, <1>11
  <2> HIDE DEF q
  <2> QED
    BY <1>3, <2>1, <2>3, <2>4
<1>12. CASE /\ answer' = [b \in Batches |-> IF answer[b] = "waiting" THEN "lost" ELSE answer[b]]
            /\ Pending' = P /\ ToSet(applied') = A
  BY <1>2, <1>3, <1>12
<1>13. CASE Pending' = P /\ ToSet(applied') = A /\ answer' = answer
  BY <1>3, <1>13
<1>14. \/ \E u \in Users, b \in Batches :
            /\ answer[b] = "none" /\ answer' = [answer EXCEPT ![b] = "waiting"]
            /\ Pending' = [P EXCEPT ![u] = Append(P[u], b)]
            /\ ToSet(applied') = A
       \/ \E u \in Users : \E k \in DOMAIN P[u] :
            /\ Service!Elements(SubSeq(P[u], 1, k - 1)) \subseteq A
            /\ ToSet(applied') = A \cup {P[u][k]}
            /\ Pending' = P /\ answer' = answer
       \/ \E u \in Users, result \in {"ok", "error"} :
            /\ P[u] # <<>> /\ Pending' = [P EXCEPT ![u] = Tail(P[u])]
            /\ answer' = [answer EXCEPT ![Head(P[u])] =
                            IF answer[Head(P[u])] = "waiting" THEN result
                            ELSE answer[Head(P[u])]]
            /\ ToSet(applied') = A
       \/ /\ answer' = [b \in Batches |-> IF answer[b] = "waiting" THEN "lost" ELSE answer[b]]
          /\ Pending' = P /\ ToSet(applied') = A
       \/ Pending' = P /\ ToSet(applied') = A /\ answer' = answer
  BY <1>1, <1>8, ServiceCases
<1> QED
  BY <1>3, <1>9, <1>10, <1>11, <1>12, <1>13, <1>14

(* The backend applies the writes of a user in the order the app issued them, also *)
(* when requests of an earlier connection arrive late or twice.                    *)
THEOREM AppliedInOrderHolds == Spec => []AppliedInOrder
<1>1. Init => AppliedInOrder /\ AppliedIsWritten
  <2> SUFFICES ASSUME Init PROVE ToSet(applied) = {}
    BY DEF AppliedInOrder, AppliedIsWritten
  <2> QED
    BY DEF Init, ToSet
<1> QED
  BY <1>1, OrderStep, Invariance, PTL DEF Spec

=============================================================================

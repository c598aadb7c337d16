------------------------- MODULE WatchPipelineProofs -------------------------
(***************************************************************************)
(* Theorems about WatchPipeline for any queries, reads, commits and faults.*)
(***************************************************************************)
EXTENDS WatchPipeline, FiniteSetTheorems, SequenceTheorems, TLAPS

(* TypeOK, but for the bound on the answers that are outstanding. *)
Targets == [outstanding: Nat, current: BOOLEAN, doc: Commits]

Types ==
    /\ lastWrite \in [Queries -> Commits]
    /\ cache \in [Queries -> Commits] /\ token \in [Queries -> Commits]
    /\ view \in [Queries -> {"none", "local", "synced"}]
    /\ phase \in [Reads -> {"unasked", "waiting", "shown", "gone"}]
    /\ result \in [Reads -> [value: Commits, fromCache: BOOLEAN]]
    /\ online \in {"Unknown", "Online", "Offline"}
    /\ timer \in BOOLEAN /\ failed \in BOOLEAN /\ idle \in BOOLEAN
    /\ stream \in {"Initial", "Starting", "Open", "Error", "Backoff"}
    /\ target \in [Queries -> Targets]
    /\ requests \in Seq(Requests) /\ responses \in Seq(Responses)
    /\ sent \in [Queries -> Commits \cup {Off}]
    /\ reported \subseteq Queries
    /\ floor \in [Reads -> Commits]
    /\ faults \in 0..MaxFaults

(* A request for q is on its way to the backend. *)
Wired(q) == \E i \in DOMAIN requests : requests[i].query = q

(* The i-th response acknowledges a request for q. *)
IsAnswer(i, q) == responses[i].type \in {"added", "removed"} /\ q \in responses[i].queries

IsDoc(i, q) == responses[i].type = "doc" /\ q \in responses[i].queries

(* What comes from the i-th response on is of the last listen of q. *)
Settled(q, i) == ~Wired(q) /\ \A j \in DOMAIN responses : j >= i => ~IsAnswer(j, q)

(* Before the i-th response, the documents of q are at commit v or later. *)
Arrives(q, v, i) ==
    \/ cache[q] >= v
    \/ target[q].doc >= v
    \/ \E j \in DOMAIN responses :
          j < i /\ IsDoc(j, q) /\ responses[j].version >= v /\ Settled(q, j)

(* A number of a commit that was made. *)
Past(v) == \E q \in Queries : v <= lastWrite[q]

Asked(q) == {r \in Reads : QueryOf[r] = q /\ phase[r] # "unasked"}
Gone(q)  == {r \in Reads : QueryOf[r] = q /\ phase[r] = "gone"}

(* The positions of the members of A in a sequence. *)
Hits(s, A) == {i \in DOMAIN s : s[i] \in A}

RequestsOf(q) == {m \in Requests : m.query = q}
AnswersOf(q)  == {m \in Responses : m.type \in {"added", "removed"} /\ q \in m.queries}

(* OutstandingIsExact, with the sets it counts named. *)
Exact == \A q \in Queries : target[q].outstanding =
    Cardinality(Hits(requests, RequestsOf(q))) + Cardinality(Hits(responses, AnswersOf(q)))

(* There is a connection only while the stream is open. *)
Closed == stream # "Open" =>
    /\ requests = <<>> /\ responses = <<>>
    /\ target = [q \in Queries |-> NoTarget]
    /\ sent = [q \in Queries |-> Off]

(* A query has a view as long as somebody listens, and a get that waits has *)
(* one that is not synced. *)
ViewState ==
    /\ \A q \in Queries : view[q] # "none" <=> Listeners(q) # {}
    /\ \A r \in Reads \ Streams : phase[r] = "waiting" => view[QueryOf[r]] # "synced"

Bounded == \A q \in Queries :
    target[q].outstanding <= Cardinality(Asked(q)) + Cardinality(Gone(q))

(* No number is of a commit still to come. *)
PastState ==
    /\ \A q \in Queries : cache[q] <= lastWrite[q] /\ target[q].doc <= lastWrite[q]
    /\ \A q \in Queries : Past(token[q]) /\ Past(sent[q])
    /\ \A i \in DOMAIN requests : Past(requests[i].from)
    /\ \A i \in DOMAIN responses : Past(responses[i].version)
    /\ \A i \in DOMAIN responses, q \in Queries : IsDoc(i, q) => responses[i].version <= lastWrite[q]
    /\ \A r \in Reads : phase[r] = "waiting" => floor[r] <= lastWrite[QueryOf[r]]

(* The documents of a query arrive in the order they were changed in. *)
DocsOrdered == \A q \in Queries, j \in DOMAIN responses : IsDoc(j, q) =>
    /\ target[q].doc <= responses[j].version
    /\ \A i \in DOMAIN responses : i < j /\ IsDoc(i, q) => responses[i].version <= responses[j].version

(* The last request for a query says whether it is listened to, and starts no *)
(* later than the documents that are there. *)
WireState ==
    /\ \A i \in DOMAIN requests :
        LET q == requests[i].query IN
        /\ requests[i].type = "watch" /\ lastWrite[q] <= requests[i].from => cache[q] = lastWrite[q]
        /\ view[q] # "none" /\ (\A j \in DOMAIN requests : j > i => requests[j].query # q)
             => requests[i].type = "watch"
    /\ \A q \in Queries : stream = "Open" /\ view[q] # "none" /\ ~Wired(q) =>
        /\ sent[q] # Off
        /\ lastWrite[q] <= sent[q] => Arrives(q, lastWrite[q], Len(responses) + 1)

(* Before a snapshot come all documents that it stands for, and those that a *)
(* waiting get must not miss. *)
SnapshotState == \A i \in DOMAIN responses, q \in Queries :
    responses[i].type = "snapshot" /\ view[q] # "none" /\ Settled(q, i) =>
        /\ lastWrite[q] <= responses[i].version => Arrives(q, lastWrite[q], i)
        /\ \A r \in Reads \ Streams :
              QueryOf[r] = q /\ phase[r] = "waiting" => Arrives(q, floor[r], i)

IInv ==
    /\ Types
    /\ Closed
    /\ ViewState
    /\ Bounded
    /\ PastState
    /\ DocsOrdered
    /\ WireState
    /\ SnapshotState
    /\ TrackerIsConsistent
    /\ Exact
    /\ TokenIsHonest
    /\ GetIsFresh
------------------------------------------------------------------------------
(* A set of commit numbers has a largest one. *)
LEMMA MaxOf ==
  ASSUME NEW S, S \subseteq Commits, S # {}
  PROVE  Max(S) \in S /\ \A x \in S : x <= Max(S)
<1> DEFINE T == {MaxCommits - x : x \in S}
<1>1. \A x \in S : x \in Int /\ MaxCommits - x \in Nat
  BY BoundsAssumption DEF Commits
<1>2. T \subseteq Nat /\ T # {}
  BY <1>1
<1> HIDE DEF T
<1>3. PICK n \in T : \A y \in T : ~ (<<y, n>> \in OpToRel(<, Nat))
  BY <1>2, WFMin, NatLessThanWellFounded, Zenon
<1>4. \A y \in T : n <= y
  <2> TAKE y \in T
  <2>1. y \in Nat /\ n \in Nat
    BY <1>2
  <2>2. y < n => <<y, n>> \in OpToRel(<, Nat)
    BY <2>1 DEF OpToRel
  <2>3. ~ (y < n)
    BY <2>2, <1>3, Zenon
  <2> QED
    BY <2>1, <2>3
<1>5. PICK x \in S : n = MaxCommits - x
  BY DEF T
<1>6. \A z \in S : x >= z
  <2> TAKE z \in S
  <2>1. n <= MaxCommits - z
    BY <1>4 DEF T
  <2> QED
    BY <2>1, <1>1, <1>5, BoundsAssumption
<1>7. Max(S) \in S /\ \A z \in S : Max(S) >= z
  BY <1>6 DEF Max
<1> QED
  BY <1>7, <1>1

LEMMA MaxPair ==
  ASSUME NEW a \in Commits, NEW b \in Commits
  PROVE  Max({a, b}) \in {a, b} /\ Max({a, b}) >= a /\ Max({a, b}) >= b
<1>1. Max({a, b}) \in {a, b} /\ \A x \in {a, b} : x <= Max({a, b})
  BY MaxOf, {a, b} \subseteq Commits, {a, b} # {}
<1>2. a <= Max({a, b}) /\ b <= Max({a, b})
  BY <1>1
<1> QED
  BY <1>1, <1>2, BoundsAssumption DEF Commits

(* The number of the last commit of any query. *)
LEMMA LastCommit ==
  ASSUME Types, Queries # {}
  PROVE  LET now == Max({lastWrite[q] : q \in Queries})
         IN  now \in Commits /\ Past(now) /\ \A q \in Queries : lastWrite[q] <= now
<1> DEFINE S == {lastWrite[q] : q \in Queries}
<1>1. S \subseteq Commits /\ S # {}
  BY DEF Types
<1> HIDE DEF S
<1>2. Max(S) \in S /\ \A x \in S : x <= Max(S)
  BY <1>1, MaxOf
<1>3. PICK p \in Queries : Max(S) = lastWrite[p]
  BY <1>2 DEF S
<1>4. Max(S) <= lastWrite[p]
  BY <1>3, <1>1, <1>2, BoundsAssumption DEF Commits
<1> QED
  BY <1>1, <1>2, <1>3, <1>4 DEF S, Past

(* The hits of a sequence are finitely many, and one step changes them by one. *)
LEMMA HitsFinite ==
  ASSUME NEW S, NEW s \in Seq(S), NEW A
  PROVE  IsFiniteSet(Hits(s, A)) /\ Cardinality(Hits(s, A)) \in Nat
<1>1. Len(s) \in Nat /\ DOMAIN s = 1..Len(s)
  BY LenProperties
<1>2. IsFiniteSet(1..Len(s))
  BY <1>1, FS_Interval
<1>3. Hits(s, A) \in SUBSET (1..Len(s))
  BY <1>1 DEF Hits
<1> QED
  BY <1>2, <1>3, FS_Subset, FS_CardinalityType

LEMMA HitsAppend ==
  ASSUME NEW S, NEW s \in Seq(S), NEW e \in S, NEW A
  PROVE  Cardinality(Hits(Append(s, e), A)) =
            Cardinality(Hits(s, A)) + IF e \in A THEN 1 ELSE 0
<1>1. CASE e \in A
  <2>1. Hits(Append(s, e), A) = Hits(s, A) \cup {Len(s) + 1}
    BY <1>1, AppendProperties, LenProperties DEF Hits
  <2>2. Len(s) + 1 \notin Hits(s, A)
    BY LenProperties DEF Hits
  <2> QED
    BY <1>1, <2>1, <2>2, HitsFinite, FS_AddElement
<1>2. CASE e \notin A
  <2>1. Hits(Append(s, e), A) = Hits(s, A)
    BY <1>2, AppendProperties, LenProperties DEF Hits
  <2> QED
    BY <1>2, <2>1, HitsFinite
<1> QED
  BY <1>1, <1>2

LEMMA HitsTail ==
  ASSUME NEW S, NEW s \in Seq(S), s # <<>>, NEW A
  PROVE  Cardinality(Hits(Tail(s), A)) =
            Cardinality(Hits(s, A)) - IF Head(s) \in A THEN 1 ELSE 0
<1> DEFINE T == Hits(s, A) \ {1}
           f == [i \in T |-> i - 1]
<1>1. /\ Len(s) \in Nat /\ DOMAIN s = 1..Len(s) /\ Len(s) > 0
      /\ Tail(s) \in Seq(S) /\ DOMAIN Tail(s) = 1..(Len(s) - 1)
      /\ \A i \in 1..(Len(s) - 1) : Tail(s)[i] = s[i + 1]
      /\ Head(s) = s[1]
  BY LenProperties, HeadTailProperties, EmptySeq, Head(s) = s[1]
<1>2. f \in Bijection(T, Hits(Tail(s), A))
  <2>1. \A i \in T : f[i] \in Hits(Tail(s), A)
    BY <1>1 DEF Hits
  <2>2. \A i, j \in T : f[i] = f[j] => i = j
    BY <1>1 DEF Hits
  <2>3. \A j \in Hits(Tail(s), A) : \E i \in T : f[i] = j
    <3> TAKE j \in Hits(Tail(s), A)
    <3>1. j + 1 \in T /\ f[j + 1] = j
      BY <1>1 DEF Hits
    <3> QED
      BY <3>1
  <2> HIDE DEF T
  <2> QED
    BY <2>1, <2>2, <2>3 DEF Bijection, Injection, Surjection, IsInjective
<1>3. IsFiniteSet(Hits(s, A)) /\ Cardinality(Hits(s, A)) \in Nat
  BY HitsFinite
<1>4. /\ IsFiniteSet(T)
      /\ Cardinality(T) = IF 1 \in Hits(s, A) THEN Cardinality(Hits(s, A)) - 1
                          ELSE Cardinality(Hits(s, A))
  BY <1>3, FS_RemoveElement
<1>5. Cardinality(Hits(Tail(s), A)) = Cardinality(T)
  BY <1>2, <1>4, FS_Bijection DEF ExistsBijection
<1>6. 1 \in Hits(s, A) <=> Head(s) \in A
  BY <1>1 DEF Hits
<1> QED
  BY <1>3, <1>4, <1>5, <1>6

(* The order of SetToSeq names each member of a finite set once. *)
LEMMA SetToSeqFacts ==
  ASSUME NEW S, IsFiniteSet(S)
  PROVE  LET s == SetToSeq(S) IN
         /\ s \in Seq(S)
         /\ \A x \in S : \E i \in DOMAIN s : s[i] = x
         /\ \A i, j \in DOMAIN s : s[i] = s[j] => i = j
<1> DEFINE n == Cardinality(S)
           s == SetToSeq(S)
<1>1. n \in Nat /\ ExistsBijection(1..n, S)
  BY FS_CardinalityType
<1>2. PICK f \in [1..n -> S] : IsInjective(f)
  BY <1>1 DEF ExistsBijection, Bijection, Injection
<1>3. s \in [1..n -> S] /\ IsInjective(s)
  BY <1>2 DEF SetToSeq
<1> HIDE DEF s
<1>4. s \in Injection(1..n, S)
  BY <1>3 DEF Injection
<1>5. IsFiniteSet(1..n) /\ Cardinality(1..n) = n
  BY <1>1, FS_Interval
<1>6. s \in Surjection(1..n, S)
  BY <1>4, <1>5, FS_Injection
<1>7. \A x \in S : \E i \in 1..n : s[i] = x
  BY <1>6 DEF Surjection
<1>8. s \in Seq(S) /\ DOMAIN s = 1..n
  BY <1>1, <1>3, SeqDef
<1>9. \A i, j \in DOMAIN s : s[i] = s[j] => i = j
  BY <1>3 DEF IsInjective
<1> QED
  BY <1>7, <1>8, <1>9 DEF s

------------------------------------------------------------------------------
(* What the steps do to the connection, position by position. *)
LEMMA Positions ==
  ASSUME Types
  PROVE  /\ Len(requests) \in Nat /\ DOMAIN requests = 1..Len(requests)
         /\ Len(responses) \in Nat /\ DOMAIN responses = 1..Len(responses)
         /\ \A i \in DOMAIN requests : requests[i] \in Requests
         /\ \A i \in DOMAIN responses : responses[i] \in Responses
<1>1. requests \in Seq(Requests) /\ responses \in Seq(Responses)
  BY DEF Types
<1>2. /\ Len(requests) \in Nat /\ DOMAIN requests = 1..Len(requests)
      /\ Len(responses) \in Nat /\ DOMAIN responses = 1..Len(responses)
  BY <1>1, LenProperties
<1> QED
  BY <1>1, <1>2, ElementOfSeq

(* A request goes to the end of the wire. *)
LEMMA SendFacts ==
  ASSUME Types, NEW type \in {"watch", "unwatch"}, NEW q \in Queries, NEW from \in Commits,
         SendRequest(type, q, from)
  PROVE  LET m == [type |-> type, query |-> q, from |-> from] IN
         /\ m \in Requests
         /\ requests' \in Seq(Requests) /\ Len(requests') = Len(requests) + 1
         /\ DOMAIN requests' = 1..(Len(requests) + 1)
         /\ \A i \in 1..Len(requests) : requests'[i] = requests[i]
         /\ requests'[Len(requests) + 1] = m
         /\ requests' = Append(requests, m)
         /\ target' \in [Queries -> Targets]
         /\ target' = [target EXCEPT ![q] = [target[q] EXCEPT !.outstanding = @ + 1]]
         /\ \A p \in Queries :
              /\ target'[p].doc = target[p].doc
              /\ target'[p].outstanding = target[p].outstanding + IF p = q THEN 1 ELSE 0
<1> DEFINE m == [type |-> type, query |-> q, from |-> from]
<1>1. requests \in Seq(Requests) /\ m \in Requests
  BY DEF Types, Requests
<1>2. requests' = Append(requests, m)
  BY DEF SendRequest
<1>3. /\ requests' \in Seq(Requests) /\ Len(requests') = Len(requests) + 1
      /\ \A i \in 1..Len(requests) : requests'[i] = requests[i]
      /\ requests'[Len(requests) + 1] = m
  BY <1>1, <1>2, AppendProperties
<1>4. DOMAIN requests' = 1..(Len(requests) + 1)
  BY <1>3, LenProperties
<1>5. target' = [target EXCEPT ![q] = [target[q] EXCEPT !.outstanding = @ + 1]]
  BY DEF SendRequest
<1>6. target' \in [Queries -> Targets]
  <2>1. target \in [Queries -> Targets] /\ target[q] \in Targets
    BY DEF Types
  <2>2. [target[q] EXCEPT !.outstanding = @ + 1] \in Targets
    BY <2>1 DEF Targets
  <2> QED
    BY <1>5, <2>1, <2>2
<1>7. ASSUME NEW p \in Queries
      PROVE  /\ target'[p].doc = target[p].doc
             /\ target'[p].outstanding = target[p].outstanding + IF p = q THEN 1 ELSE 0
  <2>1. target \in [Queries -> Targets] /\ target[p] \in Targets
    BY DEF Types
  <2>2. target'[p] = IF p = q THEN [target[p] EXCEPT !.outstanding = @ + 1] ELSE target[p]
    BY <1>5, <2>1
  <2> QED
    BY <2>1, <2>2 DEF Targets
<1> QED
  BY <1>1, <1>2, <1>3, <1>4, <1>5, <1>6, <1>7

(* A message is taken from the front of the responses. *)
LEMMA ReadFacts ==
  ASSUME Types, responses # <<>>, responses' = Tail(responses)
  PROVE  /\ Head(responses) = responses[1] /\ responses[1] \in Responses
         /\ responses' \in Seq(Responses) /\ Len(responses') = Len(responses) - 1
         /\ Len(responses) > 0
         /\ DOMAIN responses' = 1..(Len(responses) - 1)
         /\ \A i \in 1..(Len(responses) - 1) : responses'[i] = responses[i + 1]
<1>1. responses \in Seq(Responses)
  BY DEF Types
<1>2. /\ responses' \in Seq(Responses) /\ Len(responses') = Len(responses) - 1
      /\ Len(responses) \in Nat \ {0}
      /\ \A i \in 1..Len(responses') : responses'[i] = responses[i + 1]
  BY <1>1, HeadTailProperties, EmptySeq
<1>3. DOMAIN responses' = 1..Len(responses')
  BY <1>2, LenProperties
<1>4. Head(responses) = responses[1]
  OBVIOUS
<1> QED
  BY <1>1, <1>2, <1>3, <1>4, Positions

(* A request is taken from the front of the wire and answered. *)
LEMMA ServeFacts ==
  ASSUME Types, ServeRequest
  PROVE  LET m == requests[1]
             a == Message(IF m.type = "watch" THEN "added" ELSE "removed", {m.query}, 0)
         IN
         /\ m \in Requests /\ a \in Responses /\ Len(requests) > 0
         /\ requests \in Seq(Requests) /\ requests # <<>>
         /\ m = Head(requests) /\ requests' = Tail(requests)
         /\ requests' \in Seq(Requests) /\ Len(requests') = Len(requests) - 1
         /\ DOMAIN requests' = 1..(Len(requests) - 1)
         /\ \A i \in 1..(Len(requests) - 1) : requests'[i] = requests[i + 1]
         /\ responses' = Append(responses, a)
         /\ responses' \in Seq(Responses) /\ Len(responses') = Len(responses) + 1
         /\ DOMAIN responses' = 1..(Len(responses) + 1)
         /\ \A i \in 1..Len(responses) : responses'[i] = responses[i]
         /\ responses'[Len(responses) + 1] = a
         /\ sent' = [sent EXCEPT ![m.query] = IF m.type = "watch" THEN m.from ELSE Off]
<1> DEFINE m == requests[1]
           a == Message(IF m.type = "watch" THEN "added" ELSE "removed", {m.query}, 0)
<1>1. requests \in Seq(Requests) /\ responses \in Seq(Responses) /\ requests # <<>>
  BY DEF Types, ServeRequest
<1>2. /\ requests' = Tail(requests) /\ m = Head(requests)
      /\ responses' = responses \o <<a>>
      /\ sent' = [sent EXCEPT ![m.query] = IF m.type = "watch" THEN m.from ELSE Off]
  <2>1. m = Head(requests)
    OBVIOUS
  <2> QED
    BY <2>1 DEF ServeRequest
<1>3. /\ requests' \in Seq(Requests) /\ Len(requests') = Len(requests) - 1
      /\ Len(requests) \in Nat \ {0}
      /\ \A i \in 1..Len(requests') : requests'[i] = requests[i + 1]
  BY <1>1, <1>2, HeadTailProperties, EmptySeq
<1>4. DOMAIN requests' = 1..Len(requests')
  BY <1>3, LenProperties
<1>5. m \in Requests /\ a \in Responses
  <2>1. m \in Requests
    BY <1>3, Positions
  <2> QED
    BY <2>1, BoundsAssumption DEF Message, Responses, Requests, Commits
<1> HIDE DEF a
<1>6. responses' = Append(responses, a)
  BY <1>1, <1>2, <1>5, AppendIsConcat
<1>7. /\ responses' \in Seq(Responses) /\ Len(responses') = Len(responses) + 1
      /\ \A i \in 1..Len(responses) : responses'[i] = responses[i]
      /\ responses'[Len(responses) + 1] = a
  BY <1>1, <1>5, <1>6, AppendProperties
<1>8. DOMAIN responses' = 1..(Len(responses) + 1)
  BY <1>7, LenProperties
<1> QED
  BY <1>1, <1>2, <1>3, <1>4, <1>5, <1>6, <1>7, <1>8 DEF a

(* A function on 1..n is a sequence of length n. *)
LEMMA FunctionIsSeq ==
  ASSUME NEW S, NEW n \in Nat, NEW f \in [1..n -> S]
  PROVE  f \in Seq(S) /\ Len(f) = n /\ DOMAIN f = 1..n
<1>1. f \in Seq(S)
  BY SeqDef
<1>2. DOMAIN f = 1..Len(f) /\ Len(f) \in Nat
  BY <1>1, LenProperties
<1> QED
  BY <1>1, <1>2

(* The positions of two sequences, and of four, in their concatenation. *)
LEMMA TwoParts ==
  ASSUME NEW S, NEW a \in Seq(S), NEW b \in Seq(S)
  PROVE  LET s == a \o b IN
         /\ s \in Seq(S) /\ Len(s) = Len(a) + Len(b)
         /\ \A i \in 1..Len(a) : s[i] = a[i]
         /\ \A i \in 1..Len(b) : s[Len(a) + i] = b[i]
<1> DEFINE s == a \o b
<1>1. s \in Seq(S) /\ Len(s) = Len(a) + Len(b)
  BY ConcatProperties
<1>2. \A i \in 1..(Len(a) + Len(b)) : s[i] = IF i <= Len(a) THEN a[i] ELSE b[i - Len(a)]
  BY ConcatProperties
<1>3. Len(a) \in Nat /\ Len(b) \in Nat
  BY LenProperties
<1> HIDE DEF s
<1>4. \A i \in 1..Len(a) : s[i] = a[i]
  BY <1>2, <1>3
<1>5. \A i \in 1..Len(b) : s[Len(a) + i] = b[i]
  <2> TAKE i \in 1..Len(b)
  <2>1. /\ Len(a) + i \in 1..(Len(a) + Len(b)) /\ ~ (Len(a) + i <= Len(a))
        /\ (Len(a) + i) - Len(a) = i
    BY <1>3
  <2>2. s[Len(a) + i] = b[(Len(a) + i) - Len(a)]
    BY <2>1, <1>2
  <2> QED
    BY <2>1, <2>2
<1> QED
  BY <1>1, <1>4, <1>5 DEF s

LEMMA FourParts ==
  ASSUME NEW S, NEW a \in Seq(S), NEW b \in Seq(S), NEW c \in Seq(S), NEW d \in Seq(S),
         NEW s, s = a \o b \o c \o d
  PROVE  /\ s \in Seq(S) /\ Len(s) = Len(a) + Len(b) + Len(c) + Len(d)
         /\ \A i \in 1..Len(a) : s[i] = a[i]
         /\ \A i \in 1..Len(b) : s[Len(a) + i] = b[i]
         /\ \A i \in 1..Len(c) : s[Len(a) + Len(b) + i] = c[i]
         /\ \A i \in 1..Len(d) : s[Len(a) + Len(b) + Len(c) + i] = d[i]
<1> DEFINE ab  == a \o b
           abc == ab \o c
<1>1. Len(a) \in Nat /\ Len(b) \in Nat /\ Len(c) \in Nat /\ Len(d) \in Nat
  BY LenProperties
<1>2. /\ ab \in Seq(S) /\ Len(ab) = Len(a) + Len(b)
      /\ \A i \in 1..Len(a) : ab[i] = a[i]
      /\ \A i \in 1..Len(b) : ab[Len(a) + i] = b[i]
  BY TwoParts
<1>0. s = abc \o d
  OBVIOUS
<1> HIDE DEF ab
<1>3. ab \in Seq(S)
  BY <1>2
<1>4. /\ abc \in Seq(S) /\ Len(abc) = Len(ab) + Len(c)
      /\ \A i \in 1..Len(ab) : abc[i] = ab[i]
      /\ \A i \in 1..Len(c) : abc[Len(ab) + i] = c[i]
  BY <1>3, TwoParts
<1> HIDE DEF abc
<1>5. abc \in Seq(S)
  BY <1>4
<1>6. /\ s \in Seq(S) /\ Len(s) = Len(abc) + Len(d)
      /\ \A i \in 1..Len(abc) : s[i] = abc[i]
      /\ \A i \in 1..Len(d) : s[Len(abc) + i] = d[i]
  BY <1>0, <1>5, TwoParts
<1>7. \A i \in 1..Len(a) : s[i] = a[i]
  BY <1>1, <1>2, <1>4, <1>6
<1>8. \A i \in 1..Len(b) : s[Len(a) + i] = b[i]
  <2> TAKE i \in 1..Len(b)
  <2>1. Len(a) + i \in 1..Len(ab) /\ Len(a) + i \in 1..Len(abc)
    BY <1>1, <1>2, <1>4
  <2> QED
    BY <2>1, <1>2, <1>4, <1>6
<1>9. \A i \in 1..Len(c) : s[Len(a) + Len(b) + i] = c[i]
  <2> TAKE i \in 1..Len(c)
  <2>1. Len(a) + Len(b) + i = Len(ab) + i /\ Len(ab) + i \in 1..Len(abc)
    BY <1>1, <1>2, <1>4
  <2> QED
    BY <2>1, <1>4, <1>6
<1>10. \A i \in 1..Len(d) : s[Len(a) + Len(b) + Len(c) + i] = d[i]
  <2> TAKE i \in 1..Len(d)
  <2>1. Len(a) + Len(b) + Len(c) + i = Len(abc) + i
    BY <1>1, <1>2, <1>4
  <2> QED
    BY <2>1, <1>6
<1>11. Len(s) = Len(a) + Len(b) + Len(c) + Len(d)
  BY <1>1, <1>2, <1>4, <1>6
<1> QED
  BY <1>6, <1>7, <1>8, <1>9, <1>10, <1>11

(* A snapshot: the documents that changed, what is current, and the version. *)
LEMMA SnapshotFacts ==
  ASSUME Types, ServeSnapshot
  PROVE  \E now \in Commits :
         LET L == Len(responses)
             M == Len(responses')
         IN
         /\ Past(now) /\ \A q \in Queries : lastWrite[q] <= now
         /\ responses' \in Seq(Responses) /\ M \in Nat /\ M > L
         /\ DOMAIN responses' = 1..M
         /\ \A i \in 1..L : responses'[i] = responses[i]
         /\ \A i \in (L + 1)..M :
              /\ responses'[i].type \in {"doc", "current", "snapshot"}
              /\ responses'[i].type = "doc" =>
                   \E q \in Queries : responses'[i].queries = {q} /\ responses'[i].version = lastWrite[q]
              /\ responses'[i].type = "current" => responses'[i].version = 0
              /\ responses'[i].type = "snapshot" => i = M /\ responses'[i].version = now
         /\ \A q \in Queries : sent[q] # Off /\ lastWrite[q] > sent[q] =>
              \E i \in (L + 1)..(M - 1) :
                 /\ responses'[i].type = "doc" /\ responses'[i].queries = {q}
                 /\ responses'[i].version = lastWrite[q]
         /\ sent' = [q \in Queries |-> IF sent[q] # Off THEN now ELSE Off]
         /\ reported' \subseteq Queries
<1> DEFINE watched == {q \in Queries : sent[q] # Off}
           behind  == {q \in watched : lastWrite[q] > sent[q]}
           docs    == SetToSeq(behind)
           now     == Max({lastWrite[q] : q \in Queries})
           news    == [i \in DOMAIN docs |-> Message("doc", {docs[i]}, lastWrite[docs[i]])]
           fresh   == IF watched \ reported # {}
                        THEN <<Message("current", watched \ reported, 0)>> ELSE <<>>
           last    == <<Message("snapshot", {}, now)>>
           L       == Len(responses)
           N       == Len(docs)
           F       == Len(fresh)
<1>1. /\ behind # {} \/ watched \ reported # {}
      /\ responses' = responses \o news \o fresh \o last
      /\ sent' = [q \in Queries |-> IF q \in watched THEN now ELSE Off]
      /\ reported' = watched
  BY DEF ServeSnapshot
<1>2. Queries # {}
  BY <1>1
<1>3. now \in Commits /\ Past(now) /\ \A q \in Queries : lastWrite[q] <= now
  BY <1>2, LastCommit
<1>4. /\ docs \in Seq(behind)
      /\ \A x \in behind : \E i \in DOMAIN docs : docs[i] = x
  <2>1. IsFiniteSet(behind)
    BY FiniteAssumption, FS_Subset
  <2> QED
    BY <2>1, SetToSeqFacts
<1>5. N \in Nat /\ DOMAIN docs = 1..N /\ \A i \in 1..N : docs[i] \in behind
  <2>1. N \in Nat /\ DOMAIN docs = 1..N
    BY <1>4, LenProperties
  <2> QED
    BY <1>4, <2>1, ElementOfSeq
<1> HIDE DEF docs, now
<1>6. /\ news \in Seq(Responses) /\ Len(news) = N
      /\ \A i \in 1..N : news[i] = Message("doc", {docs[i]}, lastWrite[docs[i]])
  <2>1. \A i \in 1..N : Message("doc", {docs[i]}, lastWrite[docs[i]]) \in Responses
    BY <1>5 DEF Types, Message, Responses
  <2>2. news \in [1..N -> Responses]
    BY <1>5, <2>1
  <2> HIDE DEF news
  <2>3. news \in Seq(Responses) /\ Len(news) = N
    BY <1>5, <2>2, FunctionIsSeq
  <2> QED
    BY <2>3, <1>5 DEF news
<1>7. /\ fresh \in Seq(Responses) /\ F \in {0, 1}
      /\ F = 1 => fresh[1] = Message("current", watched \ reported, 0)
  <2>1. Message("current", watched \ reported, 0) \in Responses
    BY BoundsAssumption DEF Message, Responses, Commits
  <2> HIDE DEF watched
  <2> QED
    BY <2>1
<1>8. last \in Seq(Responses) /\ Len(last) = 1 /\ last[1] = Message("snapshot", {}, now)
  <2>1. Message("snapshot", {}, now) \in Responses
    BY <1>3 DEF Message, Responses
  <2> QED
    BY <2>1
<1> HIDE DEF news, fresh, last
<1> HIDE DEF N, F, L
<1>9. /\ responses' \in Seq(Responses) /\ Len(responses') = L + N + F + 1
      /\ \A i \in 1..L : responses'[i] = responses[i]
      /\ \A i \in 1..N : responses'[L + i] = news[i]
      /\ \A i \in 1..F : responses'[L + N + i] = fresh[i]
      /\ responses'[L + N + F + 1] = last[1]
  <2>1. responses \in Seq(Responses)
    BY DEF Types
  <2>2. 1 \in 1..Len(last) /\ Len(last) = 1 /\ Len(news) = N /\ Len(fresh) = F
    BY <1>6, <1>8 DEF F
  <2>3. news \in Seq(Responses) /\ fresh \in Seq(Responses) /\ last \in Seq(Responses)
    BY <1>6, <1>7, <1>8
  <2>4. responses' = responses \o news \o fresh \o last
    BY <1>1
  <2>5. /\ responses' \in Seq(Responses)
        /\ Len(responses') = Len(responses) + Len(news) + Len(fresh) + Len(last)
        /\ \A i \in 1..Len(responses) : responses'[i] = responses[i]
        /\ \A i \in 1..Len(news) : responses'[Len(responses) + i] = news[i]
        /\ \A i \in 1..Len(fresh) : responses'[Len(responses) + Len(news) + i] = fresh[i]
        /\ \A i \in 1..Len(last) :
              responses'[Len(responses) + Len(news) + Len(fresh) + i] = last[i]
    BY <2>1, <2>3, <2>4, FourParts, SMTT(30)
  <2> QED
    BY <2>2, <2>5 DEF L
<1>12. L \in Nat /\ N \in Nat /\ F \in Nat /\ DOMAIN responses' = 1..Len(responses')
  BY <1>9, <1>5, <1>7, LenProperties, Positions DEF L
<1>14. \A i \in 1..N :
          /\ docs[i] \in Queries
          /\ responses'[L + i].type = "doc" /\ responses'[L + i].queries = {docs[i]}
          /\ responses'[L + i].version = lastWrite[docs[i]]
  <2> TAKE i \in 1..N
  <2>1. responses'[L + i] = Message("doc", {docs[i]}, lastWrite[docs[i]])
    BY <1>9, <1>6
  <2> QED
    BY <2>1, <1>5 DEF Message
<1>15. F = 1 => responses'[L + N + 1].type = "current" /\ responses'[L + N + 1].version = 0
  <2>1. F = 1 => 1 \in 1..F
    OBVIOUS
  <2> QED
    BY <2>1, <1>9, <1>7 DEF Message
<1>16. responses'[L + N + F + 1].type = "snapshot" /\ responses'[L + N + F + 1].version = now
  BY <1>9, <1>8 DEF Message
<1>17. \A i \in (L + 1)..Len(responses') :
          (\E k \in 1..N : i = L + k) \/ (F = 1 /\ i = L + N + 1) \/ i = L + N + F + 1
  <2> TAKE i \in (L + 1)..Len(responses')
  <2>1. i <= L + N => i - L \in 1..N /\ i = L + (i - L)
    BY <1>12
  <2>2. i > L + N => (F = 1 /\ i = L + N + 1) \/ i = L + N + F + 1
    BY <1>9, <1>12, <1>7
  <2> QED
    BY <2>1, <2>2, <1>12
<1>18. \A i \in (L + 1)..Len(responses') :
              /\ responses'[i].type \in {"doc", "current", "snapshot"}
              /\ responses'[i].type = "doc" =>
                   \E q \in Queries : responses'[i].queries = {q} /\ responses'[i].version = lastWrite[q]
              /\ responses'[i].type = "current" => responses'[i].version = 0
              /\ responses'[i].type = "snapshot" => i = Len(responses') /\ responses'[i].version = now
  <2> TAKE i \in (L + 1)..Len(responses')
  <2>1. ASSUME NEW k \in 1..N, i = L + k
        PROVE  /\ responses'[i].type = "doc"
               /\ \E q \in Queries : responses'[i].queries = {q} /\ responses'[i].version = lastWrite[q]
    BY <2>1, <1>14
  <2>2. CASE F = 1 /\ i = L + N + 1
    BY <2>2, <1>15
  <2>3. CASE i = L + N + F + 1
    BY <2>3, <1>16, <1>9
  <2> QED
    BY <2>1, <2>2, <2>3, <1>17
<1>19. \A q \in Queries : sent[q] # Off /\ lastWrite[q] > sent[q] =>
          \E i \in (L + 1)..(Len(responses') - 1) :
             /\ responses'[i].type = "doc" /\ responses'[i].queries = {q}
             /\ responses'[i].version = lastWrite[q]
  <2> SUFFICES ASSUME NEW q \in Queries, sent[q] # Off, lastWrite[q] > sent[q]
               PROVE  \E i \in (L + 1)..(Len(responses') - 1) :
                        /\ responses'[i].type = "doc" /\ responses'[i].queries = {q}
                        /\ responses'[i].version = lastWrite[q]
    OBVIOUS
  <2>1. PICK k \in 1..N : docs[k] = q
    BY <1>4, <1>5
  <2>2. L + k \in (L + 1)..(Len(responses') - 1)
    BY <1>9, <1>12
  <2> QED
    BY <2>1, <2>2, <1>14
<1>20. Len(responses') \in Nat /\ Len(responses') > L
  BY <1>9, <1>12
<1>21. sent' = [q \in Queries |-> IF sent[q] # Off THEN now ELSE Off] /\ reported' \subseteq Queries
  BY <1>1
<1> QED
  BY <1>3, <1>9, <1>12, <1>18, <1>19, <1>20, <1>21 DEF L

(* A connection that opens asks once for each query that is listened to. *)
LEMMA OpenFacts ==
  ASSUME Types, Closed, OnWatchStreamOpen
  PROVE  /\ requests' \in Seq(Requests) /\ responses = <<>> /\ responses' = <<>>
         /\ DOMAIN requests' = 1..Len(requests') /\ Len(requests') \in Nat
         /\ \A i \in DOMAIN requests' :
              /\ requests'[i].type = "watch" /\ requests'[i].query \in Queries
              /\ view[requests'[i].query] # "none"
              /\ requests'[i].from = token[requests'[i].query]
         /\ \A q \in Queries : view[q] # "none" => \E i \in DOMAIN requests' : requests'[i].query = q
         /\ \A i, j \in DOMAIN requests' : requests'[i].query = requests'[j].query => i = j
         /\ target' = [q \in Queries |-> IF view[q] # "none"
                        THEN [NoTarget EXCEPT !.outstanding = 1] ELSE NoTarget]
<1> DEFINE order == SetToSeq(Listened(view))
<1>1. /\ responses = <<>> /\ responses' = <<>>
      /\ target = [q \in Queries |-> NoTarget]
      /\ requests' = [i \in DOMAIN order |->
                        [type |-> "watch", query |-> order[i], from |-> token[order[i]]]]
  BY DEF OnWatchStreamOpen, Closed
<1>2. target' = [q \in Queries |-> IF view[q] # "none"
                        THEN [NoTarget EXCEPT !.outstanding = 1] ELSE NoTarget]
  BY <1>1 DEF OnWatchStreamOpen, Listened, NoTarget
<1>3. /\ order \in Seq(Listened(view))
      /\ \A x \in Listened(view) : \E i \in DOMAIN order : order[i] = x
      /\ \A i, j \in DOMAIN order : order[i] = order[j] => i = j
  <2>1. IsFiniteSet(Listened(view))
    BY FiniteAssumption, FS_Subset DEF Listened
  <2> QED
    BY <2>1, SetToSeqFacts
<1>4. /\ Len(order) \in Nat /\ DOMAIN order = 1..Len(order)
      /\ \A i \in DOMAIN order : order[i] \in Listened(view)
  <2>1. Len(order) \in Nat /\ DOMAIN order = 1..Len(order)
    BY <1>3, LenProperties
  <2> QED
    BY <1>3, <2>1, ElementOfSeq
<1> HIDE DEF order
<1>5. \A i \in DOMAIN order :
        [type |-> "watch", query |-> order[i], from |-> token[order[i]]] \in Requests
  BY <1>4 DEF Listened, Requests, Types
<1>6. requests' \in [1..Len(order) -> Requests]
  BY <1>1, <1>4, <1>5
<1>7. requests' \in Seq(Requests)
  BY <1>4, <1>6, SeqDef
<1>8. DOMAIN requests' = 1..Len(requests') /\ Len(requests') \in Nat /\ DOMAIN requests' = DOMAIN order
  BY <1>6, <1>7, <1>4, LenProperties
<1>9. \A i \in DOMAIN order : /\ requests'[i].type = "watch" /\ requests'[i].query = order[i]
                              /\ requests'[i].from = token[order[i]]
  BY <1>1
<1>10. \A i \in DOMAIN order : order[i] \in Queries /\ view[order[i]] # "none"
  BY <1>4 DEF Listened
<1>11. \A q \in Queries : view[q] # "none" => \E i \in DOMAIN order : order[i] = q
  BY <1>3 DEF Listened
<1> QED
  BY <1>1, <1>2, <1>3, <1>7, <1>8, <1>9, <1>10, <1>11

------------------------------------------------------------------------------
(* What is counted, with the sets named or not. *)
LEMMA ExactHits ==
  ASSUME NEW rq \in Seq(Requests), NEW rs \in Seq(Responses), NEW q
  PROVE  /\ {i \in DOMAIN rq : rq[i].query = q} = Hits(rq, RequestsOf(q))
         /\ {i \in DOMAIN rs : rs[i].type \in {"added", "removed"} /\ q \in rs[i].queries}
               = Hits(rs, AnswersOf(q))
<1>1. (\A i \in DOMAIN rq : rq[i] \in Requests) /\ (\A i \in DOMAIN rs : rs[i] \in Responses)
  BY ElementOfSeq, LenProperties
<1> QED
  BY <1>1 DEF Hits, RequestsOf, AnswersOf

LEMMA ExactIs == Types => (Exact <=> OutstandingIsExact)
<1> SUFFICES ASSUME Types PROVE Exact <=> OutstandingIsExact
  OBVIOUS
<1>1. requests \in Seq(Requests) /\ responses \in Seq(Responses)
  BY DEF Types
<1>2. \A q \in Queries :
        /\ {i \in DOMAIN requests : requests[i].query = q} = Hits(requests, RequestsOf(q))
        /\ {i \in DOMAIN responses :
              responses[i].type \in {"added", "removed"} /\ q \in responses[i].queries}
             = Hits(responses, AnswersOf(q))
  BY <1>1, ExactHits
<1> QED
  BY <1>2 DEF Exact, OutstandingIsExact

LEMMA NoHits ==
  ASSUME NEW A
  PROVE  Cardinality(Hits(<<>>, A)) = 0
<1>1. Hits(<<>>, A) = {}
  BY DEF Hits
<1> QED
  BY <1>1, FS_EmptySet

(* The count is zero just when nothing is pending. *)
LEMMA NothingPending ==
  ASSUME Types, Exact, NEW q \in Queries
  PROVE  /\ target[q].outstanding \in Nat
         /\ target[q].outstanding = 0 <=> ~Wired(q) /\ \A j \in DOMAIN responses : ~IsAnswer(j, q)
<1> DEFINE R == Hits(requests, RequestsOf(q))
           S == Hits(responses, AnswersOf(q))
<1>1. requests \in Seq(Requests) /\ responses \in Seq(Responses)
  BY DEF Types
<1>2. /\ IsFiniteSet(R) /\ Cardinality(R) \in Nat
      /\ IsFiniteSet(S) /\ Cardinality(S) \in Nat
  BY <1>1, HitsFinite
<1>3. (Cardinality(R) = 0 <=> R = {}) /\ (Cardinality(S) = 0 <=> S = {})
  BY <1>2, FS_EmptySet
<1>4. R = {} <=> ~Wired(q)
  BY <1>1, ExactHits DEF Wired
<1>5. S = {} <=> \A j \in DOMAIN responses : ~IsAnswer(j, q)
  BY <1>1, ExactHits DEF IsAnswer
<1>6. target[q].outstanding = Cardinality(R) + Cardinality(S)
  BY DEF Exact
<1> QED
  BY <1>2, <1>3, <1>4, <1>5, <1>6

LEMMA InitInv == Init => IInv
  <1> SUFFICES ASSUME Init PROVE IInv
    OBVIOUS
  <1>0. 0 \in Commits
    BY BoundsAssumption DEF Commits
  <1>1. Types
    <2>1. requests \in Seq(Requests) /\ responses \in Seq(Responses)
      BY EmptySeq DEF Init
    <2>2. target \in [Queries -> Targets]
      BY <1>0 DEF Init, Targets, NoTarget
    <2>3. result \in [Reads -> [value: Commits, fromCache: BOOLEAN]]
      BY <1>0 DEF Init
    <2>4. sent \in [Queries -> Commits \cup {Off}] /\ faults \in 0..MaxFaults
      BY BoundsAssumption DEF Init
    <2> QED
      BY <1>0, <2>1, <2>2, <2>3, <2>4 DEF Init, Types
  <1>2. Closed /\ TrackerIsConsistent
    BY DEF Init, Closed, TrackerIsConsistent, Listened
  <1>3. ViewState
    BY ReadsAssumption DEF Init, ViewState, Listeners
  <1>4. Bounded
    <2> SUFFICES ASSUME NEW q \in Queries
                 PROVE  0 <= Cardinality(Asked(q)) + Cardinality(Gone(q))
      BY DEF Init, Bounded, NoTarget
    <2>1. Asked(q) = {} /\ Gone(q) = {}
      BY DEF Init, Asked, Gone
    <2> QED
      BY <2>1, FS_EmptySet
  <1>5. PastState /\ DocsOrdered /\ WireState /\ SnapshotState
    BY ReadsAssumption DEF Init, PastState, Past, DocsOrdered, WireState, SnapshotState, Off, NoTarget
  <1>6. Exact
    BY NoHits DEF Init, Exact, NoTarget
  <1>7. TokenIsHonest /\ GetIsFresh
    BY DEF Init, TokenIsHonest, GetIsFresh
  <1> QED
    BY <1>1, <1>2, <1>3, <1>4, <1>5, <1>6, <1>7 DEF IInv

------------------------------------------------------------------------------
(* Types are kept.                                                          *)
LEMMA RaiseTypes ==
  ASSUME Types, NEW rs, NEW c \in [Queries -> Commits], NEW v, Raise(rs, c, v)
  PROVE  /\ phase' \in [Reads -> {"unasked", "waiting", "shown", "gone"}]
         /\ result' \in [Reads -> [value: Commits, fromCache: BOOLEAN]]
<1>1. \A r \in Reads : QueryOf[r] \in Queries
  BY ReadsAssumption
<1>2. \A r \in Reads : c[QueryOf[r]] \in Commits
  BY <1>1
<1> QED
  BY <1>2 DEF Types, Raise

LEMMA DropTypes ==
  ASSUME DropConnection
  PROVE  /\ target' \in [Queries -> Targets] /\ sent' \in [Queries -> Commits \cup {Off}]
         /\ requests' \in Seq(Requests) /\ responses' \in Seq(Responses)
         /\ reported' \subseteq Queries
<1>1. NoTarget \in Targets
  BY BoundsAssumption DEF NoTarget, Targets, Commits
<1>2. requests' = <<>> /\ responses' = <<>>
  BY DEF DropConnection
<1>3. requests' \in Seq(Requests) /\ responses' \in Seq(Responses)
  BY <1>2, EmptySeq
<1> QED
  BY <1>1, <1>3 DEF DropConnection

LEMMA TypeStep == Types /\ Closed /\ Exact /\ [Next]_vars => Types'
  <1> SUFFICES ASSUME Types, Closed, Exact, [Next]_vars PROVE Types'
    OBVIOUS
  <1> USE ReadsAssumption, BoundsAssumption
  <1>0. 0 \in Commits
    BY DEF Commits
  <1>1. ASSUME NEW r \in Reads, Get(r) PROVE Types'
    <2> DEFINE q == QueryOf[r]
               first == view[q] = "none"
    <2>1. q \in Queries /\ token[q] \in Commits /\ lastWrite[q] \in Commits
      BY DEF Types
    <2>2. /\ phase' \in [Reads -> {"unasked", "waiting", "shown", "gone"}]
          /\ result' \in [Reads -> [value: Commits, fromCache: BOOLEAN]]
      <3>1. CASE Raise({r}, cache, view)
        BY <3>1, RaiseTypes DEF Types
      <3>2. CASE phase' = [phase EXCEPT ![r] = "waiting"] /\ UNCHANGED result
        BY <3>2 DEF Types
      <3> QED
        BY <1>1, <3>1, <3>2 DEF Get
    <2>3. requests' \in Seq(Requests) /\ target' \in [Queries -> Targets] /\ idle' \in BOOLEAN
      <3>1. CASE first /\ stream = "Open"
        <4>1. SendRequest("watch", q, token[q]) /\ idle' = FALSE
          BY <1>1, <3>1 DEF Get
        <4> QED
          BY <4>1, <2>1, SendFacts
      <3>2. CASE ~ (first /\ stream = "Open")
        BY <1>1, <3>2 DEF Get, Types
      <3> QED
        BY <3>1, <3>2
    <2>4. /\ stream' \in {"Initial", "Starting", "Open", "Error", "Backoff"}
          /\ online' \in {"Unknown", "Online", "Offline"}
          /\ timer' \in BOOLEAN /\ failed' \in BOOLEAN
      BY <1>1 DEF Get, FirstStart, Start, tracker, Types
    <2>5. floor' \in [Reads -> Commits] /\ view' \in [Queries -> {"none", "local", "synced"}]
      BY <1>0, <1>1, <2>1 DEF Get, Types
    <2>6. UNCHANGED <<lastWrite, cache, token, responses, sent, reported, faults>>
      BY <1>1 DEF Get, store, backend
    <2> QED
      BY <2>2, <2>3, <2>4, <2>5, <2>6 DEF Types
  <1>2. ASSUME NEW r \in Reads, RemoveQueryListener(r) PROVE Types'
    <2> DEFINE q == QueryOf[r]
               last == Listeners(q) = {r}
    <2>1. q \in Queries
      OBVIOUS
    <2>3. requests' \in Seq(Requests) /\ target' \in [Queries -> Targets] /\ idle' \in BOOLEAN
      <3>1. CASE last /\ stream = "Open"
        <4>1. SendRequest("unwatch", q, 0) /\ idle' \in BOOLEAN
          BY <1>2, <3>1 DEF RemoveQueryListener
        <4> QED
          BY <4>1, <1>0, <2>1, SendFacts
      <3>2. CASE ~ (last /\ stream = "Open")
        BY <1>2, <3>2 DEF RemoveQueryListener, Types
      <3> QED
        BY <3>1, <3>2
    <2>4. /\ online' \in {"Unknown", "Online", "Offline"}
          /\ timer' \in BOOLEAN /\ failed' \in BOOLEAN
      BY <1>2 DEF RemoveQueryListener, UpdateState, tracker, Types
    <2>5. /\ phase' \in [Reads -> {"unasked", "waiting", "shown", "gone"}]
          /\ view' \in [Queries -> {"none", "local", "synced"}]
      BY <1>2, <2>1 DEF RemoveQueryListener, Types
    <2>6. UNCHANGED <<lastWrite, cache, token, result, floor, stream, responses, sent, reported, faults>>
      BY <1>2 DEF RemoveQueryListener, store, backend
    <2> QED
      BY <2>3, <2>4, <2>5, <2>6 DEF Types
  <1>3. CASE OnWatchStreamOpen
    <2>1. requests' \in Seq(Requests)
      BY <1>3, OpenFacts
    <2>2. target' \in [Queries -> Targets]
      <3>1. NoTarget \in Targets /\ [NoTarget EXCEPT !.outstanding = 1] \in Targets
        BY <1>0 DEF NoTarget, Targets
      <3> QED
        BY <1>3, <3>1, OpenFacts
    <2> QED
      BY <1>3, <2>1, <2>2 DEF OnWatchStreamOpen, Types, store, reads, tracker, backend
  <1>4. CASE OnWatchStreamChange
    <2> DEFINE m == Head(responses)
    <2>1. /\ responses # <<>> /\ responses' = Tail(responses)
          /\ online' = "Online" /\ timer' = FALSE /\ failed' = FALSE
          /\ target' = [q \in Queries |-> TargetAfter(q, m)]
          /\ m.type # "snapshot"
          /\ UNCHANGED <<lastWrite, cache, token, view, phase, result, floor, stream, idle,
                         requests, sent, reported, faults>>
      BY <1>4 DEF OnWatchStreamChange, UpdateState, store, reads, backend
    <2>2. responses' \in Seq(Responses) /\ m \in Responses /\ m = responses[1] /\ 1 \in DOMAIN responses
      BY <2>1, ReadFacts, Positions
    <2>3. ASSUME NEW q \in Queries PROVE TargetAfter(q, m) \in Targets
      <3>1. target[q] \in Targets /\ m.version \in Commits
        BY <2>2 DEF Types, Responses
      <3>2. q \in m.queries /\ m.type \in {"added", "removed"} => target[q].outstanding \in Nat \ {0}
        BY <2>2, NothingPending DEF IsAnswer
      <3>3. m.type \in {"added", "removed", "doc", "current"}
        BY <2>1, <2>2 DEF Responses
      <3> HIDE DEF m
      <3>4. CASE q \notin m.queries \/ m.type \in {"doc", "current"}
        BY <3>1, <3>4 DEF TargetAfter, Targets
      <3>5. CASE q \in m.queries /\ m.type \in {"added", "removed"}
        <4>1. [target[q] EXCEPT !.outstanding = @ - 1] \in Targets
          BY <3>1, <3>2, <3>5 DEF Targets
        <4>2. [NoTarget EXCEPT !.doc = target[q].doc] \in Targets
          BY <3>1 DEF Targets, NoTarget
        <4> QED
          BY <3>5, <4>1, <4>2 DEF TargetAfter
      <3> QED
        BY <3>3, <3>4, <3>5
    <2> QED
      BY <2>1, <2>2, <2>3 DEF Types
  <1>5. CASE RaiseWatchSnapshot
    <2> DEFINE m == Head(responses)
    <2>1. /\ responses # <<>> /\ responses' = Tail(responses)
          /\ online' = "Online" /\ timer' = FALSE /\ failed' = FALSE
          /\ cache' = [q \in Queries |-> Max({cache[q], target[q].doc})]
          /\ token' = Tokens(m.version)
          /\ target' = [q \in Queries |-> [target[q] EXCEPT !.doc = 0]]
          /\ view' = [q \in Queries |->
                IF ~IsActiveTarget(q) THEN view[q]
                ELSE IF target[q].current THEN "synced" ELSE "local"]
          /\ \E rs : Raise(rs, cache', view')
          /\ UNCHANGED <<lastWrite, floor, stream, idle, requests, sent, reported, faults>>
      BY <1>5 DEF RaiseWatchSnapshot, UpdateState, backend
    <2>2. responses' \in Seq(Responses) /\ m \in Responses
      BY <2>1, ReadFacts
    <2>3. \A q \in Queries : target[q] \in Targets /\ target[q].doc \in Commits /\ cache[q] \in Commits
      BY DEF Types, Targets
    <2>4. cache' \in [Queries -> Commits]
      <3>1. \A q \in Queries : Max({cache[q], target[q].doc}) \in Commits
        BY <2>3, MaxPair
      <3> QED
        BY <2>1, <3>1
    <2>5. token' \in [Queries -> Commits]
      BY <2>1, <2>2 DEF Tokens, Types, Responses
    <2>6. target' \in [Queries -> Targets]
      <3>1. \A q \in Queries : [target[q] EXCEPT !.doc = 0] \in Targets
        BY <1>0, <2>3 DEF Targets
      <3> QED
        BY <2>1, <3>1
    <2>7. /\ phase' \in [Reads -> {"unasked", "waiting", "shown", "gone"}]
          /\ result' \in [Reads -> [value: Commits, fromCache: BOOLEAN]]
      BY <2>1, <2>4, RaiseTypes
    <2>8. view' \in [Queries -> {"none", "local", "synced"}]
      BY <2>1 DEF Types
    <2> QED
      BY <2>1, <2>2, <2>4, <2>5, <2>6, <2>7, <2>8 DEF Types
  <1>6. CASE BackoffElapsed
    BY <1>6 DEF BackoffElapsed, Start, Types, store, reads, tracker, backend
  <1>7. CASE OnlineStateTimeout
    <2>1. GoOffline /\ timer' = FALSE
      BY <1>7 DEF OnlineStateTimeout
    <2>2. /\ phase' \in [Reads -> {"unasked", "waiting", "shown", "gone"}]
          /\ result' \in [Reads -> [value: Commits, fromCache: BOOLEAN]]
      BY <2>1, RaiseTypes DEF GoOffline, Types
    <2> QED
      BY <1>7, <2>1, <2>2 DEF OnlineStateTimeout, GoOffline, Types, store, backend
  <1>8. CASE IdleTimeout
    <2>1. DropConnection
      BY <1>8 DEF IdleTimeout
    <2> QED
      BY <1>8, <2>1, DropTypes DEF IdleTimeout, UpdateState, Types, store, reads
  <1>9. CASE StreamFails
    <2>1. DropConnection
      BY <1>9 DEF StreamFails
    <2>2. /\ phase' \in [Reads -> {"unasked", "waiting", "shown", "gone"}]
          /\ result' \in [Reads -> [value: Commits, fromCache: BOOLEAN]]
          /\ view' \in [Queries -> {"none", "local", "synced"}]
      <3>1. CASE GoOffline
        BY <3>1, RaiseTypes DEF GoOffline, Types
      <3>2. CASE UNCHANGED <<view, phase, result>>
        BY <3>2 DEF Types
      <3> QED
        BY <1>9, <3>1, <3>2 DEF StreamFails
    <2>3. /\ stream' \in {"Initial", "Starting", "Open", "Error", "Backoff"}
          /\ online' \in {"Unknown", "Online", "Offline"}
          /\ timer' \in BOOLEAN /\ failed' \in BOOLEAN
      BY <1>9 DEF StreamFails, FirstStart, Start, UpdateState, GoOffline, Types
    <2>4. idle' \in BOOLEAN /\ UNCHANGED <<lastWrite, cache, token, floor>>
      BY <1>9 DEF StreamFails, store
    <2>5. faults' \in 0..MaxFaults
      <3>1. faults \in 0..MaxFaults /\ faults < MaxFaults /\ faults' = faults + 1
        BY <1>9 DEF StreamFails, Types
      <3> QED
        BY <3>1
    <2> QED
      BY <2>1, <2>2, <2>3, <2>4, <2>5, DropTypes DEF Types
  <1>10. CASE RestartNetwork
    <2>1. DropConnection
      BY <1>10 DEF RestartNetwork
    <2>3. /\ stream' \in {"Initial", "Starting", "Open", "Error", "Backoff"}
          /\ online' \in {"Unknown", "Online", "Offline"}
          /\ timer' \in BOOLEAN /\ failed' \in BOOLEAN
      BY <1>10 DEF RestartNetwork, FirstStart, Start, UpdateState, Types
    <2>4. /\ idle' \in BOOLEAN
          /\ UNCHANGED <<lastWrite, cache, token, floor, view, phase, result>>
      BY <1>10 DEF RestartNetwork, store, reads
    <2>5. faults' \in 0..MaxFaults
      <3>1. faults \in 0..MaxFaults /\ faults < MaxFaults /\ faults' = faults + 1
        BY <1>10 DEF RestartNetwork, Types
      <3> QED
        BY <3>1
    <2> QED
      BY <2>1, <2>3, <2>4, <2>5, DropTypes DEF Types
  <1>11. ASSUME NEW q \in Queries, Commit(q) PROVE Types'
    <2> DEFINE now == Max({lastWrite[p] : p \in Queries}) + 1
    <2>1. now \in Commits
      <3>1. now \in Int /\ now >= 0 /\ now <= MaxCommits
        BY <1>11, LastCommit DEF Commit, Commits
      <3> QED
        BY <3>1 DEF Commits
    <2>2. lastWrite' = [lastWrite EXCEPT ![q] = now]
      BY <1>11 DEF Commit
    <2>3. lastWrite' \in [Queries -> Commits]
      BY <2>1, <2>2 DEF Types
    <2> QED
      BY <1>11, <2>3 DEF Commit, Types, store, reads, tracker, backend
  <1>12. CASE ServeRequest
    <2>1. /\ requests' \in Seq(Requests) /\ responses' \in Seq(Responses)
          /\ requests[1] \in Requests
          /\ sent' = [sent EXCEPT ![requests[1].query] =
                IF requests[1].type = "watch" THEN requests[1].from ELSE Off]
      BY <1>12, ServeFacts
    <2>2. sent' \in [Queries -> Commits \cup {Off}]
      BY <2>1 DEF Types, Requests
    <2>3. reported' \subseteq Queries
      BY <1>12 DEF ServeRequest, Types
    <2> QED
      BY <1>12, <2>1, <2>2, <2>3 DEF ServeRequest, Types, store, reads, tracker
  <1>13. CASE ServeSnapshot
    <2>1. /\ responses' \in Seq(Responses) /\ reported' \subseteq Queries
          /\ \E now \in Commits : sent' = [q \in Queries |-> IF sent[q] # Off THEN now ELSE Off]
      BY <1>13, SnapshotFacts
    <2>2. sent' \in [Queries -> Commits \cup {Off}]
      BY <2>1
    <2> QED
      BY <1>13, <2>1, <2>2 DEF ServeSnapshot, Types, store, reads, tracker
  <1>14. CASE UNCHANGED vars
    BY <1>14 DEF vars, Types, store, reads, tracker, backend
  <1> QED
    BY <1>1, <1>2, <1>3, <1>4, <1>5, <1>6, <1>7, <1>8, <1>9, <1>10, <1>11, <1>12, <1>13, <1>14
       DEF Next, ClientStep

------------------------------------------------------------------------------
(* The count of pending answers stays exact.                                *)
LEMMA SendExact ==
  ASSUME Types, Exact, NEW type \in {"watch", "unwatch"}, NEW q \in Queries, NEW from \in Commits,
         SendRequest(type, q, from), UNCHANGED responses
  PROVE  Exact'
<1> DEFINE m == [type |-> type, query |-> q, from |-> from]
<1>1. m \in Requests /\ requests' = Append(requests, m) /\ requests \in Seq(Requests)
  BY SendFacts DEF Types
<1>2. target' = [target EXCEPT ![q] = [target[q] EXCEPT !.outstanding = @ + 1]]
  BY SendFacts, ZenonT(40)
<1>3. ASSUME NEW p \in Queries
      PROVE  target'[p].outstanding =
                Cardinality(Hits(requests', RequestsOf(p))) + Cardinality(Hits(responses', AnswersOf(p)))
  <2>1. Cardinality(Hits(requests', RequestsOf(p))) =
          Cardinality(Hits(requests, RequestsOf(p))) + IF m \in RequestsOf(p) THEN 1 ELSE 0
    BY <1>1, HitsAppend
  <2>2. m \in RequestsOf(p) <=> p = q
    BY <1>1 DEF RequestsOf
  <2>3. target'[p].outstanding = IF p = q THEN target[p].outstanding + 1 ELSE target[p].outstanding
    BY <1>2 DEF Types, Targets
  <2>4. target[p].outstanding =
          Cardinality(Hits(requests, RequestsOf(p))) + Cardinality(Hits(responses, AnswersOf(p)))
    BY DEF Exact
  <2>5. /\ Cardinality(Hits(requests, RequestsOf(p))) \in Nat
        /\ Cardinality(Hits(responses, AnswersOf(p))) \in Nat
    BY HitsFinite DEF Types
  <2> QED
    BY <2>1, <2>2, <2>3, <2>4, <2>5
<1> QED
  BY <1>3 DEF Exact, RequestsOf, AnswersOf

LEMMA DropExact == DropConnection => Exact'
  BY NoHits DEF DropConnection, Exact, NoTarget

LEMMA ReadExact ==
  ASSUME Types, responses # <<>>, responses' = Tail(responses), NEW q
  PROVE  Cardinality(Hits(responses', AnswersOf(q))) = Cardinality(Hits(responses, AnswersOf(q)))
            - IF responses[1].type \in {"added", "removed"} /\ q \in responses[1].queries
                THEN 1 ELSE 0
<1>1. responses \in Seq(Responses) /\ Head(responses) = responses[1] /\ responses[1] \in Responses
  BY ReadFacts DEF Types
<1>2. Cardinality(Hits(responses', AnswersOf(q))) = Cardinality(Hits(responses, AnswersOf(q)))
         - IF responses[1] \in AnswersOf(q) THEN 1 ELSE 0
  BY <1>1, HitsTail
<1> QED
  BY <1>1, <1>2 DEF AnswersOf

LEMMA ExactStep == Types /\ Closed /\ Exact /\ [Next]_vars => Exact'
  <1> SUFFICES ASSUME Types, Closed, Exact, [Next]_vars PROVE Exact'
    OBVIOUS
  <1> USE ReadsAssumption, BoundsAssumption
  <1>0. 0 \in Commits
    BY DEF Commits
  <1>a. ASSUME NEW p \in Queries
        PROVE  /\ Cardinality(Hits(requests, RequestsOf(p))) \in Nat
               /\ Cardinality(Hits(responses, AnswersOf(p))) \in Nat
               /\ target[p].outstanding =
                    Cardinality(Hits(requests, RequestsOf(p))) + Cardinality(Hits(responses, AnswersOf(p)))
    BY HitsFinite DEF Types, Exact
  <1>b. ASSUME UNCHANGED <<target, requests, responses>> PROVE Exact'
    BY <1>b DEF Exact, RequestsOf, AnswersOf
  <1>1. ASSUME NEW r \in Reads, Get(r) PROVE Exact'
    <2> DEFINE q == QueryOf[r]
    <2>1. CASE view[q] = "none" /\ stream = "Open"
      <3>1. SendRequest("watch", q, token[q]) /\ UNCHANGED responses
        BY <1>1, <2>1 DEF Get
      <3>2. q \in Queries /\ token[q] \in Commits
        BY DEF Types
      <3> QED
        BY <3>1, <3>2, SendExact
    <2>2. CASE ~ (view[q] = "none" /\ stream = "Open")
      BY <1>1, <2>2, <1>b DEF Get
    <2> QED
      BY <2>1, <2>2
  <1>2. ASSUME NEW r \in Reads, RemoveQueryListener(r) PROVE Exact'
    <2> DEFINE q == QueryOf[r]
    <2>1. CASE Listeners(q) = {r} /\ stream = "Open"
      <3>1. SendRequest("unwatch", q, 0) /\ UNCHANGED responses
        BY <1>2, <2>1 DEF RemoveQueryListener
      <3> QED
        BY <1>0, <3>1, SendExact
    <2>2. CASE ~ (Listeners(q) = {r} /\ stream = "Open")
      BY <1>2, <2>2, <1>b DEF RemoveQueryListener
    <2> QED
      BY <2>1, <2>2
  <1>3. CASE OnWatchStreamOpen
    <2>1. ASSUME NEW q \in Queries
          PROVE  target'[q].outstanding =
                    Cardinality(Hits(requests', RequestsOf(q))) + Cardinality(Hits(responses', AnswersOf(q)))
      <3>1. requests' \in Seq(Requests) /\ responses' = <<>>
        BY <1>3, OpenFacts
      <3>2. Hits(requests', RequestsOf(q)) = {i \in DOMAIN requests' : requests'[i].query = q}
        BY <3>1, ExactHits DEF Types
      <3>3. Cardinality(Hits(responses', AnswersOf(q))) = 0
        BY <3>1, NoHits
      <3>4. CASE view[q] # "none"
        <4>1. PICK i \in DOMAIN requests' : requests'[i].query = q
          BY <1>3, <3>4, OpenFacts
        <4>2. Hits(requests', RequestsOf(q)) = {i}
          BY <1>3, <3>2, <4>1, OpenFacts
        <4>3. Cardinality(Hits(requests', RequestsOf(q))) = 1
          BY <4>2, FS_Singleton
        <4>4. target'[q].outstanding = 1
          BY <1>3, <3>4, OpenFacts DEF NoTarget
        <4> QED
          BY <3>3, <4>3, <4>4
      <3>5. CASE view[q] = "none"
        <4>1. Hits(requests', RequestsOf(q)) = {}
          BY <1>3, <3>2, <3>5, OpenFacts
        <4>2. Cardinality(Hits(requests', RequestsOf(q))) = 0
          BY <4>1, FS_EmptySet
        <4>3. target'[q].outstanding = 0
          BY <1>3, <3>5, OpenFacts DEF NoTarget
        <4> QED
          BY <3>3, <4>2, <4>3
      <3> QED
        BY <3>4, <3>5
    <2> QED
      BY <2>1 DEF Exact, RequestsOf, AnswersOf
  <1>4. CASE OnWatchStreamChange
    <2> DEFINE m == Head(responses)
    <2>1. /\ responses # <<>> /\ responses' = Tail(responses) /\ UNCHANGED requests
          /\ target' = [q \in Queries |-> TargetAfter(q, m)]
          /\ m.type # "snapshot"
      BY <1>4 DEF OnWatchStreamChange
    <2>2. m \in Responses /\ m = responses[1]
      BY <2>1, ReadFacts
    <2>3. m.type \in {"added", "removed", "doc", "current"}
      BY <2>1, <2>2 DEF Responses
    <2>4. ASSUME NEW q \in Queries
          PROVE  target'[q].outstanding = target[q].outstanding
                    - IF m.type \in {"added", "removed"} /\ q \in m.queries THEN 1 ELSE 0
      <3>1. target'[q] = TargetAfter(q, m) /\ target[q] \in Targets
        BY <2>1 DEF Types
      <3> HIDE DEF m
      <3> QED
        BY <3>1, <2>3 DEF TargetAfter, Targets, NoTarget
    <2>5. ASSUME NEW q \in Queries
          PROVE  target'[q].outstanding =
                    Cardinality(Hits(requests', RequestsOf(q))) + Cardinality(Hits(responses', AnswersOf(q)))
      <3>1. Cardinality(Hits(responses', AnswersOf(q))) = Cardinality(Hits(responses, AnswersOf(q)))
               - IF m.type \in {"added", "removed"} /\ q \in m.queries THEN 1 ELSE 0
        BY <2>1, <2>2, ReadExact
      <3>2. requests' = requests
        BY <2>1
      <3> HIDE DEF m
      <3> QED
        BY <2>4, <3>1, <3>2, <1>a
    <2> QED
      BY <2>5 DEF Exact, RequestsOf, AnswersOf
  <1>5. CASE RaiseWatchSnapshot
    <2>1. /\ responses # <<>> /\ responses' = Tail(responses) /\ UNCHANGED requests
          /\ target' = [q \in Queries |-> [target[q] EXCEPT !.doc = 0]]
          /\ responses[1].type = "snapshot"
      BY <1>5, ReadFacts DEF RaiseWatchSnapshot
    <2>2. ASSUME NEW q \in Queries
          PROVE  target'[q].outstanding =
                    Cardinality(Hits(requests', RequestsOf(q))) + Cardinality(Hits(responses', AnswersOf(q)))
      <3>1. Cardinality(Hits(responses', AnswersOf(q))) = Cardinality(Hits(responses, AnswersOf(q)))
        BY <2>1, ReadExact, <1>a
      <3>2. target'[q].outstanding = target[q].outstanding
        BY <2>1 DEF Types, Targets
      <3> QED
        BY <3>1, <3>2, <2>1, <1>a
    <2> QED
      BY <2>2 DEF Exact, RequestsOf, AnswersOf
  <1>6. CASE BackoffElapsed \/ OnlineStateTimeout \/ (\E q \in Queries : Commit(q)) \/ UNCHANGED vars
    BY <1>6, <1>b DEF BackoffElapsed, OnlineStateTimeout, Commit, vars
  <1>7. CASE StreamFails \/ IdleTimeout \/ RestartNetwork
    BY <1>7, DropExact DEF StreamFails, IdleTimeout, RestartNetwork
  <1>8. CASE ServeRequest
    <2> DEFINE m == requests[1]
               a == Message(IF m.type = "watch" THEN "added" ELSE "removed", {m.query}, 0)
    <2>1. /\ m \in Requests /\ a \in Responses /\ requests \in Seq(Requests) /\ requests # <<>>
          /\ m = Head(requests) /\ requests' = Tail(requests) /\ responses' = Append(responses, a)
      BY <1>8, ServeFacts
    <2>2. ASSUME NEW q \in Queries
          PROVE  target'[q].outstanding =
                    Cardinality(Hits(requests', RequestsOf(q))) + Cardinality(Hits(responses', AnswersOf(q)))
      <3>1. Cardinality(Hits(requests', RequestsOf(q))) =
              Cardinality(Hits(requests, RequestsOf(q))) - IF m \in RequestsOf(q) THEN 1 ELSE 0
        BY <2>1, HitsTail
      <3>2. Cardinality(Hits(responses', AnswersOf(q))) =
              Cardinality(Hits(responses, AnswersOf(q))) + IF a \in AnswersOf(q) THEN 1 ELSE 0
        BY <2>1, HitsAppend DEF Types
      <3>3. (m \in RequestsOf(q) <=> m.query = q) /\ (a \in AnswersOf(q) <=> m.query = q)
        BY <2>1 DEF RequestsOf, AnswersOf, Message
      <3>4. UNCHANGED target
        BY <1>8 DEF ServeRequest
      <3> QED
        BY <3>1, <3>2, <3>3, <3>4, <1>a
    <2> QED
      BY <2>2 DEF Exact, RequestsOf, AnswersOf
  <1>9. CASE ServeSnapshot
    <2>1. ASSUME NEW q \in Queries
          PROVE  Hits(responses', AnswersOf(q)) = Hits(responses, AnswersOf(q))
      <3>1. /\ responses' \in Seq(Responses) /\ Len(responses') > Len(responses)
            /\ DOMAIN responses' = 1..Len(responses') /\ Len(responses') \in Nat
            /\ \A i \in 1..Len(responses) : responses'[i] = responses[i]
            /\ \A i \in (Len(responses) + 1)..Len(responses') :
                  responses'[i].type \in {"doc", "current", "snapshot"}
        BY <1>9, SnapshotFacts
      <3>2. \A i \in (Len(responses) + 1)..Len(responses') : responses'[i] \notin AnswersOf(q)
        BY <3>1 DEF AnswersOf
      <3>3. Len(responses) \in Nat /\ DOMAIN responses = 1..Len(responses)
        BY Positions
      <3> QED
        BY <3>1, <3>2, <3>3 DEF Hits
    <2>2. UNCHANGED <<target, requests>>
      BY <1>9 DEF ServeSnapshot
    <2> QED
      BY <2>1, <2>2 DEF Exact, RequestsOf, AnswersOf
  <1> QED
    BY <1>1, <1>2, <1>3, <1>4, <1>5, <1>6, <1>7, <1>8, <1>9 DEF Next, ClientStep

------------------------------------------------------------------------------
(* The connection, the tracker and the views.                               *)
LEMMA ClosedStep == Types /\ Closed /\ [Next]_vars => Closed'
  <1> SUFFICES ASSUME Types, Closed, [Next]_vars PROVE Closed'
    OBVIOUS
  <1>1. ASSUME NEW r \in Reads, Get(r) PROVE Closed'
    <2>1. CASE stream = "Open"
      <3>1. stream' = "Open"
        BY <1>1, <2>1 DEF Get, Started
      <3> QED
        BY <3>1 DEF Closed
    <2>2. CASE stream # "Open"
      <3>1. UNCHANGED <<requests, responses, target, sent>>
        BY <1>1, <2>2 DEF Get, backend
      <3> QED
        BY <2>2, <3>1 DEF Closed
    <2> QED
      BY <2>1, <2>2
  <1>2. ASSUME NEW r \in Reads, RemoveQueryListener(r) PROVE Closed'
    <2>1. CASE stream = "Open"
      BY <1>2, <2>1 DEF RemoveQueryListener, Closed
    <2>2. CASE stream # "Open"
      <3>1. UNCHANGED <<requests, responses, target, sent>>
        BY <1>2, <2>2 DEF RemoveQueryListener, backend
      <3> QED
        BY <2>2, <3>1 DEF Closed
    <2> QED
      BY <2>1, <2>2
  <1>3. CASE StreamFails \/ IdleTimeout \/ RestartNetwork
    BY <1>3 DEF StreamFails, IdleTimeout, RestartNetwork, DropConnection, Closed
  <1>4. CASE OnWatchStreamOpen \/ OnWatchStreamChange \/ RaiseWatchSnapshot
    BY <1>4 DEF OnWatchStreamOpen, OnWatchStreamChange, RaiseWatchSnapshot, Closed
  <1>5. CASE BackoffElapsed
    BY <1>5 DEF BackoffElapsed, Closed, Start, backend
  <1>6. CASE OnlineStateTimeout \/ (\E q \in Queries : Commit(q)) \/ UNCHANGED vars
    BY <1>6 DEF OnlineStateTimeout, Commit, vars, Closed, backend
  <1>7. CASE ServeRequest
    <2>1. stream = "Open"
      BY <1>7 DEF ServeRequest, Closed
    <2> QED
      BY <1>7, <2>1 DEF ServeRequest, Closed
  <1>8. CASE ServeSnapshot
    <2>1. stream = "Open"
      BY <1>8 DEF ServeSnapshot, Closed
    <2> QED
      BY <1>8, <2>1 DEF ServeSnapshot, Closed
  <1> QED
    BY <1>1, <1>2, <1>3, <1>4, <1>5, <1>6, <1>7, <1>8 DEF Next, ClientStep


(* TrackerIsConsistent is inductive: it relates all that decides it.        *)
LEMMA TrackerStep == Types /\ TrackerIsConsistent /\ [Next]_vars => TrackerIsConsistent'
  <1> SUFFICES ASSUME Types, TrackerIsConsistent, [Next]_vars PROVE TrackerIsConsistent'
    OBVIOUS
  <1> USE ReadsAssumption DEF TrackerIsConsistent, Started, Start, Listened, FirstStart, UpdateState, tracker
  <1>1. ASSUME NEW r \in Reads, Get(r) PROVE TrackerIsConsistent'
    <2> DEFINE q == QueryOf[r]
    <2>1. /\ view' = [view EXCEPT ![q] = IF view[q] = "none" THEN "local" ELSE @]
          /\ IF view[q] = "none" /\ ~Started(stream)
               THEN FirstStart(stream) ELSE UNCHANGED <<stream, tracker>>
          /\ IF view[q] = "none" /\ stream = "Open"
               THEN idle' = FALSE ELSE UNCHANGED idle
      BY <1>1 DEF Get
    <2>2. CASE view[q] # "none"
      <3>1. view' = view /\ UNCHANGED <<stream, tracker, idle>>
        BY <2>1, <2>2 DEF Types
      <3> QED
        BY <3>1
    <2>3. CASE view[q] = "none"
      BY <2>1, <2>3 DEF Types
    <2> QED
      BY <2>2, <2>3
  <1>2. ASSUME NEW r \in Reads, RemoveQueryListener(r) PROVE TrackerIsConsistent'
    <2> DEFINE q == QueryOf[r]
               last == Listeners(q) = {r}
    <2>1. /\ view' = [view EXCEPT ![q] = IF last THEN "none" ELSE @]
          /\ IF last /\ stream = "Open"
               THEN idle' = (Listened(view') = {}) ELSE UNCHANGED idle
          /\ IF last /\ stream # "Open" /\ Listened(view') = {}
               THEN UpdateState("Unknown") ELSE UNCHANGED tracker
          /\ UNCHANGED stream
      BY <1>2 DEF RemoveQueryListener
    <2>2. CASE ~last
      <3>1. view' = view /\ UNCHANGED <<stream, tracker, idle>>
        BY <2>1, <2>2 DEF Types
      <3> QED
        BY <3>1
    <2>3. CASE last
      <3>1. Listened(view') \subseteq Listened(view)
        BY <2>1, <2>3 DEF Types
      <3> HIDE DEF Listened
      <3> QED
        BY <2>1, <2>3, <3>1
    <2> QED
      BY <2>2, <2>3
  <1>3. CASE StreamFails
    <2>1. CASE Listened(view) = {}
      BY <1>3, <2>1 DEF StreamFails
    <2>2. CASE Listened(view) # {} /\ online = "Online"
      BY <1>3, <2>2 DEF StreamFails
    <2>3. CASE Listened(view) # {} /\ online # "Online"
      BY <1>3, <2>3 DEF StreamFails, GoOffline
    <2> QED
      BY <2>1, <2>2, <2>3
  <1>4. CASE IdleTimeout
    BY <1>4 DEF IdleTimeout
  <1>5. CASE RestartNetwork
    BY <1>5 DEF RestartNetwork
  <1>6. CASE OnWatchStreamOpen
    BY <1>6 DEF OnWatchStreamOpen
  <1>7. CASE OnWatchStreamChange
    BY <1>7 DEF OnWatchStreamChange
  <1>8. CASE RaiseWatchSnapshot
    <2>1. /\ stream = "Open" /\ stream' = "Open" /\ UpdateState("Online") /\ idle' = idle
          /\ view' = [q \in Queries |->
                IF ~IsActiveTarget(q) THEN view[q]
                ELSE IF target[q].current THEN "synced" ELSE "local"]
      BY <1>8 DEF RaiseWatchSnapshot
    <2>2. \A q \in Queries : view'[q] # "none" => view[q] # "none"
      BY <2>1 DEF IsActiveTarget
    <2>3. Listened(view) = {} => Listened(view') = {}
      BY <2>2
    <2> HIDE DEF Listened
    <2> QED
      BY <2>1, <2>3
  <1>9. CASE BackoffElapsed
    BY <1>9 DEF BackoffElapsed
  <1>10. CASE OnlineStateTimeout
    <2>1. /\ timer /\ timer' = FALSE /\ online' = "Offline" /\ UNCHANGED <<failed, stream, idle>>
          /\ view' = [q \in Queries |-> IF view[q] = "synced" THEN "local" ELSE view[q]]
      BY <1>10 DEF OnlineStateTimeout, GoOffline
    <2>2. Listened(view') = Listened(view)
      BY <2>1
    <2>3. ~timer' /\ ~failed' /\ online' # "Online"
      BY <2>1
    <2>4. (idle' => stream' = "Open") /\ (idle' => Listened(view) = {})
      BY <2>1
    <2>5. Listened(view) # {} => Started(stream')
      BY <2>1
    <2>6. stream' = stream
      BY <2>1
    <2> HIDE DEF Listened, Started, FirstStart, UpdateState, Start, tracker
    <2> QED
      BY <2>2, <2>3, <2>4, <2>5, <2>6, Zenon
  <1>11. CASE (\E q \in Queries : Commit(q)) \/ ServeRequest \/ ServeSnapshot \/ UNCHANGED vars
    <2>1. UNCHANGED <<view, timer, failed, online, stream, idle>>
      <3>1. CASE \E q \in Queries : Commit(q)
        BY <3>1 DEF Commit
      <3>2. CASE ServeRequest
        BY <3>2 DEF ServeRequest
      <3>3. CASE ServeSnapshot
        <4>1. UNCHANGED view
          BY <3>3, Zenon DEF ServeSnapshot
        <4>2. UNCHANGED <<timer, failed, online>>
          BY <3>3, Zenon DEF ServeSnapshot
        <4>3. UNCHANGED <<stream, idle>>
          BY <3>3, Zenon DEF ServeSnapshot
        <4> QED
          BY <4>1, <4>2, <4>3
      <3>4. CASE UNCHANGED vars
        BY <3>4 DEF vars
      <3> QED
        BY <1>11, <3>1, <3>2, <3>3, <3>4
    <2> QED
      BY <2>1
  <1> QED
    BY <1>1, <1>2, <1>3, <1>4, <1>5, <1>6, <1>7, <1>8, <1>9, <1>10, <1>11 DEF Next, ClientStep

(* Showing a value to reads that listen changes no set of reads.            *)
LEMMA RaiseReads ==
  ASSUME Types, NEW rs, NEW c, NEW v, Raise(rs, c, v),
         \A r \in Reads : r \in rs => phase[r] \in {"waiting", "shown"}, NEW q
  PROVE  Listeners(q)' = Listeners(q) /\ Asked(q)' = Asked(q) /\ Gone(q)' = Gone(q)
<1>1. \A r \in Reads : phase'[r] = IF r \in rs THEN "shown" ELSE phase[r]
  BY DEF Raise
<1> QED
  BY <1>1 DEF Listeners, Asked, Gone

(* GoOffline, whoever calls it. *)
LEMMA OfflineReads ==
  ASSUME Types, GoOffline
  PROVE  /\ \A q \in Queries : Listeners(q)' = Listeners(q) /\ Asked(q)' = Asked(q) /\ Gone(q)' = Gone(q)
         /\ \A r \in Reads : phase'[r] # "waiting"
         /\ \A q \in Queries : view'[q] # "synced" /\ (view'[q] = "none" <=> view[q] = "none")
<1>1. Raise({r \in Reads : phase[r] = "waiting"}, cache, view')
  BY DEF GoOffline
<1>2. \A q \in Queries : Listeners(q)' = Listeners(q) /\ Asked(q)' = Asked(q) /\ Gone(q)' = Gone(q)
  BY <1>1, RaiseReads
<1>3. \A r \in Reads : phase'[r] # "waiting"
  BY <1>1 DEF Raise
<1>4. \A q \in Queries : view'[q] # "synced" /\ (view'[q] = "none" <=> view[q] = "none")
  BY DEF GoOffline
<1> QED
  BY <1>2, <1>3, <1>4

(* The reads that a snapshot answers. *)
LEMMA SnapshotReads ==
  ASSUME Types, RaiseWatchSnapshot
  PROVE  /\ \A q \in Queries : Listeners(q)' = Listeners(q) /\ Asked(q)' = Asked(q) /\ Gone(q)' = Gone(q)
         /\ \A r \in Reads \ Streams :
              \/ phase'[r] = phase[r] /\ result'[r] = result[r]
                    /\ (phase[r] = "waiting" => view'[QueryOf[r]] # "synced")
              \/ phase[r] = "waiting" /\ phase'[r] = "shown" /\ view'[QueryOf[r]] = "synced"
                    /\ result'[r] = [value |-> cache'[QueryOf[r]], fromCache |-> FALSE]
         /\ \A r \in Reads : phase'[r] = "waiting" => phase[r] = "waiting"
<1> DEFINE Moved(q) == cache'[q] # cache[q]
           ready == {r \in Reads : LET q == QueryOf[r] IN
             \/ phase[r] = "waiting" /\ r \notin Streams /\ view'[q] = "synced"
             \/ phase[r] = "waiting" /\ r \in Streams /\ (IsActiveTarget(q) \/ Moved(q))
             \/ phase[r] = "shown" /\ r \in Streams /\ Moved(q)}
<1>1. Raise(ready, cache', view')
  BY DEF RaiseWatchSnapshot
<1>2. \A r \in Reads : r \in ready => phase[r] \in {"waiting", "shown"}
  OBVIOUS
<1>3. \A r \in Reads \ Streams : r \in ready <=> phase[r] = "waiting" /\ view'[QueryOf[r]] = "synced"
  OBVIOUS
<1> HIDE DEF ready
<1>4. \A q \in Queries : Listeners(q)' = Listeners(q) /\ Asked(q)' = Asked(q) /\ Gone(q)' = Gone(q)
  BY <1>1, <1>2, RaiseReads
<1>5. \A r \in Reads :
        /\ phase'[r] = IF r \in ready THEN "shown" ELSE phase[r]
        /\ result'[r] = IF r \in ready
                          THEN [value |-> cache'[QueryOf[r]], fromCache |-> view'[QueryOf[r]] # "synced"]
                          ELSE result[r]
  BY <1>1 DEF Raise
<1> QED
  BY <1>3, <1>4, <1>5

(* What Get does to the reads and the view. *)
Gets(r) ==
    LET q == QueryOf[r] IN
    /\ q \in Queries /\ phase[r] = "unasked" /\ phase'[r] \in {"waiting", "shown"}
    /\ \A s \in Reads \ {r} : phase'[s] = phase[s] /\ result'[s] = result[s] /\ floor'[s] = floor[s]
    /\ phase'[r] = "waiting" => result' = result
    /\ phase'[r] = "shown" =>
         result'[r] = [value |-> cache[q], fromCache |-> view[q] # "synced"]
    /\ view[q] = "synced" => phase'[r] = "shown"
    /\ floor'[r] = IF view[q] = "none" THEN lastWrite[q] ELSE 0
    /\ \A p \in Queries : view'[p] = IF p = q /\ view[q] = "none" THEN "local" ELSE view[p]

LEMMA GetReads ==
  ASSUME Types, NEW r \in Reads, Get(r)
  PROVE  Gets(r)
<1> DEFINE q == QueryOf[r]
<1>1. q \in Queries
  BY ReadsAssumption
<1>2. /\ floor' = [floor EXCEPT ![r] = IF view[q] = "none" THEN lastWrite[q] ELSE 0]
      /\ view' = [view EXCEPT ![q] = IF view[q] = "none" THEN "local" ELSE @]
      /\ phase[r] = "unasked"
      /\ \/ Raise({r}, cache, view)
         \/ view[q] # "synced" /\ phase' = [phase EXCEPT ![r] = "waiting"] /\ UNCHANGED result
  BY DEF Get, ShouldRaiseInitialEvent
<1> DEFINE Shown == /\ phase'[r] \in {"waiting", "shown"}
                    /\ \A s \in Reads \ {r} : phase'[s] = phase[s] /\ result'[s] = result[s]
                    /\ phase'[r] = "waiting" => result' = result
                    /\ phase'[r] = "shown" =>
                         result'[r] = [value |-> cache[q], fromCache |-> view[q] # "synced"]
                    /\ view[q] = "synced" => phase'[r] = "shown"
<1>3. ASSUME Raise({r}, cache, view) PROVE Shown
  BY <1>3 DEF Raise
<1>4. ASSUME view[q] # "synced", phase' = [phase EXCEPT ![r] = "waiting"], UNCHANGED result
      PROVE  Shown
  BY <1>4 DEF Types
<1>5. \A p \in Queries : view'[p] = IF p = q /\ view[q] = "none" THEN "local" ELSE view[p]
  BY <1>2 DEF Types
<1>6. \A s \in Reads \ {r} : floor'[s] = floor[s]
  BY <1>2 DEF Types
<1>7. floor'[r] = IF view[q] = "none" THEN lastWrite[q] ELSE 0
  BY <1>2 DEF Types
<1> QED
  BY <1>1, <1>2, <1>3, <1>4, <1>5, <1>6, <1>7 DEF Gets

(* What RemoveQueryListener does to them. *)
Removes(r) ==
    LET q == QueryOf[r] IN
    /\ q \in Queries /\ phase[r] \in {"shown", "waiting"} /\ phase'[r] = "gone"
    /\ phase[r] = "waiting" => r \in Streams
    /\ \A s \in Reads \ {r} : phase'[s] = phase[s]
    /\ \A p \in Queries : view'[p] = IF p = q /\ Listeners(q) = {r} THEN "none" ELSE view[p]

LEMMA RemoveReads ==
  ASSUME Types, NEW r \in Reads, RemoveQueryListener(r)
  PROVE  Removes(r)
<1> DEFINE q == QueryOf[r]
<1>1. q \in Queries
  BY ReadsAssumption
<1>2. /\ phase[r] = "shown" \/ (r \in Streams /\ phase[r] = "waiting")
      /\ phase' = [phase EXCEPT ![r] = "gone"]
      /\ view' = [view EXCEPT ![q] = IF Listeners(q) = {r} THEN "none" ELSE @]
  BY DEF RemoveQueryListener
<1>3. phase'[r] = "gone" /\ \A s \in Reads \ {r} : phase'[s] = phase[s]
  BY <1>2 DEF Types
<1>4. \A p \in Queries : view'[p] = IF p = q /\ Listeners(q) = {r} THEN "none" ELSE view[p]
  BY <1>1, <1>2 DEF Types
<1> QED
  BY <1>1, <1>2, <1>3, <1>4 DEF Removes

LEMMA ViewStateStep == Types /\ ViewState /\ [Next]_vars => ViewState'
  <1> SUFFICES ASSUME Types, ViewState, [Next]_vars PROVE ViewState'
    OBVIOUS
  <1> USE ReadsAssumption
  <1>1. ASSUME NEW r \in Reads, Get(r) PROVE ViewState'
    <2>0. Gets(r)
      BY <1>1, GetReads
    <2>1. ASSUME NEW q \in Queries PROVE view'[q] # "none" <=> Listeners(q)' # {}
      <3>1. CASE q = QueryOf[r]
        <4>1. r \in Listeners(q)'
          BY <2>0, <3>1 DEF Listeners, Gets
        <4>2. view'[q] # "none"
          BY <2>0, <3>1 DEF Gets
        <4> QED
          BY <4>1, <4>2
      <3>2. CASE q # QueryOf[r]
        <4>1. Listeners(q)' = Listeners(q)
          BY <2>0, <3>2 DEF Listeners, Gets
        <4>2. view'[q] = view[q]
          BY <2>0, <3>2 DEF Gets
        <4> QED
          BY <4>1, <4>2 DEF ViewState
      <3> QED
        BY <3>1, <3>2
    <2>2. ASSUME NEW s \in Reads \ Streams, phase'[s] = "waiting" PROVE view'[QueryOf[s]] # "synced"
      <3>1. view[QueryOf[s]] # "synced"
        BY <2>0, <2>2 DEF ViewState, Gets
      <3> QED
        BY <2>0, <3>1 DEF Gets
    <2> QED
      BY <2>1, <2>2 DEF ViewState
  <1>2. ASSUME NEW r \in Reads, RemoveQueryListener(r) PROVE ViewState'
    <2>0. Removes(r)
      BY <1>2, RemoveReads
    <2>1. ASSUME NEW q \in Queries PROVE view'[q] # "none" <=> Listeners(q)' # {}
      <3>1. CASE q = QueryOf[r]
        <4>1. Listeners(q)' = Listeners(q) \ {r} /\ r \in Listeners(q)
          BY <2>0, <3>1 DEF Listeners, Removes
        <4>2. view'[q] = IF Listeners(q) = {r} THEN "none" ELSE view[q]
          BY <2>0, <3>1 DEF Removes
        <4> QED
          BY <4>1, <4>2 DEF ViewState
      <3>2. CASE q # QueryOf[r]
        <4>1. Listeners(q)' = Listeners(q)
          BY <2>0, <3>2 DEF Listeners, Removes
        <4>2. view'[q] = view[q]
          BY <2>0, <3>2 DEF Removes
        <4> QED
          BY <4>1, <4>2 DEF ViewState
      <3> QED
        BY <3>1, <3>2
    <2>2. ASSUME NEW s \in Reads \ Streams, phase'[s] = "waiting" PROVE view'[QueryOf[s]] # "synced"
      <3>1. s # r /\ phase[s] = "waiting" /\ view[QueryOf[s]] # "synced"
        BY <2>0, <2>2 DEF ViewState, Removes
      <3> QED
        BY <2>0, <3>1 DEF Removes
    <2> QED
      BY <2>1, <2>2 DEF ViewState
  <1>3. ASSUME GoOffline PROVE ViewState'
    BY <1>3, OfflineReads DEF ViewState
  <1>4. ASSUME UNCHANGED <<view, phase>> PROVE ViewState'
    BY <1>4 DEF ViewState, Listeners
  <1>5. CASE RaiseWatchSnapshot
    <2>1. ASSUME NEW q \in Queries PROVE view'[q] # "none" <=> view[q] # "none"
      BY <1>5 DEF RaiseWatchSnapshot, IsActiveTarget
    <2> QED
      BY <1>5, <2>1, SnapshotReads DEF ViewState
  <1>6. CASE StreamFails
    BY <1>3, <1>4, <1>6 DEF StreamFails
  <1>7. CASE OnlineStateTimeout
    BY <1>3, <1>7 DEF OnlineStateTimeout
  <1>8. CASE RestartNetwork \/ IdleTimeout \/ OnWatchStreamOpen \/ OnWatchStreamChange \/ BackoffElapsed
               \/ (\E q \in Queries : Commit(q)) \/ ServeRequest \/ ServeSnapshot \/ UNCHANGED vars
    BY <1>4, <1>8 DEF RestartNetwork, IdleTimeout, OnWatchStreamOpen, OnWatchStreamChange, BackoffElapsed,
       Commit, ServeRequest, ServeSnapshot, vars, reads
  <1> QED
    BY <1>1, <1>2, <1>5, <1>6, <1>7, <1>8 DEF Next, ClientStep

------------------------------------------------------------------------------
(* What a message without a version does to the targets.                    *)
LEMMA ChangeFacts ==
  ASSUME Types, OnWatchStreamChange
  PROVE  /\ stream = "Open" /\ responses # <<>> /\ responses' = Tail(responses)
         /\ responses[1].type # "snapshot"
         /\ UNCHANGED <<lastWrite, cache, token, view, phase, result, floor, stream, requests, sent>>
         /\ \A q \in Queries :
              /\ target'[q].doc = IF IsDoc(1, q) /\ IsActiveTarget(q) THEN responses[1].version
                                  ELSE target[q].doc
              /\ target'[q].outstanding <= target[q].outstanding
<1> DEFINE m == Head(responses)
<1>1. /\ stream = "Open" /\ responses # <<>> /\ responses' = Tail(responses) /\ m.type # "snapshot"
      /\ target' = [q \in Queries |-> TargetAfter(q, m)]
      /\ UNCHANGED <<lastWrite, cache, token, view, phase, result, floor, stream, requests, sent>>
  BY DEF OnWatchStreamChange, store, reads, backend
<1>2. m = responses[1] /\ m \in Responses
  BY <1>1, ReadFacts
<1>3. m.type \in {"added", "removed", "doc", "current"}
  BY <1>1, <1>2 DEF Responses
<1>4. ASSUME NEW q \in Queries
      PROVE  /\ target'[q].doc = IF m.type = "doc" /\ q \in m.queries /\ IsActiveTarget(q)
                                   THEN m.version ELSE target[q].doc
             /\ target'[q].outstanding <= target[q].outstanding
  <2>1. target'[q] = TargetAfter(q, m) /\ target[q] \in Targets
    BY <1>1 DEF Types
  <2> HIDE DEF m
  <2>2. CASE q \notin m.queries
    BY <2>1, <2>2 DEF TargetAfter, Targets
  <2>3. CASE q \in m.queries /\ m.type \in {"added", "removed"}
    BY <2>1, <2>3 DEF TargetAfter, Targets, NoTarget
  <2>4. CASE q \in m.queries /\ m.type \in {"doc", "current"}
    BY <2>1, <2>4 DEF TargetAfter, Targets
  <2> QED
    BY <1>3, <2>2, <2>3, <2>4
<1> QED
  BY <1>1, <1>2, <1>4 DEF IsDoc

(* What a commit does to the numbers. *)
LEMMA CommitFacts ==
  ASSUME Types, NEW q \in Queries, Commit(q)
  PROVE  /\ lastWrite' \in [Queries -> Nat]
         /\ \A p \in Queries : lastWrite'[q] > lastWrite[p] /\ lastWrite'[p] >= lastWrite[p]
         /\ \A p \in Queries \ {q} : lastWrite'[p] = lastWrite[p]
         /\ UNCHANGED <<cache, token, view, phase, result, floor, stream, target, requests, responses, sent>>
<1> DEFINE S == {lastWrite[p] : p \in Queries}
<1>1. lastWrite' = [lastWrite EXCEPT ![q] = Max(S) + 1]
  BY DEF Commit
<1>2. Max(S) \in Commits /\ \A p \in Queries : lastWrite[p] <= Max(S)
  BY LastCommit
<1> HIDE DEF S
<1>3. Max(S) \in Nat /\ \A p \in Queries : lastWrite[p] \in Nat
  BY <1>2, BoundsAssumption DEF Types, Commits
<1>4. \A p \in Queries : lastWrite'[p] = IF p = q THEN Max(S) + 1 ELSE lastWrite[p]
  BY <1>1 DEF Types
<1>5. UNCHANGED <<cache, token, view, phase, result, floor, stream, target, requests, responses, sent>>
  BY DEF Commit, store, reads, backend
<1>6. lastWrite' \in [Queries -> Nat]
  BY <1>1, <1>3 DEF Types
<1> QED
  BY <1>2, <1>3, <1>4, <1>5, <1>6

(* What a snapshot does to the documents. *)
LEMMA RaiseFacts ==
  ASSUME Types, RaiseWatchSnapshot
  PROVE  /\ stream = "Open" /\ responses # <<>> /\ responses' = Tail(responses)
         /\ responses[1].type = "snapshot"
         /\ UNCHANGED <<lastWrite, floor, stream, requests, sent>>
         /\ \A q \in Queries :
              /\ cache'[q] \in {cache[q], target[q].doc}
              /\ cache'[q] >= cache[q] /\ cache'[q] >= target[q].doc
              /\ target'[q].doc = 0 /\ target'[q].outstanding = target[q].outstanding
              /\ token'[q] = IF IsActiveTarget(q) THEN responses[1].version ELSE token[q]
              /\ view'[q] = "none" <=> view[q] = "none"
              /\ view'[q] = "synced" => view[q] = "synced" \/ IsActiveTarget(q)
<1>1. /\ stream = "Open" /\ responses # <<>> /\ responses' = Tail(responses)
      /\ Head(responses).type = "snapshot"
      /\ UNCHANGED <<lastWrite, floor, stream, requests, sent>>
      /\ cache' = [q \in Queries |-> Max({cache[q], target[q].doc})]
      /\ token' = [q \in Queries |-> IF IsActiveTarget(q) THEN Head(responses).version ELSE token[q]]
      /\ target' = [q \in Queries |-> [target[q] EXCEPT !.doc = 0]]
      /\ view' = [q \in Queries |->
            IF ~IsActiveTarget(q) THEN view[q]
            ELSE IF target[q].current THEN "synced" ELSE "local"]
  BY DEF RaiseWatchSnapshot, Tokens, backend
<1>2. Head(responses) = responses[1]
  BY <1>1, ReadFacts
<1>3. ASSUME NEW q \in Queries
      PROVE  /\ cache'[q] \in {cache[q], target[q].doc}
             /\ cache'[q] >= cache[q] /\ cache'[q] >= target[q].doc
  <2>1. cache[q] \in Commits /\ target[q].doc \in Commits
    BY DEF Types, Targets
  <2> QED
    BY <1>1, <2>1, MaxPair
<1>4. \A q \in Queries : target'[q].doc = 0 /\ target'[q].outstanding = target[q].outstanding
  BY <1>1 DEF Types, Targets
<1>5. \A q \in Queries : /\ view'[q] = "none" <=> view[q] = "none"
                         /\ view'[q] = "synced" => view[q] = "synced" \/ IsActiveTarget(q)
  BY <1>1 DEF IsActiveTarget
<1> QED
  BY <1>1, <1>2, <1>3, <1>4, <1>5

LEMMA CountReads ==
  ASSUME NEW q
  PROVE  /\ IsFiniteSet(Asked(q)) /\ Cardinality(Asked(q)) \in Nat
         /\ IsFiniteSet(Gone(q)) /\ Cardinality(Gone(q)) \in Nat
         /\ Cardinality(Asked(q)) <= Cardinality(Reads) /\ Cardinality(Gone(q)) <= Cardinality(Reads)
<1>1. Asked(q) \in SUBSET Reads /\ Gone(q) \in SUBSET Reads
  BY DEF Asked, Gone
<1> QED
  BY <1>1, FiniteAssumption, FS_Subset, FS_CardinalityType

(* The bound of TypeOK on the answers that are outstanding. *)
LEMMA TypeOKLemma == Types /\ Bounded => TypeOK
  <1> SUFFICES ASSUME Types, Bounded PROVE TypeOK
    OBVIOUS
  <1>1. Cardinality(Reads) \in Nat
    BY FiniteAssumption, FS_CardinalityType
  <1>2. ASSUME NEW q \in Queries
        PROVE  target[q] \in [outstanding: 0..(2 * Cardinality(Reads)), current: BOOLEAN, doc: Commits]
    <2>1. target[q] \in Targets /\ target[q].outstanding <= Cardinality(Asked(q)) + Cardinality(Gone(q))
      BY DEF Types, Bounded
    <2>2. target[q].outstanding \in 0..(2 * Cardinality(Reads))
      BY <1>1, <2>1, CountReads DEF Targets
    <2> QED
      BY <2>1, <2>2 DEF Targets
  <1>3. target \in [Queries -> [outstanding: 0..(2 * Cardinality(Reads)), current: BOOLEAN, doc: Commits]]
    BY <1>2 DEF Types
  <1> QED
    BY <1>3 DEF TypeOK, Types

LEMMA BoundedStep == Types /\ Closed /\ ViewState /\ Bounded /\ [Next]_vars => Bounded'
  <1> SUFFICES ASSUME Types, Closed, ViewState, Bounded, [Next]_vars,
                      NEW q \in Queries
               PROVE  target'[q].outstanding <= Cardinality(Asked(q)') + Cardinality(Gone(q)')
    BY DEF Bounded, Asked, Gone
  <1> USE ReadsAssumption
  <1>a. /\ target[q] \in Targets /\ target[q].outstanding \in Nat
        /\ target[q].outstanding <= Cardinality(Asked(q)) + Cardinality(Gone(q))
    BY DEF Types, Targets, Bounded
  <1>b. ASSUME target'[q].outstanding <= target[q].outstanding, target'[q].outstanding \in Int,
               Asked(q)' = Asked(q), Gone(q)' = Gone(q)
        PROVE  target'[q].outstanding <= Cardinality(Asked(q)') + Cardinality(Gone(q)')
    BY <1>a, <1>b, CountReads
  <1>c. Cardinality(Asked(q)') \in Nat /\ Cardinality(Gone(q)') \in Nat
    <2>1. Asked(q)' \in SUBSET Reads /\ Gone(q)' \in SUBSET Reads
      BY DEF Asked, Gone
    <2> QED
      BY <2>1, FiniteAssumption, FS_Subset, FS_CardinalityType
  <1>d. ASSUME NEW type \in {"watch", "unwatch"}, NEW p \in Queries, NEW from \in Commits,
               SendRequest(type, p, from)
        PROVE  target'[q].outstanding = IF p = q THEN target[q].outstanding + 1 ELSE target[q].outstanding
    <2>1. target[q].outstanding \in Nat
      BY <1>a
    <2>2. \A x \in Queries : /\ target'[x].doc = target[x].doc
                            /\ target'[x].outstanding = target[x].outstanding + IF x = p THEN 1 ELSE 0
      BY <1>d, SendFacts, ZenonT(40)
    <2> QED
      BY <2>1, <2>2
  <1>1. ASSUME NEW r \in Reads, Get(r)
        PROVE  target'[q].outstanding <= Cardinality(Asked(q)') + Cardinality(Gone(q)')
    <2>0. Gets(r)
      BY <1>1, GetReads
    <2>1. Gone(q)' = Gone(q)
      BY <2>0 DEF Gone, Gets
    <2>2. CASE q = QueryOf[r]
      <3>1. Asked(q)' = Asked(q) \cup {r} /\ r \notin Asked(q)
        BY <2>0, <2>2 DEF Asked, Gets
      <3>2. Cardinality(Asked(q)') = Cardinality(Asked(q)) + 1
        BY <3>1, CountReads, FS_AddElement
      <3>3. target'[q].outstanding \in {target[q].outstanding, target[q].outstanding + 1}
        <4>1. CASE view[q] = "none" /\ stream = "Open"
          <5>1. SendRequest("watch", q, token[q]) /\ token[q] \in Commits
            BY <1>1, <2>2, <4>1 DEF Get, Types
          <5> QED
            BY <5>1, <1>d
        <4>2. CASE ~ (view[q] = "none" /\ stream = "Open")
          BY <1>1, <2>2, <4>2 DEF Get
        <4> QED
          BY <4>1, <4>2
      <3> QED
        BY <1>a, <2>1, <3>2, <3>3, CountReads
    <2>3. CASE q # QueryOf[r]
      <3>1. Asked(q)' = Asked(q)
        BY <2>0, <2>3 DEF Asked, Gets
      <3>2. target'[q].outstanding = target[q].outstanding
        <4> DEFINE p == QueryOf[r]
        <4>1. CASE view[p] = "none" /\ stream = "Open"
          <5>1. SendRequest("watch", p, token[p]) /\ token[p] \in Commits /\ p \in Queries
            BY <1>1, <4>1 DEF Get, Types
          <5> QED
            BY <5>1, <1>d, <2>3
        <4>2. CASE ~ (view[p] = "none" /\ stream = "Open")
          BY <1>1, <4>2 DEF Get
        <4> QED
          BY <4>1, <4>2
      <3> QED
        BY <1>a, <1>b, <2>1, <3>1, <3>2
    <2> QED
      BY <2>2, <2>3
  <1>2. ASSUME NEW r \in Reads, RemoveQueryListener(r)
        PROVE  target'[q].outstanding <= Cardinality(Asked(q)') + Cardinality(Gone(q)')
    <2> DEFINE p == QueryOf[r]
    <2>0. 0 \in Commits /\ p \in Queries
      BY BoundsAssumption DEF Commits
    <2>a. Removes(r)
      BY <1>2, RemoveReads
    <2>1. Asked(q)' = Asked(q)
      BY <2>a DEF Asked, Removes
    <2>2. target'[q].outstanding = target[q].outstanding
            \/ (p = q /\ target'[q].outstanding = target[q].outstanding + 1)
      <3>1. CASE Listeners(p) = {r} /\ stream = "Open"
        <4>1. SendRequest("unwatch", p, 0)
          BY <1>2, <3>1 DEF RemoveQueryListener
        <4> QED
          BY <2>0, <4>1, <1>d
      <3>2. CASE ~ (Listeners(p) = {r} /\ stream = "Open")
        BY <1>2, <3>2 DEF RemoveQueryListener
      <3> QED
        BY <3>1, <3>2
    <2>3. CASE q = p
      <3>1. Gone(q)' = Gone(q) \cup {r} /\ r \notin Gone(q)
        BY <2>a, <2>3 DEF Gone, Removes
      <3>2. Cardinality(Gone(q)') = Cardinality(Gone(q)) + 1
        BY <3>1, CountReads, FS_AddElement
      <3> QED
        BY <1>a, <2>1, <2>2, <3>2, CountReads
    <2>4. CASE q # p
      <3>1. Gone(q)' = Gone(q)
        BY <2>a, <2>4 DEF Gone, Removes
      <3> QED
        BY <1>a, <1>b, <2>1, <2>2, <2>4, <3>1
    <2> QED
      BY <2>3, <2>4
  <1>3. CASE OnWatchStreamOpen
    <2>1. Asked(q)' = Asked(q) /\ Gone(q)' = Gone(q)
      BY <1>3 DEF OnWatchStreamOpen, Asked, Gone, reads
    <2>2. CASE view[q] # "none"
      <3>1. target'[q].outstanding = 1
        BY <1>3, <2>2, OpenFacts DEF NoTarget
      <3>2. Asked(q) # {}
        BY <2>2 DEF ViewState, Asked, Listeners
      <3>3. Cardinality(Asked(q)) > 0
        BY <3>2, CountReads, FS_EmptySet
      <3> QED
        BY <2>1, <3>1, <3>3, CountReads
    <2>3. CASE view[q] = "none"
      <3>1. target'[q].outstanding = 0
        BY <1>3, <2>3, OpenFacts DEF NoTarget
      <3> QED
        BY <2>1, <3>1, CountReads
    <2> QED
      BY <2>2, <2>3
  <1>4. CASE OnWatchStreamChange
    <2>1. target'[q].outstanding <= target[q].outstanding /\ Asked(q)' = Asked(q) /\ Gone(q)' = Gone(q)
      BY <1>4, ChangeFacts DEF Asked, Gone
    <2>2. target'[q].outstanding \in Int
      <3>1. target'[q] = TargetAfter(q, Head(responses))
        BY <1>4 DEF OnWatchStreamChange
      <3>2. Head(responses).type \in {"added", "removed", "doc", "current"}
        <4>1. Head(responses) \in Responses
          BY <1>4, ChangeFacts, ReadFacts
        <4> QED
          BY <1>4, <4>1 DEF OnWatchStreamChange, Responses
      <3> QED
        BY <1>a, <3>1, <3>2 DEF TargetAfter, Targets, NoTarget
    <2> QED
      BY <1>b, <2>1, <2>2
  <1>5. CASE RaiseWatchSnapshot
    BY <1>5, <1>a, <1>b, RaiseFacts, SnapshotReads
  <1>6. CASE StreamFails \/ IdleTimeout \/ RestartNetwork
    <2>1. target'[q].outstanding = 0
      BY <1>6 DEF StreamFails, IdleTimeout, RestartNetwork, DropConnection, NoTarget
    <2> QED
      BY <1>c, <2>1
  <1>7. CASE BackoffElapsed \/ (\E p \in Queries : Commit(p)) \/ ServeRequest \/ ServeSnapshot \/ UNCHANGED vars
    <2>1. UNCHANGED <<target, phase>>
      BY <1>7 DEF BackoffElapsed, Commit, ServeRequest, ServeSnapshot, vars, reads
    <2> QED
      BY <2>1, <1>a, <1>b DEF Asked, Gone
  <1>8. CASE OnlineStateTimeout
    <2>1. GoOffline /\ UNCHANGED target
      BY <1>8 DEF OnlineStateTimeout
    <2> QED
      BY <1>a, <1>b, <2>1, OfflineReads
  <1> QED
    BY <1>1, <1>2, <1>3, <1>4, <1>5, <1>6, <1>7, <1>8 DEF Next, ClientStep

------------------------------------------------------------------------------
(* What the steps do to the documents and the wire. *)
LEMMA Numbers ==
  ASSUME Types
  PROVE  /\ \A q \in Queries :
              /\ lastWrite[q] \in Nat /\ cache[q] \in Nat /\ token[q] \in Nat
              /\ target[q].doc \in Nat /\ sent[q] \in Int
         /\ \A i \in DOMAIN requests : requests[i].from \in Nat /\ requests[i].query \in Queries
         /\ \A i \in DOMAIN responses : responses[i].version \in Nat
         /\ \A r \in Reads : floor[r] \in Nat
<1>1. Commits \subseteq Nat
  BY DEF Commits
<1>2. \A q \in Queries : /\ lastWrite[q] \in Nat /\ cache[q] \in Nat /\ token[q] \in Nat
                         /\ target[q].doc \in Nat /\ sent[q] \in Int
  <2> TAKE q \in Queries
  <2>1. target[q].doc \in Commits
    BY DEF Types, Targets
  <2>2. lastWrite[q] \in Commits /\ cache[q] \in Commits /\ token[q] \in Commits
    BY DEF Types
  <2>3. sent[q] \in Commits \cup {Off}
    BY DEF Types
  <2>4. sent[q] \in Int
    BY <2>3, BoundsAssumption DEF Off, Commits
  <2> QED
    BY <1>1, <2>1, <2>2, <2>4
<1>3. \A i \in DOMAIN requests : requests[i].from \in Nat /\ requests[i].query \in Queries
  BY <1>1, Positions DEF Requests
<1>4. \A i \in DOMAIN responses : responses[i].version \in Nat
  BY <1>1, Positions DEF Responses
<1>5. \A r \in Reads : floor[r] \in Nat
  BY <1>1 DEF Types
<1> QED
  BY <1>2, <1>3, <1>4, <1>5

(* What Get does to the documents and the connection. *)
GetSends(r) ==
    LET q == QueryOf[r]
        L == Len(requests) + 1
    IN
    /\ UNCHANGED <<lastWrite, cache, token, responses, sent>>
    /\ stream' = "Open" <=> stream = "Open"
    /\ \A p \in Queries : target'[p].doc = target[p].doc
    /\ \/ /\ view[q] = "none" /\ stream = "Open"
          /\ DOMAIN requests' = 1..L /\ L \in Nat
          /\ \A i \in 1..Len(requests) : requests'[i] = requests[i]
          /\ requests'[L] = [type |-> "watch", query |-> q, from |-> token[q]]
       \/ ~ (view[q] = "none" /\ stream = "Open") /\ requests' = requests

LEMMA GetFacts ==
  ASSUME Types, NEW r \in Reads, Get(r)
  PROVE  GetSends(r)
<1> DEFINE q == QueryOf[r]
<1>1. UNCHANGED <<lastWrite, cache, token, responses, sent>> /\ q \in Queries
  BY ReadsAssumption DEF Get, store, backend
<1>2. stream' = "Open" <=> stream = "Open"
  BY DEF Get, FirstStart, Start, Started
<1>3. CASE view[q] = "none" /\ stream = "Open"
  <2>1. SendRequest("watch", q, token[q]) /\ token[q] \in Commits
    BY <1>1, <1>3 DEF Get, Types
  <2>2. \A p \in Queries : target'[p].doc = target[p].doc
    BY <1>1, <2>1, SendFacts
  <2>3. /\ DOMAIN requests' = 1..(Len(requests) + 1) /\ Len(requests) + 1 \in Nat
        /\ \A i \in 1..Len(requests) : requests'[i] = requests[i]
        /\ requests'[Len(requests) + 1] = [type |-> "watch", query |-> q, from |-> token[q]]
    BY <1>1, <2>1, SendFacts, Positions
  <2> QED
    BY <1>1, <1>2, <1>3, <2>2, <2>3 DEF GetSends
<1>4. CASE ~ (view[q] = "none" /\ stream = "Open")
  <2>1. requests' = requests /\ target' = target
    BY <1>4 DEF Get
  <2> QED
    BY <1>1, <1>2, <1>4, <2>1 DEF GetSends
<1> QED
  BY <1>3, <1>4

(* What RemoveQueryListener does to them. *)
RemoveSends(r) ==
    LET q == QueryOf[r]
        L == Len(requests) + 1
    IN
    /\ UNCHANGED <<lastWrite, cache, token, responses, sent, stream, result, floor>>
    /\ \A p \in Queries : target'[p].doc = target[p].doc
    /\ \/ /\ Listeners(q) = {r} /\ stream = "Open"
          /\ DOMAIN requests' = 1..L /\ L \in Nat
          /\ \A i \in 1..Len(requests) : requests'[i] = requests[i]
          /\ requests'[L] = [type |-> "unwatch", query |-> q, from |-> 0]
       \/ ~ (Listeners(q) = {r} /\ stream = "Open") /\ requests' = requests

LEMMA RemoveFacts ==
  ASSUME Types, NEW r \in Reads, RemoveQueryListener(r)
  PROVE  RemoveSends(r)
<1> DEFINE q == QueryOf[r]
<1>1. /\ UNCHANGED <<lastWrite, cache, token, responses, sent, stream, result, floor>>
      /\ q \in Queries /\ 0 \in Commits
  BY ReadsAssumption, BoundsAssumption DEF RemoveQueryListener, store, backend, Commits
<1>3. CASE Listeners(q) = {r} /\ stream = "Open"
  <2>1. SendRequest("unwatch", q, 0)
    BY <1>1, <1>3 DEF RemoveQueryListener
  <2>2. \A p \in Queries : target'[p].doc = target[p].doc
    BY <1>1, <2>1, SendFacts
  <2>3. /\ DOMAIN requests' = 1..(Len(requests) + 1) /\ Len(requests) + 1 \in Nat
        /\ \A i \in 1..Len(requests) : requests'[i] = requests[i]
        /\ requests'[Len(requests) + 1] = [type |-> "unwatch", query |-> q, from |-> 0]
    BY <1>1, <2>1, SendFacts, Positions
  <2> QED
    BY <1>1, <1>3, <2>2, <2>3 DEF RemoveSends
<1>4. CASE ~ (Listeners(q) = {r} /\ stream = "Open")
  <2>1. requests' = requests /\ target' = target
    BY <1>4 DEF RemoveQueryListener
  <2> QED
    BY <1>1, <1>4, <2>1 DEF RemoveSends
<1> QED
  BY <1>3, <1>4

(* The steps that end the connection. *)
Drops == StreamFails \/ IdleTimeout \/ RestartNetwork

LEMMA DropFacts ==
  ASSUME Types, Drops
  PROVE  /\ UNCHANGED <<lastWrite, cache, token, floor>>
         /\ requests' = <<>> /\ responses' = <<>> /\ stream' # "Open"
         /\ \A q \in Queries : target'[q].doc = 0 /\ sent'[q] = Off
         /\ \A r \in Reads : phase'[r] = "waiting" => phase[r] = "waiting"
         /\ \/ UNCHANGED <<phase, result>>
            \/ GoOffline
<1>1. DropConnection /\ UNCHANGED <<lastWrite, cache, token, floor>>
  BY DEF Drops, StreamFails, IdleTimeout, RestartNetwork, store, reads
<1>2. stream' # "Open"
  BY DEF Drops, StreamFails, IdleTimeout, RestartNetwork, FirstStart, Start
<1>3. UNCHANGED <<phase, result>> \/ GoOffline
  BY DEF Drops, StreamFails, IdleTimeout, RestartNetwork, reads
<1>4. \A r \in Reads : phase'[r] = "waiting" => phase[r] = "waiting"
  BY <1>3, OfflineReads
<1>5. \A q \in Queries : target'[q].doc = 0 /\ sent'[q] = Off
  BY <1>1 DEF DropConnection, NoTarget
<1> QED
  BY <1>1, <1>2, <1>3, <1>4, <1>5 DEF DropConnection

(* The steps that leave the documents and the connection alone. *)
Rests == BackoffElapsed \/ OnlineStateTimeout \/ UNCHANGED vars

LEMMA RestFacts ==
  ASSUME Types, Rests
  PROVE  /\ UNCHANGED <<lastWrite, cache, token, floor, requests, responses, sent, target>>
         /\ stream' = "Open" <=> stream = "Open"
         /\ \A r \in Reads : phase'[r] = "waiting" => phase[r] = "waiting"
         /\ \A q \in Queries : view'[q] = "none" <=> view[q] = "none"
         /\ \/ UNCHANGED <<phase, result>>
            \/ GoOffline
<1>1. /\ UNCHANGED <<lastWrite, cache, token, floor, requests, responses, sent, target>>
      /\ stream' = "Open" <=> stream = "Open"
  BY DEF Rests, BackoffElapsed, OnlineStateTimeout, vars, store, reads, backend, Start
<1>2. UNCHANGED <<view, phase, result>> \/ GoOffline
  BY DEF Rests, BackoffElapsed, OnlineStateTimeout, vars, reads
<1> QED
  BY <1>1, <1>2, OfflineReads

LEMMA Steps ==
  ASSUME [Next]_vars
  PROVE  \/ \E r \in Reads : Get(r)
         \/ \E r \in Reads : RemoveQueryListener(r)
         \/ Drops \/ Rests \/ OnWatchStreamOpen \/ OnWatchStreamChange \/ RaiseWatchSnapshot
         \/ \E q \in Queries : Commit(q)
         \/ ServeRequest \/ ServeSnapshot
  BY DEF Next, ClientStep, Drops, Rests

(* A message that is read moves the others one position forward. *)
LEMMA ShiftFacts ==
  ASSUME Types, OnWatchStreamChange \/ RaiseWatchSnapshot
  PROVE  /\ stream = "Open" /\ stream' = "Open"
         /\ UNCHANGED <<lastWrite, requests, floor, sent>>
         /\ 1 \in DOMAIN responses
         /\ \A i \in DOMAIN responses' :
              /\ i + 1 \in DOMAIN responses /\ responses'[i] = responses[i + 1]
              /\ \A q \in Queries : /\ IsDoc(i, q)' = IsDoc(i + 1, q)
                                    /\ IsAnswer(i, q)' = IsAnswer(i + 1, q)
         /\ \A i \in DOMAIN responses : i > 1 => i - 1 \in DOMAIN responses'
         /\ Len(responses') = Len(responses) - 1
         /\ DOMAIN responses \subseteq Nat \ {0} /\ DOMAIN responses' \subseteq Nat \ {0}
<1>1. /\ stream = "Open" /\ stream' = "Open" /\ UNCHANGED <<lastWrite, requests, floor, sent>>
      /\ responses # <<>> /\ responses' = Tail(responses)
  BY ChangeFacts, RaiseFacts
<1> QED
  BY <1>1, ReadFacts, Positions DEF IsDoc, IsAnswer

LEMMA PastStep == Types /\ Closed /\ PastState /\ [Next]_vars => PastState'
  <1> SUFFICES ASSUME Types, Closed, PastState, [Next]_vars PROVE PastState'
    OBVIOUS
  <1> USE ReadsAssumption
  <1>0. ASSUME NEW q \in Queries PROVE Past(0) /\ Past(Off) /\ Past(lastWrite[q])
    BY <1>0, Numbers DEF Past, Off
  <1>p. ASSUME lastWrite' = lastWrite, NEW v, Past(v) PROVE Past(v)'
    BY <1>p DEF Past
  <1>1. ASSUME NEW r \in Reads, Get(r) PROVE PastState'
    <2> DEFINE p == QueryOf[r]
    <2>0. GetSends(r) /\ Gets(r)
      BY <1>1, GetFacts, GetReads
    <2>1. ASSUME NEW i \in DOMAIN requests' PROVE Past(requests'[i].from)
      <3>1. CASE requests' = requests
        BY <3>1, <2>1 DEF PastState
      <3>2. CASE requests' # requests
        <4>1. /\ DOMAIN requests' = 1..(Len(requests) + 1)
              /\ \A j \in 1..Len(requests) : requests'[j] = requests[j]
              /\ requests'[Len(requests) + 1].from = token[p] /\ p \in Queries
          BY <2>0, <3>2 DEF GetSends, Gets
        <4> QED
          BY <2>1, <4>1, Positions DEF PastState
      <3> QED
        BY <3>1, <3>2
    <2>2. ASSUME NEW s \in Reads, phase'[s] = "waiting"
          PROVE  floor'[s] <= lastWrite[QueryOf[s]]
      <3>1. CASE s = r
        BY <2>0, <3>1, Numbers DEF Gets
      <3>2. CASE s # r
        BY <2>0, <2>2, <3>2 DEF Gets, PastState
      <3> QED
        BY <3>1, <3>2
    <2>3. /\ UNCHANGED <<lastWrite, cache, token, responses, sent>>
          /\ \A q \in Queries : target'[q].doc = target[q].doc
      BY <2>0 DEF GetSends
    <2> QED
      BY <2>1, <2>2, <2>3 DEF PastState, Past, IsDoc
  <1>2. ASSUME NEW r \in Reads, RemoveQueryListener(r) PROVE PastState'
    <2>0. RemoveSends(r) /\ Removes(r)
      BY <1>2, RemoveFacts, RemoveReads
    <2>1. ASSUME NEW i \in DOMAIN requests' PROVE Past(requests'[i].from)
      <3>1. CASE requests' = requests
        BY <3>1, <2>1 DEF PastState
      <3>2. CASE requests' # requests
        <4>1. /\ DOMAIN requests' = 1..(Len(requests) + 1)
              /\ \A j \in 1..Len(requests) : requests'[j] = requests[j]
              /\ requests'[Len(requests) + 1].from = 0
          BY <2>0, <3>2 DEF RemoveSends
        <4>2. Past(0)
          BY <1>0, <2>0 DEF Removes
        <4> QED
          BY <2>1, <4>1, <4>2, Positions DEF PastState
      <3> QED
        BY <3>1, <3>2
    <2>2. \A s \in Reads : phase'[s] = "waiting" => phase[s] = "waiting"
      BY <2>0 DEF Removes
    <2>3. /\ UNCHANGED <<lastWrite, cache, token, responses, sent, floor>>
          /\ \A q \in Queries : target'[q].doc = target[q].doc
      BY <2>0 DEF RemoveSends
    <2> QED
      BY <2>1, <2>2, <2>3 DEF PastState, Past, IsDoc
  <1>q. ASSUME lastWrite' = lastWrite,
               \A q \in Queries : cache'[q] <= lastWrite[q] /\ target'[q].doc <= lastWrite[q],
               \A q \in Queries : Past(token'[q]) /\ Past(sent'[q]),
               \A i \in DOMAIN requests' : Past(requests'[i].from),
               \A i \in DOMAIN responses' : Past(responses'[i].version),
               \A i \in DOMAIN responses', q \in Queries :
                   IsDoc(i, q)' => responses'[i].version <= lastWrite[q],
               \A r \in Reads : phase'[r] = "waiting" => floor'[r] <= lastWrite[QueryOf[r]]
        PROVE  PastState'
    BY <1>q DEF PastState, Past, IsDoc
  <1>3. CASE Drops
    <2>1. /\ UNCHANGED <<lastWrite, cache, token, floor>>
          /\ requests' = <<>> /\ responses' = <<>>
          /\ \A q \in Queries : target'[q].doc = 0 /\ sent'[q] = Off
          /\ \A r \in Reads : phase'[r] = "waiting" => phase[r] = "waiting"
      BY <1>3, DropFacts
    <2>2. \A q \in Queries : cache'[q] <= lastWrite[q] /\ target'[q].doc <= lastWrite[q]
      BY <2>1, Numbers DEF PastState
    <2>3. \A q \in Queries : Past(token'[q]) /\ Past(sent'[q])
      BY <1>0, <2>1 DEF PastState
    <2>4. \A r \in Reads : phase'[r] = "waiting" => floor'[r] <= lastWrite[QueryOf[r]]
      BY <2>1 DEF PastState
    <2> QED
      BY <1>q, <2>1, <2>2, <2>3, <2>4
  <1>4. CASE Rests
    <2>1. /\ UNCHANGED <<lastWrite, cache, token, floor, requests, responses, sent, target>>
          /\ \A r \in Reads : phase'[r] = "waiting" => phase[r] = "waiting"
      BY <1>4, RestFacts
    <2> QED
      BY <2>1 DEF PastState, Past, IsDoc
  <1>5. CASE OnWatchStreamOpen
    <2>1. UNCHANGED <<lastWrite, cache, token, phase, floor, sent>>
      BY <1>5 DEF OnWatchStreamOpen, store, reads, backend
    <2>2. /\ responses' = <<>>
          /\ \A i \in DOMAIN requests' : requests'[i].query \in Queries
                /\ requests'[i].from = token[requests'[i].query]
          /\ target' = [q \in Queries |-> IF view[q] # "none"
                        THEN [NoTarget EXCEPT !.outstanding = 1] ELSE NoTarget]
      BY <1>5, OpenFacts
    <2>3. \A q \in Queries : target'[q].doc = 0
      BY <2>2 DEF NoTarget
    <2>4. \A q \in Queries : cache'[q] <= lastWrite[q] /\ target'[q].doc <= lastWrite[q]
      BY <2>1, <2>3, Numbers DEF PastState
    <2>5. \A i \in DOMAIN requests' : Past(requests'[i].from)
      BY <2>2 DEF PastState
    <2>6. /\ \A q \in Queries : Past(token'[q]) /\ Past(sent'[q])
          /\ \A r \in Reads : phase'[r] = "waiting" => floor'[r] <= lastWrite[QueryOf[r]]
      BY <2>1 DEF PastState
    <2> QED
      BY <1>q, <2>1, <2>2, <2>4, <2>5, <2>6
  <1>6. CASE OnWatchStreamChange
    <2>1. /\ UNCHANGED <<lastWrite, requests, cache, token, phase, floor, sent>>
          /\ \A q \in Queries : target'[q].doc = target[q].doc
                \/ (IsDoc(1, q) /\ target'[q].doc = responses[1].version)
      BY <1>6, ChangeFacts
    <2>2. /\ 1 \in DOMAIN responses
          /\ \A i \in DOMAIN responses' :
              /\ i + 1 \in DOMAIN responses /\ responses'[i] = responses[i + 1]
              /\ \A q \in Queries : IsDoc(i, q)' = IsDoc(i + 1, q)
      BY <1>6, ShiftFacts
    <2>3. \A q \in Queries : cache'[q] <= lastWrite[q] /\ target'[q].doc <= lastWrite[q]
      BY <2>1, <2>2 DEF PastState
    <2>4. /\ \A i \in DOMAIN responses' : Past(responses'[i].version)
          /\ \A i \in DOMAIN responses', q \in Queries :
                IsDoc(i, q)' => responses'[i].version <= lastWrite[q]
      BY <2>2 DEF PastState
    <2>5. /\ \A q \in Queries : Past(token'[q]) /\ Past(sent'[q])
          /\ \A i \in DOMAIN requests' : Past(requests'[i].from)
          /\ \A r \in Reads : phase'[r] = "waiting" => floor'[r] <= lastWrite[QueryOf[r]]
      BY <2>1 DEF PastState
    <2> QED
      BY <1>q, <2>1, <2>3, <2>4, <2>5
  <1>7. CASE RaiseWatchSnapshot
    <2>1. /\ UNCHANGED <<lastWrite, requests, floor, sent>>
          /\ \A q \in Queries :
              /\ cache'[q] \in {cache[q], target[q].doc} /\ target'[q].doc = 0
              /\ token'[q] \in {responses[1].version, token[q]}
      BY <1>7, RaiseFacts
    <2>2. /\ 1 \in DOMAIN responses
          /\ \A i \in DOMAIN responses' :
              /\ i + 1 \in DOMAIN responses /\ responses'[i] = responses[i + 1]
              /\ \A q \in Queries : IsDoc(i, q)' = IsDoc(i + 1, q)
      BY <1>7, ShiftFacts
    <2>3. \A q \in Queries : cache'[q] <= lastWrite[q] /\ target'[q].doc <= lastWrite[q]
      BY <2>1, Numbers DEF PastState
    <2>4. /\ \A i \in DOMAIN responses' : Past(responses'[i].version)
          /\ \A i \in DOMAIN responses', q \in Queries :
                IsDoc(i, q)' => responses'[i].version <= lastWrite[q]
      BY <2>2 DEF PastState
    <2>5. \A q \in Queries : Past(token'[q]) /\ Past(sent'[q])
      BY <2>1, <2>2 DEF PastState
    <2>6. \A r \in Reads : phase'[r] = "waiting" => phase[r] = "waiting"
      BY <1>7, SnapshotReads
    <2>7. /\ \A i \in DOMAIN requests' : Past(requests'[i].from)
          /\ \A r \in Reads : phase'[r] = "waiting" => floor'[r] <= lastWrite[QueryOf[r]]
      BY <2>1, <2>6 DEF PastState
    <2> QED
      BY <1>q, <2>1, <2>3, <2>4, <2>5, <2>7
  <1>8. ASSUME NEW q \in Queries, Commit(q) PROVE PastState'
    <2>1. \A p \in Queries : lastWrite'[p] \in Nat /\ lastWrite'[p] >= lastWrite[p]
      BY <1>8, CommitFacts
    <2>2. UNCHANGED <<cache, token, phase, floor, target, requests, responses, sent>>
      BY <1>8, CommitFacts
    <2>3. ASSUME NEW v \in Int, Past(v) PROVE Past(v)'
      BY <2>1, <2>3, Numbers DEF Past
    <2>4. \A p \in Queries : cache[p] <= lastWrite'[p] /\ target[p].doc <= lastWrite'[p]
      BY <2>1, Numbers DEF PastState
    <2>5. \A p \in Queries : Past(token[p])' /\ Past(sent[p])'
      BY <2>2, <2>3, Numbers DEF PastState
    <2>6. \A i \in DOMAIN requests : Past(requests[i].from)'
      BY <2>2, <2>3, Numbers DEF PastState
    <2>7. \A i \in DOMAIN responses : Past(responses[i].version)'
      BY <2>2, <2>3, Numbers DEF PastState
    <2>8. \A i \in DOMAIN responses, p \in Queries : IsDoc(i, p) => responses[i].version <= lastWrite'[p]
      BY <2>1, Numbers DEF PastState
    <2>9. \A s \in Reads : phase[s] = "waiting" => floor[s] <= lastWrite'[QueryOf[s]]
      BY <2>1, Numbers DEF PastState
    <2> QED
      BY <2>2, <2>4, <2>5, <2>6, <2>7, <2>8, <2>9 DEF PastState, IsDoc
  <1>9. CASE ServeRequest
    <2>1. UNCHANGED <<lastWrite, cache, token, phase, floor, target>>
      BY <1>9 DEF ServeRequest, store, reads
    <2>2. \A i \in DOMAIN requests' : Past(requests'[i].from)
      BY <1>9, ServeFacts, Positions DEF PastState
    <2>3. Past(requests[1].from) /\ requests[1].query \in Queries
      BY <1>9, ServeFacts, Positions, Numbers, SMTT(30) DEF PastState
    <2>4. \A q \in Queries : Past(sent'[q])
      BY <1>9, <1>0, <2>3, ServeFacts DEF PastState, Types
    <2>5. /\ responses'[Len(responses) + 1].version = 0
          /\ responses'[Len(responses) + 1].type # "doc"
      BY <1>9, ServeFacts DEF Message
    <2>6. \A i \in DOMAIN responses' : Past(responses'[i].version)
      BY <1>9, <1>0, <2>3, <2>5, ServeFacts, Positions DEF PastState
    <2>7. /\ DOMAIN responses' = 1..(Len(responses) + 1)
          /\ \A i \in 1..Len(responses) : responses'[i] = responses[i]
      BY <1>9, ServeFacts
    <2>8. ASSUME NEW i \in DOMAIN responses', NEW q \in Queries, IsDoc(i, q)'
          PROVE  responses'[i].version <= lastWrite[q]
      <3>1. i # Len(responses) + 1
        BY <2>5, <2>8 DEF IsDoc
      <3>2. i \in DOMAIN responses /\ responses'[i] = responses[i]
        BY <2>7, <3>1, Positions
      <3> QED
        BY <2>8, <3>2 DEF PastState, IsDoc
    <2> QED
      BY <1>q, <2>1, <2>2, <2>4, <2>6, <2>8 DEF PastState
  <1>10. CASE ServeSnapshot
    <2>1. UNCHANGED <<lastWrite, cache, token, phase, floor, target, requests>>
      BY <1>10 DEF ServeSnapshot, store, reads
    <2>2. PICK now \in Commits :
            LET L == Len(responses)
                M == Len(responses')
            IN
            /\ Past(now) /\ M \in Nat /\ M > L /\ DOMAIN responses' = 1..M
            /\ \A i \in 1..L : responses'[i] = responses[i]
            /\ \A i \in (L + 1)..M :
              /\ responses'[i].type \in {"doc", "current", "snapshot"}
              /\ responses'[i].type = "doc" =>
                   \E q \in Queries : responses'[i].queries = {q} /\ responses'[i].version = lastWrite[q]
              /\ responses'[i].type = "current" => responses'[i].version = 0
              /\ responses'[i].type = "snapshot" => i = M /\ responses'[i].version = now
            /\ sent' = [q \in Queries |-> IF sent[q] # Off THEN now ELSE Off]
      BY <1>10, SnapshotFacts
    <2>3. \A q \in Queries : Past(sent'[q])
      BY <1>0, <2>2
    <2>4. Past(0)
      <3>1. PICK q \in Queries : now <= lastWrite[q]
        BY <2>2 DEF Past
      <3> QED
        BY <1>0, <3>1
    <2>5. ASSUME NEW i \in DOMAIN responses'
          PROVE  /\ Past(responses'[i].version)
                 /\ \A q \in Queries : IsDoc(i, q)' => responses'[i].version <= lastWrite[q]
      <3>1. CASE i \in 1..Len(responses)
        BY <2>2, <3>1, Positions DEF PastState, IsDoc
      <3>2. CASE i \notin 1..Len(responses)
        <4>1. i \in (Len(responses) + 1)..Len(responses')
          <5>1. DOMAIN responses' = 1..Len(responses') /\ Len(responses') \in Nat
            BY <2>2, Zenon
          <5> QED
            BY <3>2, <5>1, Positions
        <4>2. CASE responses'[i].type = "doc"
          <5>1. PICK q \in Queries : responses'[i].queries = {q} /\ responses'[i].version = lastWrite[q]
            BY <2>2, <4>1, <4>2
          <5> QED
            BY <1>0, <5>1, Numbers DEF IsDoc
        <4>3. CASE responses'[i].type # "doc"
          BY <2>2, <2>4, <4>1, <4>3 DEF IsDoc
        <4> QED
          BY <4>2, <4>3
      <3> QED
        BY <3>1, <3>2
    <2> QED
      BY <2>1, <2>3, <2>5 DEF PastState, Past
  <1> QED
    BY <1>1, <1>2, <1>3, <1>4, <1>5, <1>6, <1>7, <1>8, <1>9, <1>10, Steps

LEMMA DocsOrderedStep == Types /\ Closed /\ PastState /\ DocsOrdered /\ [Next]_vars => DocsOrdered'
  <1> SUFFICES ASSUME Types, Closed, PastState, DocsOrdered, [Next]_vars PROVE DocsOrdered'
    OBVIOUS
  <1>1. ASSUME UNCHANGED responses, \A q \in Queries : target'[q].doc = target[q].doc
        PROVE  DocsOrdered'
    BY <1>1 DEF DocsOrdered, IsDoc
  <1>2. ASSUME NEW r \in Reads, Get(r) PROVE DocsOrdered'
    <2>1. GetSends(r)
      BY <1>2, GetFacts
    <2> QED
      BY <1>1, <2>1 DEF GetSends
  <1>3. ASSUME NEW r \in Reads, RemoveQueryListener(r) PROVE DocsOrdered'
    <2>1. RemoveSends(r)
      BY <1>3, RemoveFacts
    <2> QED
      BY <1>1, <2>1 DEF RemoveSends
  <1>4. ASSUME responses' = <<>> PROVE DocsOrdered'
    BY <1>4 DEF DocsOrdered
  <1>5. CASE OnWatchStreamChange
    <2> SUFFICES ASSUME NEW q \in Queries, NEW j \in DOMAIN responses', IsDoc(j, q)'
                 PROVE  /\ target'[q].doc <= responses'[j].version
                        /\ \A i \in DOMAIN responses' : i < j /\ IsDoc(i, q)' =>
                              responses'[i].version <= responses'[j].version
      BY DEF DocsOrdered
    <2>1. j + 1 \in DOMAIN responses /\ IsDoc(j + 1, q) /\ responses'[j] = responses[j + 1]
      BY <1>5, ShiftFacts
    <2>2. target'[q].doc <= responses[j + 1].version
      <3>1. target[q].doc <= responses[j + 1].version
        BY <2>1 DEF DocsOrdered
      <3>2. 1 < j + 1 /\ 1 \in DOMAIN responses
        BY <1>5, ShiftFacts, Positions
      <3>3. IsDoc(1, q) => responses[1].version <= responses[j + 1].version
        BY <2>1, <3>2 DEF DocsOrdered
      <3> QED
        BY <1>5, <3>1, <3>3, ChangeFacts
    <2>3. ASSUME NEW i \in DOMAIN responses', i < j, IsDoc(i, q)'
          PROVE  responses'[i].version <= responses'[j].version
      <3>1. i + 1 \in DOMAIN responses /\ IsDoc(i + 1, q) /\ responses'[i] = responses[i + 1] /\ i + 1 < j + 1
        BY <1>5, <2>3, ShiftFacts
      <3> QED
        BY <2>1, <3>1 DEF DocsOrdered
    <2> QED
      BY <2>1, <2>2, <2>3
  <1>6. CASE RaiseWatchSnapshot
    <2> SUFFICES ASSUME NEW q \in Queries, NEW j \in DOMAIN responses', IsDoc(j, q)'
                 PROVE  /\ target'[q].doc <= responses'[j].version
                        /\ \A i \in DOMAIN responses' : i < j /\ IsDoc(i, q)' =>
                              responses'[i].version <= responses'[j].version
      BY DEF DocsOrdered
    <2>1. j + 1 \in DOMAIN responses /\ IsDoc(j + 1, q) /\ responses'[j] = responses[j + 1]
      BY <1>6, ShiftFacts
    <2>2. target'[q].doc <= responses[j + 1].version
      BY <1>6, <2>1, RaiseFacts, Numbers
    <2>3. ASSUME NEW i \in DOMAIN responses', i < j, IsDoc(i, q)'
          PROVE  responses'[i].version <= responses'[j].version
      <3>1. i + 1 \in DOMAIN responses /\ IsDoc(i + 1, q) /\ responses'[i] = responses[i + 1] /\ i + 1 < j + 1
        BY <1>6, <2>3, ShiftFacts
      <3> QED
        BY <2>1, <3>1 DEF DocsOrdered
    <2> QED
      BY <2>1, <2>2, <2>3
  <1>7. CASE ServeRequest
    <2>1. /\ UNCHANGED target /\ responses'[Len(responses) + 1].type # "doc"
          /\ \A i \in DOMAIN responses' : i = Len(responses) + 1 \/
                (i \in DOMAIN responses /\ responses'[i] = responses[i])
      BY <1>7, ServeFacts, Positions DEF ServeRequest, Message
    <2> QED
      BY <2>1 DEF DocsOrdered, IsDoc
  <1>8. CASE ServeSnapshot
    <2>1. UNCHANGED <<lastWrite, target>>
      BY <1>8 DEF ServeSnapshot
    <2>2. /\ \A i \in 1..Len(responses) : responses'[i] = responses[i]
          /\ DOMAIN responses' \subseteq Nat
          /\ \A i \in DOMAIN responses' : i >= 1
          /\ \A i \in DOMAIN responses', q \in Queries : i > Len(responses) /\ IsDoc(i, q)' =>
                responses'[i].version = lastWrite[q]
      <3>1. /\ DOMAIN responses' = 1..Len(responses') /\ Len(responses') \in Nat
            /\ \A i \in 1..Len(responses) : responses'[i] = responses[i]
        BY <1>8, SnapshotFacts, Zenon
      <3>2. \A i \in (Len(responses) + 1)..Len(responses') : responses'[i].type = "doc" =>
               \E q \in Queries : responses'[i].queries = {q} /\ responses'[i].version = lastWrite[q]
        BY <1>8, SnapshotFacts, Zenon
      <3>3. Len(responses) \in Nat
        BY Positions
      <3>4. ASSUME NEW i \in DOMAIN responses', NEW q \in Queries, i > Len(responses), IsDoc(i, q)'
            PROVE  responses'[i].version = lastWrite[q]
        <4>1. i \in (Len(responses) + 1)..Len(responses')
          BY <3>1, <3>3, <3>4
        <4> QED
          BY <3>2, <3>4, <4>1 DEF IsDoc
      <3> QED
        BY <3>1, <3>4
    <2> SUFFICES ASSUME NEW q \in Queries, NEW j \in DOMAIN responses', IsDoc(j, q)'
                 PROVE  /\ target'[q].doc <= responses'[j].version
                        /\ \A i \in DOMAIN responses' : i < j /\ IsDoc(i, q)' =>
                              responses'[i].version <= responses'[j].version
      BY DEF DocsOrdered
    <2>3. CASE j <= Len(responses)
      <3>1. \A i \in DOMAIN responses' : i <= j => i \in DOMAIN responses /\ responses'[i] = responses[i]
        BY <2>2, <2>3, Positions
      <3> QED
        BY <2>1, <2>2, <2>3, <3>1 DEF DocsOrdered, IsDoc
    <2>4. CASE j > Len(responses)
      <3>1. responses'[j].version = lastWrite[q]
        BY <2>2, <2>4
      <3>2. target[q].doc <= lastWrite[q]
        BY DEF PastState
      <3>3. ASSUME NEW i \in DOMAIN responses', i < j, IsDoc(i, q)'
            PROVE  responses'[i].version <= lastWrite[q]
        <4>1. CASE i <= Len(responses)
          <5>1. i \in DOMAIN responses /\ responses'[i] = responses[i]
            BY <2>2, <4>1, Positions
          <5> QED
            BY <3>3, <5>1 DEF PastState, IsDoc
        <4>2. CASE i > Len(responses)
          BY <2>2, <3>3, <4>2, Numbers
        <4> QED
          BY <2>2, <4>1, <4>2, Positions
      <3> QED
        BY <2>1, <3>1, <3>2, <3>3
    <2> QED
      BY <2>2, <2>3, <2>4, Positions
  <1>9. CASE Drops \/ OnWatchStreamOpen
    BY <1>4, <1>9, DropFacts, OpenFacts
  <1>10. CASE Rests \/ \E q \in Queries : Commit(q)
    BY <1>1, <1>10, RestFacts, CommitFacts
  <1> QED
    BY <1>2, <1>3, <1>5, <1>6, <1>7, <1>8, <1>9, <1>10, Steps

------------------------------------------------------------------------------
(* Documents that are to arrive stay so. *)
LEMMA ArrivesLater ==
  ASSUME Types, NEW q \in Queries, NEW v \in Nat, NEW w \in Nat, v <= w,
         NEW i \in Nat, NEW k \in Nat, i <= k, Arrives(q, w, i)
  PROVE  Arrives(q, v, k)
<1>1. /\ cache[q] \in Nat /\ target[q].doc \in Nat
      /\ \A j \in DOMAIN responses : j \in Nat /\ responses[j].version \in Nat
  BY Numbers, Positions
<1>2. CASE cache[q] >= w \/ target[q].doc >= w
  BY <1>1, <1>2 DEF Arrives
<1>3. CASE \E j \in DOMAIN responses :
             j < i /\ IsDoc(j, q) /\ responses[j].version >= w /\ Settled(q, j)
  <2>1. PICK j \in DOMAIN responses :
             j < i /\ IsDoc(j, q) /\ responses[j].version >= w /\ Settled(q, j)
    BY <1>3
  <2>2. j < k /\ responses[j].version >= v
    BY <1>1, <2>1
  <2> QED
    BY <2>1, <2>2 DEF Arrives
<1> QED
  BY <1>2, <1>3 DEF Arrives

(* They do so if a step keeps the documents and what is pending. *)
LEMMA ArrivesSame ==
  ASSUME UNCHANGED <<cache, responses>>, NEW q \in Queries, NEW v, NEW i,
         target'[q].doc = target[q].doc, Wired(q)' = Wired(q)
  PROVE  Arrives(q, v, i)' = Arrives(q, v, i) /\ Settled(q, i)' = Settled(q, i)
<1>1. \A k : IsDoc(k, q)' = IsDoc(k, q) /\ IsAnswer(k, q)' = IsAnswer(k, q)
  BY DEF IsDoc, IsAnswer
<1>2. \A k : Settled(q, k)' = Settled(q, k)
  BY <1>1 DEF Settled
<1> QED
  BY <1>1, <1>2 DEF Arrives

(* A message that is read. *)
LEMMA ArrivesShift ==
  ASSUME Types, Exact, DocsOrdered, OnWatchStreamChange \/ RaiseWatchSnapshot,
         NEW q \in Queries, view[q] # "none", NEW v \in Nat, NEW i \in Nat, i > 1,
         Arrives(q, v, i)
  PROVE  Arrives(q, v, i - 1)'
<1>1. /\ cache[q] \in Nat /\ target[q].doc \in Nat
      /\ \A j \in DOMAIN responses : j \in Nat /\ j >= 1 /\ responses[j].version \in Nat
  BY Numbers, Positions
<1>2. 1 \in DOMAIN responses
  BY ShiftFacts
<1>3. /\ cache'[q] >= cache[q] /\ cache'[q] \in Nat /\ target'[q].doc \in Nat
      /\ cache'[q] >= target[q].doc \/ target'[q].doc >= target[q].doc
  <2>1. CASE OnWatchStreamChange
    <3>1. IsDoc(1, q) => responses[1].version >= target[q].doc
      BY <1>1, <1>2 DEF DocsOrdered
    <3> QED
      BY <1>1, <1>2, <2>1, <3>1, ChangeFacts
  <2>2. CASE RaiseWatchSnapshot
    BY <1>1, <2>2, RaiseFacts
  <2> QED
    BY <2>1, <2>2
<1>4. CASE cache[q] >= v \/ target[q].doc >= v
  BY <1>1, <1>3, <1>4 DEF Arrives
<1>5. CASE \E j \in DOMAIN responses :
             j < i /\ IsDoc(j, q) /\ responses[j].version >= v /\ Settled(q, j)
  <2>1. PICK j \in DOMAIN responses :
             j < i /\ IsDoc(j, q) /\ responses[j].version >= v /\ Settled(q, j)
    BY <1>5
  <2>2. CASE j = 1
    <3>1. OnWatchStreamChange
      BY <2>1, <2>2, RaiseFacts DEF IsDoc
    <3>2. \A k \in DOMAIN responses : ~IsAnswer(k, q)
      BY <1>1, <2>1, <2>2 DEF Settled
    <3>3. IsActiveTarget(q)
      BY <2>1, <3>2, NothingPending DEF IsActiveTarget, Settled
    <3> QED
      BY <2>1, <2>2, <3>1, <3>3, ChangeFacts DEF Arrives
  <2>3. CASE j # 1
    <3>1. j - 1 \in DOMAIN responses' /\ (j - 1) + 1 = j /\ j - 1 < i - 1
      BY <1>1, <2>1, <2>3, ShiftFacts
    <3>2. IsDoc(j - 1, q)' /\ responses'[j - 1].version >= v
      BY <2>1, <3>1, ShiftFacts
    <3>3. ~Wired(q)'
      BY <2>1, ShiftFacts DEF Wired, Settled
    <3>4. \A k \in DOMAIN responses' : k >= j - 1 => ~IsAnswer(k, q)'
      <4> SUFFICES ASSUME NEW k \in DOMAIN responses', k >= j - 1 PROVE ~IsAnswer(k, q)'
        OBVIOUS
      <4>1. k + 1 \in DOMAIN responses /\ IsAnswer(k, q)' = IsAnswer(k + 1, q) /\ k \in Nat
        BY ShiftFacts
      <4>2. k + 1 >= j
        BY <1>1, <4>1
      <4> QED
        BY <2>1, <4>1, <4>2 DEF Settled
    <3> QED
      BY <3>1, <3>2, <3>3, <3>4 DEF Arrives, Settled
  <2> QED
    BY <2>2, <2>3
<1> QED
  BY <1>4, <1>5 DEF Arrives

LEMMA SettledShift ==
  ASSUME Types, OnWatchStreamChange \/ RaiseWatchSnapshot, NEW q \in Queries,
         NEW i \in DOMAIN responses', Settled(q, i)'
  PROVE  Settled(q, i + 1)
<1>1. ~Wired(q)
  BY ShiftFacts DEF Settled, Wired
<1>2. ASSUME NEW j \in DOMAIN responses, j >= i + 1 PROVE ~IsAnswer(j, q)
  <2>1. /\ i \in Nat /\ i >= 1 /\ j \in Nat
    BY ShiftFacts
  <2>2. j > 1 /\ (j - 1) + 1 = j /\ j - 1 >= i
    BY <1>2, <2>1
  <2>3. j - 1 \in DOMAIN responses' /\ IsAnswer(j - 1, q)' = IsAnswer(j, q)
    BY <2>2, ShiftFacts
  <2> QED
    BY <2>2, <2>3 DEF Settled
<1> QED
  BY <1>1, <1>2 DEF Settled

(* A request that is answered. *)
LEMMA ServeWired ==
  ASSUME Types, ServeRequest, NEW q \in Queries
  PROVE  /\ Wired(q)' => Wired(q)
         /\ q # requests[1].query => (Wired(q)' <=> Wired(q))
         /\ UNCHANGED <<lastWrite, cache, token, view, phase, floor, target, stream>>
         /\ DOMAIN responses \subseteq DOMAIN responses'
         /\ \A i \in DOMAIN responses' :
              \/ i = Len(responses) + 1 /\ responses'[i].type \in {"added", "removed"}
                    /\ responses'[i].queries = {requests[1].query}
              \/ i \in DOMAIN responses /\ responses'[i] = responses[i]
<1>1. /\ DOMAIN requests' = 1..(Len(requests) - 1) /\ Len(requests) > 0
      /\ Len(requests) \in Nat /\ DOMAIN requests = 1..Len(requests)
      /\ \A i \in 1..(Len(requests) - 1) : requests'[i] = requests[i + 1]
  BY ServeFacts, Positions
<1>2. Wired(q)' => Wired(q)
  BY <1>1 DEF Wired
<1>3. ASSUME q # requests[1].query, Wired(q) PROVE Wired(q)'
  <2>1. PICK i \in DOMAIN requests : requests[i].query = q
    BY <1>3 DEF Wired
  <2>2. i - 1 \in DOMAIN requests' /\ requests'[i - 1] = requests[(i - 1) + 1] /\ (i - 1) + 1 = i
    BY <1>1, <1>3, <2>1
  <2> QED
    BY <2>1, <2>2 DEF Wired
<1>4. UNCHANGED <<lastWrite, cache, token, view, phase, floor, target, stream>>
  BY DEF ServeRequest, store, reads
<1>5. /\ DOMAIN responses \subseteq DOMAIN responses'
      /\ \A i \in DOMAIN responses' :
              \/ i = Len(responses) + 1 /\ responses'[i].type \in {"added", "removed"}
                    /\ responses'[i].queries = {requests[1].query}
              \/ i \in DOMAIN responses /\ responses'[i] = responses[i]
  BY ServeFacts, Positions DEF Message
<1> QED
  BY <1>2, <1>3, <1>4, <1>5

LEMMA ServeArrives ==
  ASSUME Types, ServeRequest, NEW q \in Queries, q # requests[1].query,
         NEW v, NEW i, Arrives(q, v, i)
  PROVE  Arrives(q, v, i)'
<1>1. CASE cache[q] >= v \/ target[q].doc >= v
  BY <1>1, ServeWired DEF Arrives
<1>2. CASE \E j \in DOMAIN responses :
             j < i /\ IsDoc(j, q) /\ responses[j].version >= v /\ Settled(q, j)
  <2>1. PICK j \in DOMAIN responses :
             j < i /\ IsDoc(j, q) /\ responses[j].version >= v /\ Settled(q, j)
    BY <1>2
  <2>2. j \in DOMAIN responses' /\ responses'[j] = responses[j] /\ IsDoc(j, q)'
    BY <2>1, ServeFacts, Positions DEF IsDoc
  <2>3. \A k \in DOMAIN responses' : k >= j => ~IsAnswer(k, q)'
    BY <2>1, ServeWired DEF IsAnswer, Settled
  <2>4. ~Wired(q)'
    BY <2>1, ServeWired DEF Settled
  <2> QED
    BY <2>1, <2>2, <2>3, <2>4 DEF Arrives, Settled
<1> QED
  BY <1>1, <1>2 DEF Arrives

LEMMA ServeSettled ==
  ASSUME Types, ServeRequest, NEW q \in Queries, NEW i \in DOMAIN responses, Settled(q, i)'
  PROVE  q # requests[1].query /\ Settled(q, i)
<1>1. /\ Len(responses) + 1 \in DOMAIN responses' /\ Len(responses) + 1 >= i
      /\ responses'[Len(responses) + 1].type \in {"added", "removed"}
      /\ responses'[Len(responses) + 1].queries = {requests[1].query}
  BY ServeFacts, Positions DEF Message
<1>2. q # requests[1].query
  BY <1>1 DEF Settled, IsAnswer
<1>3. ~Wired(q)
  BY <1>2, ServeWired DEF Settled
<1>4. ASSUME NEW j \in DOMAIN responses, j >= i PROVE ~IsAnswer(j, q)
  <2>1. j \in DOMAIN responses' /\ responses'[j] = responses[j]
    BY ServeFacts, Positions
  <2> QED
    BY <1>4, <2>1 DEF Settled, IsAnswer
<1> QED
  BY <1>2, <1>3, <1>4 DEF Settled

(* The snapshot that the backend sends. *)
LEMMA SnapshotSame ==
  ASSUME Types, ServeSnapshot, NEW q \in Queries
  PROVE  /\ UNCHANGED <<lastWrite, cache, token, view, phase, floor, target, stream, requests>>
         /\ DOMAIN responses \subseteq DOMAIN responses'
         /\ \A i \in DOMAIN responses : responses'[i] = responses[i]
         /\ \A i \in DOMAIN responses' : i > Len(responses) => ~IsAnswer(i, q)'
         /\ \A i \in DOMAIN responses' :
              i \notin DOMAIN responses => i > Len(responses) /\ i \in Nat
         /\ Len(responses') \in Nat /\ Len(responses') > Len(responses)
         /\ DOMAIN responses' = 1..Len(responses')
<1>1. UNCHANGED <<lastWrite, cache, token, view, phase, floor, target, stream, requests>>
  BY DEF ServeSnapshot, store, reads
<1>2. \A i \in DOMAIN responses' : i > Len(responses) => ~IsAnswer(i, q)'
  <2>1. \A i \in (Len(responses) + 1)..Len(responses') :
            responses'[i].type \in {"doc", "current", "snapshot"}
    BY SnapshotFacts
  <2>2. DOMAIN responses' = 1..Len(responses') /\ Len(responses') \in Nat
    BY SnapshotFacts
  <2> QED
    BY <2>1, <2>2, Positions DEF IsAnswer
<1>3. /\ DOMAIN responses \subseteq DOMAIN responses'
      /\ \A i \in DOMAIN responses : responses'[i] = responses[i]
      /\ \A i \in DOMAIN responses' : i \notin DOMAIN responses => i > Len(responses) /\ i \in Nat
      /\ Len(responses') \in Nat /\ Len(responses') > Len(responses)
      /\ DOMAIN responses' = 1..Len(responses')
  BY SnapshotFacts, Positions
<1> QED
  BY <1>1, <1>2, <1>3

LEMMA SnapshotSettled ==
  ASSUME Types, ServeSnapshot, NEW q \in Queries, NEW i \in DOMAIN responses'
  PROVE  /\ Settled(q, i)' => ~Wired(q)
         /\ i \in DOMAIN responses => Settled(q, i)' = Settled(q, i)
         /\ i \notin DOMAIN responses => Settled(q, i)' = ~Wired(q)
<1>1. Wired(q)' = Wired(q)
  BY SnapshotSame DEF Wired
<1>2. \A j \in DOMAIN responses : IsAnswer(j, q)' = IsAnswer(j, q)
  BY SnapshotSame DEF IsAnswer
<1>3. \A j \in DOMAIN responses' : j \notin DOMAIN responses => ~IsAnswer(j, q)'
  BY SnapshotSame
<1>4. (\A j \in DOMAIN responses' : j >= i => ~IsAnswer(j, q)')
        <=> (\A j \in DOMAIN responses : j >= i => ~IsAnswer(j, q))
  BY <1>2, <1>3, SnapshotSame
<1>5. ASSUME i \notin DOMAIN responses, NEW j \in DOMAIN responses, j >= i PROVE FALSE
  BY <1>5, SnapshotSame, Positions
<1> QED
  BY <1>1, <1>4, <1>5 DEF Settled

LEMMA SnapshotArrives ==
  ASSUME Types, ServeSnapshot, NEW q \in Queries, NEW v, NEW i, Arrives(q, v, i)
  PROVE  Arrives(q, v, i)'
<1>1. CASE cache[q] >= v \/ target[q].doc >= v
  BY <1>1, SnapshotSame DEF Arrives
<1>2. CASE \E j \in DOMAIN responses :
             j < i /\ IsDoc(j, q) /\ responses[j].version >= v /\ Settled(q, j)
  <2>1. PICK j \in DOMAIN responses :
             j < i /\ IsDoc(j, q) /\ responses[j].version >= v /\ Settled(q, j)
    BY <1>2
  <2>2. j \in DOMAIN responses' /\ responses'[j] = responses[j] /\ IsDoc(j, q)'
    BY <2>1, SnapshotSame DEF IsDoc
  <2>3. Settled(q, j)'
    BY <2>1, <2>2, SnapshotSettled
  <2> QED
    BY <2>1, <2>2, <2>3 DEF Arrives
<1> QED
  BY <1>1, <1>2 DEF Arrives

(* With the snapshot, all documents of the queries listened to are there. *)
LEMMA SnapshotArrived ==
  ASSUME Types, Closed, WireState, ServeSnapshot, NEW q \in Queries,
         view[q] # "none", ~Wired(q)
  PROVE  Arrives(q, lastWrite[q], Len(responses))' /\ sent[q] # Off
<1>1. lastWrite[q] \in Nat /\ sent[q] \in Int
  BY Numbers
<1>2. stream = "Open"
  <2>1. PICK p \in Queries : sent[p] # Off
    BY DEF ServeSnapshot
  <2> QED
    BY <2>1 DEF Closed
<1>3. sent[q] # Off /\ (lastWrite[q] <= sent[q] => Arrives(q, lastWrite[q], Len(responses) + 1))
  BY <1>2 DEF WireState
<1>4. CASE lastWrite[q] <= sent[q]
  <2>1. Len(responses) + 1 <= Len(responses') /\ Len(responses) + 1 \in Nat /\ Len(responses') \in Nat
    BY SnapshotSame, Positions
  <2>2. Arrives(q, lastWrite[q], Len(responses'))
    BY <1>1, <1>3, <1>4, <2>1, ArrivesLater
  <2>3. lastWrite' = lastWrite
    BY SnapshotSame
  <2> DEFINE v == lastWrite[q]
             M == Len(responses')
  <2>4. cache'[q] >= v \/ target'[q].doc >= v \/ \E j \in DOMAIN responses' :
           j < M /\ IsDoc(j, q)' /\ responses'[j].version >= v /\ Settled(q, j)'
    <3>1. CASE cache[q] >= v \/ target[q].doc >= v
      BY <3>1, SnapshotSame
    <3>2. CASE \E j \in DOMAIN responses :
                 j < M /\ IsDoc(j, q) /\ responses[j].version >= v /\ Settled(q, j)
      <4>1. PICK j \in DOMAIN responses :
                 j < M /\ IsDoc(j, q) /\ responses[j].version >= v /\ Settled(q, j)
        BY <3>2
      <4>2. j \in DOMAIN responses' /\ responses'[j] = responses[j] /\ IsDoc(j, q)'
        BY <4>1, SnapshotSame DEF IsDoc
      <4> QED
        BY <4>1, <4>2, SnapshotSettled
    <3> QED
      BY <2>2, <3>1, <3>2 DEF Arrives
  <2> QED
    BY <1>3, <2>3, <2>4 DEF Arrives
<1>5. CASE lastWrite[q] > sent[q]
  <2>1. PICK j \in (Len(responses) + 1)..(Len(responses') - 1) :
           /\ responses'[j].type = "doc" /\ responses'[j].queries = {q}
           /\ responses'[j].version = lastWrite[q]
    BY <1>3, <1>5, SnapshotFacts
  <2>2. j \in DOMAIN responses' /\ j \notin DOMAIN responses /\ j < Len(responses')
    BY <2>1, SnapshotSame, Positions
  <2>3. IsDoc(j, q)' /\ responses'[j].version >= lastWrite[q] /\ lastWrite' = lastWrite
    BY <1>1, <2>1, SnapshotSame DEF IsDoc
  <2>4. Settled(q, j)'
    BY <2>2, SnapshotSettled
  <2> QED
    BY <1>3, <2>2, <2>3, <2>4 DEF Arrives
<1> QED
  BY <1>1, <1>3, <1>4, <1>5

(* The two parts of WireState, and that of SnapshotState, for one query. *)
WireOf(i) ==
    LET q == requests[i].query IN
    /\ requests[i].type = "watch" /\ lastWrite[q] <= requests[i].from => cache[q] = lastWrite[q]
    /\ view[q] # "none" /\ (\A j \in DOMAIN requests : j > i => requests[j].query # q)
         => requests[i].type = "watch"

StartOf(q) == stream = "Open" /\ view[q] # "none" /\ ~Wired(q) =>
    /\ sent[q] # Off
    /\ lastWrite[q] <= sent[q] => Arrives(q, lastWrite[q], Len(responses) + 1)

LEMMA WireStateIs ==
    WireState <=> (\A i \in DOMAIN requests : WireOf(i)) /\ (\A q \in Queries : StartOf(q))
  BY DEF WireState, WireOf, StartOf

LEMMA WireStep ==
    Types /\ Closed /\ Exact /\ PastState /\ DocsOrdered /\ TokenIsHonest /\ WireState /\ [Next]_vars
      /\ PastState' => WireState'
  <1> SUFFICES ASSUME Types, Closed, Exact, PastState, DocsOrdered, TokenIsHonest, WireState,
                      [Next]_vars, PastState'
               PROVE  WireState'
    OBVIOUS
  <1>0. (\A i \in DOMAIN requests : WireOf(i)) /\ (\A q \in Queries : StartOf(q))
    BY WireStateIs
  <1>i. WireState' <=> (\A i \in DOMAIN requests' : WireOf(i)') /\ (\A q \in Queries : StartOf(q)')
    BY DEF WireState, WireOf, StartOf
  <1>n. /\ \A q \in Queries : lastWrite[q] \in Nat /\ cache[q] \in Nat
        /\ \A i \in DOMAIN requests : requests[i].query \in Queries /\ requests[i].from \in Nat
        /\ Len(responses) + 1 \in Nat /\ Len(responses) + 1 >= 1
    BY Numbers, Positions
  (* A request for p goes out that is right; the others do not change. *)
  <1>s. ASSUME UNCHANGED <<lastWrite, cache, responses, sent>>, stream' = "Open" => stream = "Open",
               \A q \in Queries : target'[q].doc = target[q].doc,
               \A q \in Queries : view'[q] # "none" => view[q] # "none",
               requests' = requests
        PROVE  WireState'
    <2>1. ASSUME NEW i \in DOMAIN requests' PROVE WireOf(i)'
      BY <1>0, <1>n, <1>s DEF WireOf
    <2>2. ASSUME NEW q \in Queries PROVE StartOf(q)'
      <3>1. Wired(q)' = Wired(q)
        BY <1>s DEF Wired
      <3>2. \A v, i : Arrives(q, v, i)' = Arrives(q, v, i)
        BY <1>s, <3>1, ArrivesSame
      <3> QED
        BY <1>0, <1>s, <3>1, <3>2 DEF StartOf
    <2> QED
      BY <1>i, <2>1, <2>2
  <1>t. ASSUME UNCHANGED <<lastWrite, cache, responses, sent>>, stream' = "Open" => stream = "Open",
               \A q \in Queries : target'[q].doc = target[q].doc,
               NEW p \in Queries, NEW m,
               \A q \in Queries \ {p} : view'[q] # "none" => view[q] # "none",
               DOMAIN requests' = 1..(Len(requests) + 1),
               \A i \in 1..Len(requests) : requests'[i] = requests[i],
               requests'[Len(requests) + 1] = m, m.query = p,
               m.type = "watch" /\ lastWrite[p] <= m.from => cache[p] = lastWrite[p],
               view'[p] # "none" => m.type = "watch"
        PROVE  WireState'
    <2>p. /\ Len(requests) \in Nat /\ DOMAIN requests = 1..Len(requests)
          /\ Len(requests) + 1 \in DOMAIN requests'
      BY <1>t, Positions
    <2>1. ASSUME NEW i \in DOMAIN requests' PROVE WireOf(i)'
      <3>1. CASE i = Len(requests) + 1
        BY <1>t, <3>1 DEF WireOf
      <3>2. CASE i # Len(requests) + 1
        <4>1. i \in DOMAIN requests /\ requests'[i] = requests[i] /\ i < Len(requests) + 1
          BY <1>t, <2>p, <3>2
        <4>2. WireOf(i)
          BY <1>0, <4>1
        <4>3. CASE requests[i].query = p
          BY <1>t, <2>p, <4>1, <4>2, <4>3 DEF WireOf
        <4>4. CASE requests[i].query # p
          <5> DEFINE q == requests[i].query
          <5>1. q \in Queries /\ (view'[q] # "none" => view[q] # "none")
            BY <1>n, <1>t, <4>1, <4>4
          <5>2. (\A j \in DOMAIN requests' : j > i => requests'[j].query # q) =>
                   \A j \in DOMAIN requests : j > i => requests[j].query # q
            BY <1>t, <2>p
          <5> QED
            BY <1>t, <4>1, <4>2, <5>1, <5>2 DEF WireOf
        <4> QED
          BY <4>3, <4>4
      <3> QED
        BY <3>1, <3>2
    <2>2. ASSUME NEW q \in Queries PROVE StartOf(q)'
      <3>1. CASE q = p
        <4>1. Wired(q)'
          BY <1>t, <2>p, <3>1 DEF Wired
        <4> QED
          BY <4>1 DEF StartOf
      <3>2. CASE q # p
        <4>1. Wired(q)' = Wired(q)
          BY <1>t, <2>p, <3>2 DEF Wired
        <4>2. \A v, i : Arrives(q, v, i)' = Arrives(q, v, i)
          BY <1>t, <4>1, ArrivesSame
        <4> QED
          BY <1>0, <1>t, <3>2, <4>1, <4>2 DEF StartOf
      <3> QED
        BY <3>1, <3>2
    <2> QED
      BY <1>i, <2>1, <2>2
  <1>1. ASSUME NEW r \in Reads, Get(r) PROVE WireState'
    <2> DEFINE p == QueryOf[r]
    <2>0. GetSends(r) /\ Gets(r)
      BY <1>1, GetFacts, GetReads
    <2>1. /\ p \in Queries /\ UNCHANGED <<lastWrite, cache, responses, sent>>
          /\ stream' = "Open" <=> stream = "Open"
          /\ \A q \in Queries : target'[q].doc = target[q].doc
          /\ \A q \in Queries \ {p} : view'[q] = view[q]
          /\ view[p] # "none" => view'[p] = view[p]
      BY <2>0 DEF GetSends, Gets
    <2>2. CASE view[p] = "none" /\ stream = "Open"
      <3> DEFINE m == [type |-> "watch", query |-> p, from |-> token[p]]
      <3>1. /\ DOMAIN requests' = 1..(Len(requests) + 1)
            /\ \A i \in 1..Len(requests) : requests'[i] = requests[i]
            /\ requests'[Len(requests) + 1] = m
        BY <2>0, <2>2 DEF GetSends
      <3>2. m.query = p /\ m.type = "watch" /\ (lastWrite[p] <= m.from => cache[p] = lastWrite[p])
        BY <2>1 DEF TokenIsHonest
      <3> HIDE DEF m, p
      <3> QED
        BY <1>t, <2>1, <3>1, <3>2
    <2>3. CASE view[p] # "none"
      <3>1. requests' = requests /\ \A q \in Queries : view'[q] # "none" => view[q] # "none"
        BY <2>0, <2>1, <2>3 DEF GetSends
      <3> QED
        BY <1>s, <2>1, <3>1
    <2>4. CASE stream # "Open"
      <3>1. requests' = requests /\ requests = <<>>
        BY <2>0, <2>4 DEF GetSends, Closed
      <3> QED
        BY <1>i, <2>1, <2>4, <3>1 DEF StartOf
    <2> QED
      BY <2>2, <2>3, <2>4
  <1>2. ASSUME NEW r \in Reads, RemoveQueryListener(r) PROVE WireState'
    <2> DEFINE p == QueryOf[r]
    <2>0. RemoveSends(r) /\ Removes(r)
      BY <1>2, RemoveFacts, RemoveReads
    <2>1. /\ p \in Queries /\ UNCHANGED <<lastWrite, cache, responses, sent, stream>>
          /\ \A q \in Queries : target'[q].doc = target[q].doc
          /\ \A q \in Queries : view'[q] # "none" => view[q] # "none"
      BY <2>0 DEF RemoveSends, Removes
    <2>2. CASE Listeners(p) = {r} /\ stream = "Open"
      <3> DEFINE m == [type |-> "unwatch", query |-> p, from |-> 0]
      <3>1. /\ DOMAIN requests' = 1..(Len(requests) + 1)
            /\ \A i \in 1..Len(requests) : requests'[i] = requests[i]
            /\ requests'[Len(requests) + 1] = m
        BY <2>0, <2>2 DEF RemoveSends
      <3>2. m.query = p /\ m.type = "unwatch" /\ view'[p] = "none"
        BY <2>0, <2>1, <2>2 DEF Removes
      <3> HIDE DEF m, p
      <3> QED
        BY <1>t, <2>1, <3>1, <3>2
    <2>3. CASE ~ (Listeners(p) = {r} /\ stream = "Open")
      <3>1. requests' = requests
        BY <2>0, <2>3 DEF RemoveSends
      <3> QED
        BY <1>s, <2>1, <3>1
    <2> QED
      BY <2>2, <2>3
  <1>3. CASE Drops
    BY <1>3, <1>i, DropFacts DEF StartOf
  <1>4. CASE Rests
    BY <1>4, <1>s, RestFacts
  <1>5. CASE OnWatchStreamOpen
    <2>1. UNCHANGED <<lastWrite, cache, token, view>>
      BY <1>5 DEF OnWatchStreamOpen, store
    <2>2. ASSUME NEW i \in DOMAIN requests' PROVE WireOf(i)'
      BY <1>5, <2>1, OpenFacts DEF WireOf, TokenIsHonest
    <2>3. ASSUME NEW q \in Queries PROVE StartOf(q)'
      BY <1>5, <2>1, OpenFacts DEF StartOf, Wired
    <2> QED
      BY <1>i, <2>2, <2>3
  <1>6. CASE OnWatchStreamChange \/ RaiseWatchSnapshot
    <2>1. /\ UNCHANGED <<lastWrite, requests, sent, stream>>
          /\ \A q \in Queries : view'[q] = "none" <=> view[q] = "none"
          /\ \A q \in Queries : cache'[q] >= cache[q] /\ cache'[q] <= lastWrite[q] /\ cache'[q] \in Nat
          /\ Len(responses') + 1 = Len(responses) /\ Len(responses) + 1 > 1
      <3>1. \A q \in Queries : cache'[q] >= cache[q] /\ cache'[q] \in Nat
        BY <1>6, <1>n, ChangeFacts, RaiseFacts, Numbers
      <3>2. Len(responses') + 1 = Len(responses) /\ Len(responses) + 1 > 1
        <4>1. Len(responses') = Len(responses) - 1 /\ 1 \in DOMAIN responses
          BY <1>6, ShiftFacts
        <4> QED
          BY <4>1, Positions
      <3>3. /\ UNCHANGED <<lastWrite, requests, sent, stream>>
            /\ \A q \in Queries : view'[q] = "none" <=> view[q] = "none"
        BY <1>6, ChangeFacts, RaiseFacts
      <3> QED
        BY <3>1, <3>2, <3>3 DEF PastState
    <2>2. ASSUME NEW i \in DOMAIN requests' PROVE WireOf(i)'
      <3>1. WireOf(i) /\ requests[i].query \in Queries
        BY <1>0, <1>n, <2>1
      <3> QED
        BY <1>n, <2>1, <3>1 DEF WireOf
    <2>3. ASSUME NEW q \in Queries PROVE StartOf(q)'
      <3> SUFFICES ASSUME stream = "Open", view[q] # "none", ~Wired(q)
                   PROVE  /\ sent[q] # Off
                          /\ lastWrite[q] <= sent[q] => Arrives(q, lastWrite[q], Len(responses) + 1)'
        BY <2>1 DEF StartOf, Wired
      <3>1. sent[q] # Off /\ (lastWrite[q] <= sent[q] => Arrives(q, lastWrite[q], Len(responses) + 1))
        BY <1>0 DEF StartOf
      <3>2. ASSUME lastWrite[q] <= sent[q] PROVE Arrives(q, lastWrite[q], Len(responses) + 1)'
        <4> DEFINE v == lastWrite[q]
                   k == Len(responses) + 1
        <4>1. v \in Nat /\ k \in Nat /\ k > 1 /\ Arrives(q, v, k)
          BY <1>n, <2>1, <3>1, <3>2
        <4>2. lastWrite'[q] = v /\ Len(responses') + 1 = k - 1
          BY <1>n, <2>1
        <4>3. \A w, j \in Nat : j > 1 /\ Arrives(q, w, j) => Arrives(q, w, j - 1)'
          BY <1>6, ArrivesShift
        <4> HIDE DEF v, k
        <4>4. \A w, j \in Nat : w = v /\ j = k - 1 => Arrives(q, w, j)'
          BY <4>1, <4>3
        <4>5. Len(responses') + 1 \in Nat
          BY <4>1, <4>2
        <4> QED
          BY <4>1, <4>2, <4>4, <4>5
      <3> QED
        BY <3>1, <3>2
    <2> QED
      BY <1>i, <2>2, <2>3
  <1>7. ASSUME NEW p \in Queries, Commit(p) PROVE WireState'
    <2>1. /\ \A q \in Queries : lastWrite'[p] > lastWrite[q] /\ lastWrite'[q] \in Nat
          /\ \A q \in Queries \ {p} : lastWrite'[q] = lastWrite[q]
          /\ UNCHANGED <<cache, view, stream, target, requests, responses, sent>>
      BY <1>7, CommitFacts
    <2>2. ASSUME NEW v \in Int, Past(v) PROVE ~ (lastWrite'[p] <= v)
      BY <1>n, <2>1, <2>2 DEF Past
    <2>3. ASSUME NEW i \in DOMAIN requests' PROVE WireOf(i)'
      <3>1. /\ WireOf(i) /\ requests[i].query \in Queries
            /\ ~ (lastWrite'[p] <= requests[i].from)
        BY <1>0, <1>n, <2>1, <2>2 DEF PastState
      <3> QED
        BY <2>1, <3>1 DEF WireOf
    <2>4. ASSUME NEW q \in Queries PROVE StartOf(q)'
      <3>1. Wired(q)' = Wired(q)
        BY <2>1 DEF Wired
      <3>2. \A v, i : Arrives(q, v, i)' = Arrives(q, v, i)
        BY <2>1, <3>1, ArrivesSame
      <3>3. ~ (lastWrite'[p] <= sent[q])
        BY <2>2, Numbers DEF PastState
      <3> QED
        BY <1>0, <2>1, <3>1, <3>2, <3>3 DEF StartOf
    <2> QED
      BY <1>i, <2>3, <2>4
  <1>8. CASE ServeRequest
    <2> DEFINE m == requests[1]
    <2>1. /\ UNCHANGED <<lastWrite, cache, view, stream>>
          /\ \A i \in DOMAIN requests' : i + 1 \in DOMAIN requests /\ requests'[i] = requests[i + 1] /\ i \in Nat
          /\ 1 \in DOMAIN requests /\ DOMAIN requests \subseteq Nat
          /\ \A j \in DOMAIN requests : j > 1 => j - 1 \in DOMAIN requests'
          /\ Len(responses') = Len(responses) + 1
          /\ m \in Requests
          /\ sent' = [sent EXCEPT ![m.query] = IF m.type = "watch" THEN m.from ELSE Off]
      BY <1>8, ServeFacts, Positions DEF ServeRequest, store
    <2>2. ASSUME NEW i \in DOMAIN requests' PROVE WireOf(i)'
      <3> DEFINE q == requests'[i].query
      <3>1. WireOf(i + 1) /\ requests'[i] = requests[i + 1]
        BY <1>0, <2>1
      <3>2. (\A j \in DOMAIN requests' : j > i => requests'[j].query # q) =>
               \A j \in DOMAIN requests : j > i + 1 => requests[j].query # q
        <4> SUFFICES ASSUME \A j \in DOMAIN requests' : j > i => requests'[j].query # q,
                            NEW j \in DOMAIN requests, j > i + 1
                     PROVE  requests[j].query # q
          OBVIOUS
        <4>1. i \in Nat /\ j \in Nat /\ j > 1 /\ j - 1 > i /\ (j - 1) + 1 = j
          BY <2>1
        <4>2. j - 1 \in DOMAIN requests' /\ requests'[j - 1] = requests[j]
          BY <2>1, <4>1
        <4> QED
          BY <4>1, <4>2
      <3> QED
        BY <2>1, <3>1, <3>2 DEF WireOf
    <2>3. ASSUME NEW q \in Queries, view[q] # "none", stream = "Open", ~Wired(q)'
          PROVE  /\ sent'[q] # Off
                 /\ lastWrite[q] <= sent'[q] => Arrives(q, lastWrite[q], Len(responses) + 1)'
      <3>1. CASE q = m.query
        <4>1. ASSUME NEW j \in DOMAIN requests, j > 1 PROVE requests[j].query # q
          <5>1. j - 1 \in DOMAIN requests' /\ requests'[j - 1] = requests[(j - 1) + 1] /\ (j - 1) + 1 = j
            BY <2>1, <4>1
          <5> QED
            BY <2>3, <5>1 DEF Wired
        <4>2. m.type = "watch" /\ (lastWrite[q] <= m.from => cache[q] = lastWrite[q])
          BY <1>0, <2>1, <2>3, <3>1, <4>1 DEF WireOf
        <4>3. sent'[q] = m.from /\ m.from \in Commits
          BY <2>1, <3>1, <4>2 DEF Types, Requests
        <4>4. sent'[q] # Off
          BY <4>3 DEF Commits, Off
        <4>5. lastWrite[q] <= sent'[q] => cache'[q] >= lastWrite'[q]
          BY <1>n, <2>1, <4>2, <4>3
        <4> QED
          BY <4>4, <4>5 DEF Arrives
      <3>2. CASE q # m.query
        <4>1. ~Wired(q) /\ sent'[q] = sent[q]
          BY <1>8, <2>1, <2>3, <3>2, ServeWired DEF Types
        <4>2. sent[q] # Off /\ (lastWrite[q] <= sent[q] => Arrives(q, lastWrite[q], Len(responses) + 1))
          BY <1>0, <2>3, <4>1 DEF StartOf
        <4>3. \A v, k : Arrives(q, v, k) => Arrives(q, v, k)'
          BY <1>8, <3>2, ServeArrives
        <4>4. Len(responses) + 1 <= Len(responses') + 1 /\ Len(responses') + 1 \in Nat
          BY <1>n, <2>1, Positions
        <4>5. ASSUME lastWrite[q] <= sent[q] PROVE Arrives(q, lastWrite[q], Len(responses) + 1)'
          <5> DEFINE v == lastWrite[q]
                     k == Len(responses') + 1
          <5>1. Arrives(q, v, k) /\ v = lastWrite'[q] /\ k \in Nat
            BY <1>n, <2>1, <4>2, <4>4, <4>5, ArrivesLater
          <5> HIDE DEF v
          <5> QED
            BY <4>3, <5>1
        <4> QED
          BY <4>1, <4>2, <4>5
      <3> QED
        BY <3>1, <3>2
    <2>4. ASSUME NEW q \in Queries PROVE StartOf(q)'
      BY <2>1, <2>3 DEF StartOf
    <2> QED
      BY <1>i, <2>2, <2>4
  <1>9. CASE ServeSnapshot
    <2>1. UNCHANGED <<lastWrite, cache, view, stream, requests>>
      BY <1>9 DEF ServeSnapshot, store
    <2>2. ASSUME NEW i \in DOMAIN requests' PROVE WireOf(i)'
      BY <1>0, <2>1, <2>2 DEF WireOf
    <2>3. ASSUME NEW q \in Queries PROVE StartOf(q)'
      <3> SUFFICES ASSUME view[q] # "none", ~Wired(q)
                   PROVE  sent'[q] # Off /\ Arrives(q, lastWrite[q], Len(responses) + 1)'
        BY <2>1 DEF StartOf, Wired
      <3>1. Arrives(q, lastWrite[q], Len(responses))' /\ sent[q] # Off
        BY <1>9, SnapshotArrived
      <3>2. Len(responses') \in Nat /\ DOMAIN responses' \subseteq Nat
        BY <1>9, SnapshotSame
      <3>3. Arrives(q, lastWrite[q], Len(responses) + 1)'
        BY <3>1, <3>2 DEF Arrives
      <3>4. sent'[q] # Off
        <4>1. PICK now \in Commits : sent' = [p \in Queries |-> IF sent[p] # Off THEN now ELSE Off]
          BY <1>9, SnapshotFacts
        <4> QED
          BY <3>1, <4>1 DEF Commits, Off
      <3> QED
        BY <3>3, <3>4
    <2> QED
      BY <1>i, <2>2, <2>3
  <1> QED
    BY <1>1, <1>2, <1>3, <1>4, <1>5, <1>6, <1>7, <1>8, <1>9, Steps

(* SnapshotState for one message and query. *)
CompleteAt(i, q) == responses[i].type = "snapshot" /\ view[q] # "none" /\ Settled(q, i) =>
    /\ lastWrite[q] <= responses[i].version => Arrives(q, lastWrite[q], i)
    /\ \A r \in Reads \ Streams :
          QueryOf[r] = q /\ phase[r] = "waiting" => Arrives(q, floor[r], i)

LEMMA SnapshotStep ==
    Types /\ Closed /\ Exact /\ PastState /\ DocsOrdered /\ WireState /\ SnapshotState /\ [Next]_vars
      => SnapshotState'
  <1> SUFFICES ASSUME Types, Closed, Exact, PastState, DocsOrdered, WireState, SnapshotState,
                      [Next]_vars
               PROVE  SnapshotState'
    OBVIOUS
  <1>0. \A i \in DOMAIN responses, q \in Queries : CompleteAt(i, q)
    BY DEF SnapshotState, CompleteAt
  <1>i. (\A i \in DOMAIN responses', q \in Queries : CompleteAt(i, q)') => SnapshotState'
    BY DEF SnapshotState, CompleteAt
  <1>n. /\ \A q \in Queries : lastWrite[q] \in Nat /\ cache[q] \in Nat
        /\ \A r \in Reads : floor[r] \in Nat
        /\ \A i \in DOMAIN responses : i \in Nat /\ i >= 1
    BY Numbers, Positions
  <1>e. ASSUME responses' = <<>> PROVE SnapshotState'
    BY <1>e, <1>i
  (* The documents and the wire of q stay, and no get is added that needs more. *)
  <1>s. ASSUME NEW q \in Queries, UNCHANGED <<lastWrite, cache, responses>>,
               target'[q].doc = target[q].doc, view'[q] # "none" => view[q] # "none",
               Wired(q)' <=> Wired(q),
               \A r \in Reads \ Streams : QueryOf[r] = q /\ phase'[r] = "waiting" =>
                  (phase[r] = "waiting" /\ floor'[r] = floor[r]) \/ floor'[r] = 0,
               NEW i \in DOMAIN responses'
        PROVE  CompleteAt(i, q)'
    <2>1. CompleteAt(i, q)
      BY <1>0, <1>s
    <2>2. \A v : Arrives(q, v, i)' <=> Arrives(q, v, i)
      <3>1. Wired(q)' = Wired(q)
        BY <1>s DEF Wired
      <3> QED
        BY <1>s, <3>1, ArrivesSame
    <2>3. Settled(q, i)' => Settled(q, i)
      <3>1. Wired(q)' = Wired(q)
        BY <1>s DEF Wired
      <3> QED
        BY <1>s, <3>1, ArrivesSame
    <2>4. Arrives(q, 0, i)
      BY <1>n DEF Arrives
    <2> SUFFICES ASSUME responses[i].type = "snapshot", view[q] # "none", Settled(q, i)
                 PROVE  /\ lastWrite[q] <= responses[i].version => Arrives(q, lastWrite[q], i)'
                        /\ \A r \in Reads \ Streams :
                              QueryOf[r] = q /\ phase'[r] = "waiting" => Arrives(q, floor[r], i)'
      BY <1>s, <2>3 DEF CompleteAt
    <2>5. lastWrite[q] <= responses[i].version => Arrives(q, lastWrite[q], i)'
      BY <1>s, <2>1, <2>2 DEF CompleteAt
    <2>6. ASSUME NEW r \in Reads \ Streams, QueryOf[r] = q, phase'[r] = "waiting"
          PROVE  Arrives(q, floor[r], i)'
      <3>1. Arrives(q, floor'[r], i)
        BY <1>s, <2>1, <2>4, <2>6 DEF CompleteAt
      <3> QED
        BY <2>2, <3>1
    <2> QED
      BY <2>5, <2>6
  <1>1. ASSUME NEW r \in Reads, Get(r) PROVE SnapshotState'
    <2> DEFINE p == QueryOf[r]
    <2>0. GetSends(r) /\ Gets(r)
      BY <1>1, GetFacts, GetReads
    <2>1. /\ p \in Queries /\ UNCHANGED <<lastWrite, cache, responses>>
          /\ \A q \in Queries : target'[q].doc = target[q].doc
          /\ \A q \in Queries \ {p} : view'[q] = view[q]
          /\ view[p] # "none" => view'[p] = view[p] /\ floor'[r] = 0
          /\ \A s \in Reads \ {r} : phase'[s] = phase[s] /\ floor'[s] = floor[s]
      BY <2>0 DEF GetSends, Gets
    <2>2. CASE view[p] = "none" /\ stream = "Open"
      <3>1. /\ DOMAIN requests' = 1..(Len(requests) + 1) /\ Len(requests) + 1 \in Nat
            /\ \A i \in 1..Len(requests) : requests'[i] = requests[i]
            /\ requests'[Len(requests) + 1].query = p
        BY <2>0, <2>2 DEF GetSends
      <3>2. ASSUME NEW i \in DOMAIN responses', NEW q \in Queries PROVE CompleteAt(i, q)'
        <4>1. CASE q = p
          <5>1. Wired(q)'
            BY <3>1, <4>1, Positions DEF Wired
          <5> QED
            BY <5>1 DEF CompleteAt, Settled
        <4>2. CASE q # p
          <5>1. Wired(q)' <=> Wired(q)
            <6>1. Len(requests) \in Nat /\ DOMAIN requests = 1..Len(requests)
              BY Positions
            <6>2. ASSUME NEW j \in DOMAIN requests', requests'[j].query = q
                  PROVE  j \in DOMAIN requests /\ requests'[j] = requests[j]
              BY <3>1, <4>2, <6>1, <6>2
            <6>3. \A j \in DOMAIN requests : j \in DOMAIN requests' /\ requests'[j] = requests[j]
              BY <3>1, <6>1
            <6> QED
              BY <6>2, <6>3 DEF Wired
          <5>2. \A s \in Reads \ Streams : QueryOf[s] = q /\ phase'[s] = "waiting" =>
                    phase[s] = "waiting" /\ floor'[s] = floor[s]
            BY <2>1, <4>2
          <5> QED
            BY <1>s, <2>1, <4>2, <5>1, <5>2
        <4> QED
          BY <4>1, <4>2
      <3> QED
        BY <1>i, <3>2
    <2>3. CASE view[p] # "none"
      <3>1. requests' = requests
        BY <2>0, <2>3 DEF GetSends
      <3>2. ASSUME NEW i \in DOMAIN responses', NEW q \in Queries PROVE CompleteAt(i, q)'
        <4>1. Wired(q)' <=> Wired(q)
          BY <3>1 DEF Wired
        <4>2. \A s \in Reads \ Streams : QueryOf[s] = q /\ phase'[s] = "waiting" =>
                  (phase[s] = "waiting" /\ floor'[s] = floor[s]) \/ floor'[s] = 0
          BY <2>1, <2>3
        <4>3. view'[q] = view[q]
          BY <2>1, <2>3
        <4> QED
          BY <1>s, <2>1, <4>1, <4>2, <4>3
      <3> QED
        BY <1>i, <3>2
    <2>4. CASE stream # "Open"
      <3>1. responses' = <<>>
        BY <2>1, <2>4 DEF Closed
      <3> QED
        BY <1>e, <3>1
    <2> QED
      BY <2>2, <2>3, <2>4
  <1>2. ASSUME NEW r \in Reads, RemoveQueryListener(r) PROVE SnapshotState'
    <2> DEFINE p == QueryOf[r]
    <2>0. RemoveSends(r) /\ Removes(r)
      BY <1>2, RemoveFacts, RemoveReads
    <2>1. /\ p \in Queries /\ UNCHANGED <<lastWrite, cache, responses, floor>>
          /\ \A q \in Queries : target'[q].doc = target[q].doc
          /\ \A q \in Queries : view'[q] # "none" => view[q] # "none"
          /\ \A s \in Reads : phase'[s] = "waiting" => phase[s] = "waiting"
      BY <2>0 DEF RemoveSends, Removes
    <2>2. ASSUME NEW i \in DOMAIN responses', NEW q \in Queries PROVE CompleteAt(i, q)'
      <3>1. CASE q = p /\ Listeners(p) = {r}
        <4>1. view'[q] = "none"
          BY <2>0, <3>1 DEF Removes
        <4> QED
          BY <4>1 DEF CompleteAt
      <3>2. CASE ~ (q = p /\ Listeners(p) = {r})
        <4>1. Wired(q)' <=> Wired(q)
          <5>1. CASE requests' = requests
            BY <5>1 DEF Wired
          <5>2. CASE requests' # requests
            <6>1. /\ DOMAIN requests' = 1..(Len(requests) + 1)
                  /\ \A j \in 1..Len(requests) : requests'[j] = requests[j]
                  /\ requests'[Len(requests) + 1].query = p /\ Listeners(p) = {r}
              BY <2>0, <5>2 DEF RemoveSends
            <6> QED
              BY <3>2, <6>1, Positions DEF Wired
          <5> QED
            BY <5>1, <5>2
        <4> QED
          BY <1>s, <2>1, <4>1
      <3> QED
        BY <3>1, <3>2
    <2> QED
      BY <1>i, <2>2
  <1>3. CASE Drops \/ OnWatchStreamOpen
    BY <1>3, <1>e, DropFacts, OpenFacts
  <1>4. CASE Rests
    <2>1. /\ UNCHANGED <<lastWrite, cache, floor, requests, responses, target>>
          /\ \A r \in Reads : phase'[r] = "waiting" => phase[r] = "waiting"
          /\ \A q \in Queries : view'[q] = "none" <=> view[q] = "none"
      BY <1>4, RestFacts
    <2>2. ASSUME NEW i \in DOMAIN responses', NEW q \in Queries PROVE CompleteAt(i, q)'
      <3>1. Wired(q)' <=> Wired(q)
        BY <2>1 DEF Wired
      <3> QED
        BY <1>s, <2>1, <3>1
    <2> QED
      BY <1>i, <2>2
  <1>5. CASE OnWatchStreamChange \/ RaiseWatchSnapshot
    <2>1. /\ UNCHANGED <<lastWrite, floor>>
          /\ \A i \in DOMAIN responses' : /\ i + 1 \in DOMAIN responses /\ responses'[i] = responses[i + 1]
                                          /\ i \in Nat \ {0}
      BY <1>5, ShiftFacts
    <2>2. \A q \in Queries : view'[q] = "none" <=> view[q] = "none"
      BY <1>5, ChangeFacts, RaiseFacts
    <2>3. \A r \in Reads : phase'[r] = "waiting" => phase[r] = "waiting"
      BY <1>5, ChangeFacts, SnapshotReads
    <2>4. ASSUME NEW i \in DOMAIN responses', NEW q \in Queries PROVE CompleteAt(i, q)'
      <3>1. CompleteAt(i + 1, q) /\ responses'[i] = responses[i + 1] /\ i \in Nat /\ i + 1 > 1
        BY <1>0, <2>1
      <3> SUFFICES ASSUME responses[i + 1].type = "snapshot", view[q] # "none", Settled(q, i)'
                   PROVE  /\ lastWrite[q] <= responses[i + 1].version => Arrives(q, lastWrite[q], i)'
                          /\ \A r \in Reads \ Streams :
                               QueryOf[r] = q /\ phase'[r] = "waiting" => Arrives(q, floor[r], i)'
        BY <2>1, <2>2, <3>1 DEF CompleteAt
      <3>2. Settled(q, i + 1)
        BY <1>5, SettledShift
      <3>3. \A v \in Nat : Arrives(q, v, i + 1) => Arrives(q, v, i)'
        <4> SUFFICES ASSUME NEW v \in Nat, Arrives(q, v, i + 1) PROVE Arrives(q, v, i)'
          OBVIOUS
        <4>1. \A k \in Nat : k > 1 /\ Arrives(q, v, k) => Arrives(q, v, k - 1)'
          BY <1>5, ArrivesShift
        <4>2. i + 1 \in Nat /\ (i + 1) - 1 = i
          BY <3>1
        <4>3. Arrives(q, v, (i + 1) - 1)'
          BY <3>1, <4>1, <4>2
        <4> QED
          BY <4>2, <4>3
      <3>4. lastWrite[q] <= responses[i + 1].version => Arrives(q, lastWrite[q], i)'
        <4> DEFINE v == lastWrite[q]
        <4>1. v \in Nat /\ lastWrite'[q] = v
          BY <1>n, <2>1
        <4>2. lastWrite[q] <= responses[i + 1].version => Arrives(q, v, i + 1)
          BY <3>1, <3>2 DEF CompleteAt
        <4> HIDE DEF v
        <4> QED
          BY <3>3, <4>1, <4>2
      <3>5. ASSUME NEW r \in Reads \ Streams, QueryOf[r] = q, phase'[r] = "waiting"
            PROVE  Arrives(q, floor[r], i)'
        <4>1. Arrives(q, floor[r], i + 1) /\ floor[r] \in Nat /\ floor'[r] = floor[r]
          BY <1>n, <2>1, <2>3, <3>1, <3>2, <3>5 DEF CompleteAt
        <4> QED
          BY <3>3, <4>1
      <3> QED
        BY <3>4, <3>5
    <2> QED
      BY <1>i, <2>4
  <1>6. ASSUME NEW p \in Queries, Commit(p) PROVE SnapshotState'
    <2>1. /\ \A q \in Queries : lastWrite'[p] > lastWrite[q] /\ lastWrite'[q] \in Nat
          /\ \A q \in Queries \ {p} : lastWrite'[q] = lastWrite[q]
          /\ UNCHANGED <<cache, view, phase, floor, target, requests, responses>>
      BY <1>6, CommitFacts
    <2>2. ASSUME NEW i \in DOMAIN responses', NEW q \in Queries PROVE CompleteAt(i, q)'
      <3>1. Wired(q)' = Wired(q)
        BY <2>1 DEF Wired
      <3>2. /\ \A v : Arrives(q, v, i)' <=> Arrives(q, v, i)
            /\ Settled(q, i)' <=> Settled(q, i)
        BY <2>1, <3>1, ArrivesSame
      <3>3. CompleteAt(i, q)
        BY <1>0, <2>1
      <3>4. lastWrite'[q] <= responses[i].version => lastWrite'[q] = lastWrite[q]
        <4>1. CASE q # p
          BY <2>1, <4>1
        <4>2. CASE q = p
          <5>1. PICK x \in Queries : responses[i].version <= lastWrite[x]
            BY <2>1, <2>2 DEF PastState, Past
          <5>2. responses[i].version \in Nat /\ lastWrite[x] \in Nat
            BY <2>1, <2>2, Numbers
          <5> QED
            BY <2>1, <4>2, <5>1, <5>2
        <4> QED
          BY <4>1, <4>2
      <3> QED
        BY <2>1, <3>2, <3>3, <3>4 DEF CompleteAt
    <2> QED
      BY <1>i, <2>2
  <1>7. CASE ServeRequest
    <2>1. ASSUME NEW i \in DOMAIN responses', NEW q \in Queries PROVE CompleteAt(i, q)'
      <3>1. UNCHANGED <<lastWrite, view, phase, floor>>
        BY <1>7, ServeWired
      <3> SUFFICES ASSUME responses'[i].type = "snapshot", view[q] # "none", Settled(q, i)'
                   PROVE  /\ lastWrite[q] <= responses'[i].version => Arrives(q, lastWrite[q], i)'
                          /\ \A r \in Reads \ Streams :
                               QueryOf[r] = q /\ phase[r] = "waiting" => Arrives(q, floor[r], i)'
        BY <3>1 DEF CompleteAt
      <3>2. i \in DOMAIN responses /\ responses'[i] = responses[i]
        BY <1>7, ServeWired
      <3>3. q # requests[1].query /\ Settled(q, i)
        BY <1>7, <3>2, ServeSettled
      <3>4. \A v : Arrives(q, v, i) => Arrives(q, v, i)'
        BY <1>7, <3>3, ServeArrives
      <3>5. CompleteAt(i, q)
        BY <1>0, <3>2
      <3> QED
        BY <3>1, <3>2, <3>3, <3>4, <3>5 DEF CompleteAt
    <2> QED
      BY <1>i, <2>1
  <1>8. CASE ServeSnapshot
    <2>1. ASSUME NEW i \in DOMAIN responses', NEW q \in Queries PROVE CompleteAt(i, q)'
      <3>1. UNCHANGED <<lastWrite, view, phase, floor>>
        BY <1>8, SnapshotSame
      <3> SUFFICES ASSUME responses'[i].type = "snapshot", view[q] # "none", Settled(q, i)'
                   PROVE  /\ lastWrite[q] <= responses'[i].version => Arrives(q, lastWrite[q], i)'
                          /\ \A r \in Reads \ Streams :
                               QueryOf[r] = q /\ phase[r] = "waiting" => Arrives(q, floor[r], i)'
        BY <3>1 DEF CompleteAt
      <3>2. CASE i \in DOMAIN responses
        <4>1. responses'[i] = responses[i]
          BY <1>8, <3>2, SnapshotSame
        <4>2. Settled(q, i)
          BY <1>8, <3>2, SnapshotSettled
        <4>3. \A v : Arrives(q, v, i) => Arrives(q, v, i)'
          BY <1>8, SnapshotArrives
        <4>4. CompleteAt(i, q)
          BY <1>0, <3>2
        <4> QED
          BY <3>1, <4>1, <4>2, <4>3, <4>4 DEF CompleteAt
      <3>3. CASE i \notin DOMAIN responses
        <4>1. ~Wired(q)
          BY <1>8, SnapshotSettled
        <4>2. Arrives(q, lastWrite[q], Len(responses))'
          BY <1>8, <4>1, SnapshotArrived
        <4>3. i = Len(responses')
          <5>1. i \in (Len(responses) + 1)..Len(responses')
            BY <1>8, <3>3, SnapshotSame, Positions
          <5>2. \A j \in (Len(responses) + 1)..Len(responses') :
                   responses'[j].type = "snapshot" => j = Len(responses')
            BY <1>8, SnapshotFacts, Zenon
          <5> QED
            BY <5>1, <5>2
        <4>4. Arrives(q, lastWrite[q], i)'
          BY <4>2, <4>3 DEF Arrives
        <4>5. ASSUME NEW r \in Reads \ Streams, QueryOf[r] = q, phase[r] = "waiting"
              PROVE  Arrives(q, floor[r], i)'
          <5>1. floor[r] <= lastWrite[q] /\ floor[r] \in Nat /\ lastWrite[q] \in Nat
            BY <1>n, <4>5 DEF PastState
          <5>2. floor'[r] <= lastWrite'[q] /\ floor'[r] \in Nat /\ lastWrite'[q] \in Nat
            BY <3>1, <5>1
          <5>3. /\ cache'[q] \in Nat /\ target'[q].doc \in Nat
                /\ \A j \in DOMAIN responses' : responses'[j].version \in Nat
            <6>1. UNCHANGED <<cache, target>> /\ responses' \in Seq(Responses)
              BY <1>8, SnapshotSame, SnapshotFacts
            <6>2. \A j \in DOMAIN responses' : responses'[j] \in Responses
              BY <6>1, LenProperties, ElementOfSeq
            <6> QED
              BY <6>1, <6>2, Numbers DEF Responses, Commits
          <5> QED
            BY <4>4, <5>2, <5>3 DEF Arrives
        <4> QED
          BY <4>4, <4>5
      <3> QED
        BY <3>2, <3>3
    <2> QED
      BY <1>i, <2>1
  <1> QED
    BY <1>1, <1>2, <1>3, <1>4, <1>5, <1>6, <1>7, <1>8, Steps

(* An active target has read all answers, so that all that is to arrive has. *)
LEMMA ActiveHas ==
  ASSUME Types, Exact, RaiseWatchSnapshot, NEW q \in Queries, IsActiveTarget(q)
  PROVE  /\ view[q] # "none" /\ Settled(q, 1) /\ 1 \in DOMAIN responses
         /\ responses[1].type = "snapshot"
         /\ \A v \in Nat : Arrives(q, v, 1) => cache'[q] >= v
<1>1. view[q] # "none" /\ Settled(q, 1)
  BY NothingPending DEF IsActiveTarget, Settled
<1>2. 1 \in DOMAIN responses /\ responses[1].type = "snapshot"
  BY ShiftFacts, RaiseFacts
<1>3. ASSUME NEW v \in Nat, Arrives(q, v, 1) PROVE cache'[q] >= v
  <2>1. cache[q] >= v \/ target[q].doc >= v
    <3>1. \A j \in DOMAIN responses : ~ (j < 1)
      BY ShiftFacts
    <3> QED
      BY <1>3, <3>1 DEF Arrives
  <2>2. /\ cache[q] \in Nat /\ target[q].doc \in Nat
        /\ cache'[q] \in {cache[q], target[q].doc}
        /\ cache'[q] >= cache[q] /\ cache'[q] >= target[q].doc
    BY RaiseFacts, Numbers
  <2> QED
    BY <2>1, <2>2
<1> QED
  BY <1>1, <1>2, <1>3

LEMMA HonestStep ==
    Types /\ Exact /\ PastState /\ SnapshotState /\ TokenIsHonest /\ [Next]_vars => TokenIsHonest'
  <1> SUFFICES ASSUME Types, Exact, PastState, SnapshotState, TokenIsHonest, [Next]_vars
               PROVE  TokenIsHonest'
    OBVIOUS
  <1>1. ASSUME UNCHANGED <<lastWrite, cache, token>> PROVE TokenIsHonest'
    BY <1>1 DEF TokenIsHonest
  <1>2. CASE RaiseWatchSnapshot
    <2>1. /\ UNCHANGED lastWrite
          /\ \A q \in Queries :
               /\ cache'[q] \in {cache[q], target[q].doc} /\ cache'[q] >= cache[q]
               /\ token'[q] = IF IsActiveTarget(q) THEN responses[1].version ELSE token[q]
      BY <1>2, RaiseFacts
    <2>2. ASSUME NEW q \in Queries, lastWrite[q] <= token'[q] PROVE cache'[q] = lastWrite[q]
      <3>1. cache'[q] <= lastWrite[q] /\ cache'[q] \in Nat /\ lastWrite[q] \in Nat
        BY <2>1, Numbers DEF PastState
      <3>2. cache'[q] >= lastWrite[q]
        <4>1. CASE IsActiveTarget(q)
          <5>1. /\ view[q] # "none" /\ Settled(q, 1) /\ 1 \in DOMAIN responses
                /\ responses[1].type = "snapshot"
                /\ \A v \in Nat : Arrives(q, v, 1) => cache'[q] >= v
            BY <1>2, <4>1, ActiveHas
          <5>2. Arrives(q, lastWrite[q], 1)
            BY <2>1, <2>2, <4>1, <5>1 DEF SnapshotState
          <5> QED
            BY <3>1, <5>1, <5>2
        <4>2. CASE ~IsActiveTarget(q)
          <5>1. cache[q] = lastWrite[q]
            BY <2>1, <2>2, <4>2 DEF TokenIsHonest
          <5> QED
            BY <2>1, <5>1
        <4> QED
          BY <4>1, <4>2
      <3> QED
        BY <3>1, <3>2
    <2> QED
      BY <2>1, <2>2 DEF TokenIsHonest
  <1>3. ASSUME NEW p \in Queries, Commit(p) PROVE TokenIsHonest'
    <2>1. /\ \A q \in Queries : lastWrite'[p] > lastWrite[q] /\ lastWrite'[q] \in Nat
          /\ \A q \in Queries \ {p} : lastWrite'[q] = lastWrite[q]
          /\ UNCHANGED <<cache, token>>
      BY <1>3, CommitFacts
    <2>2. ~ (lastWrite'[p] <= token[p])
      <3>1. PICK x \in Queries : token[p] <= lastWrite[x]
        BY DEF PastState, Past
      <3>2. token[p] \in Nat /\ lastWrite[x] \in Nat
        BY Numbers
      <3> QED
        BY <2>1, <3>1, <3>2
    <2> QED
      BY <2>1, <2>2 DEF TokenIsHonest
  <1>4. ASSUME NEW r \in Reads, Get(r) PROVE TokenIsHonest'
    <2>1. GetSends(r)
      BY <1>4, GetFacts
    <2> QED
      BY <1>1, <2>1 DEF GetSends
  <1>5. ASSUME NEW r \in Reads, RemoveQueryListener(r) PROVE TokenIsHonest'
    <2>1. RemoveSends(r)
      BY <1>5, RemoveFacts
    <2> QED
      BY <1>1, <2>1 DEF RemoveSends
  <1>6. CASE Drops \/ Rests
    BY <1>1, <1>6, DropFacts, RestFacts
  <1>7. CASE OnWatchStreamOpen \/ OnWatchStreamChange
    BY <1>1, <1>7, ChangeFacts DEF OnWatchStreamOpen, store
  <1>8. CASE ServeRequest \/ ServeSnapshot
    <2>1. UNCHANGED <<lastWrite, cache, token>>
      <3>1. CASE ServeRequest
        BY <3>1, Zenon DEF ServeRequest, store
      <3>2. CASE ServeSnapshot
        BY <3>2, Zenon DEF ServeSnapshot, store
      <3> QED
        BY <1>8, <3>1, <3>2
    <2> QED
      BY <1>1, <2>1
  <1> QED
    BY <1>2, <1>3, <1>4, <1>5, <1>6, <1>7, <1>8, Steps

LEMMA FreshStep ==
    Types /\ Exact /\ ViewState /\ SnapshotState /\ GetIsFresh /\ [Next]_vars => GetIsFresh'
  <1> SUFFICES ASSUME Types, Exact, ViewState, SnapshotState, GetIsFresh, [Next]_vars,
                      NEW r \in Reads \ Streams,
                      phase'[r] \in {"shown", "gone"}, ~result'[r].fromCache
               PROVE  result'[r].value >= floor'[r]
    BY DEF GetIsFresh
  <1> USE ReadsAssumption
  <1>0. result[r].value \in Nat /\ floor[r] \in Nat /\ QueryOf[r] \in Queries
    BY DEF Types, Commits
  <1>1. ASSUME result'[r] = result[r], floor'[r] = floor[r], phase[r] \in {"shown", "gone"}
        PROVE  result'[r].value >= floor'[r]
    BY <1>1 DEF GetIsFresh
  <1>2. ASSUME UNCHANGED floor, UNCHANGED <<phase, result>> \/ GoOffline
        PROVE  result'[r].value >= floor'[r]
    <2>1. CASE UNCHANGED <<phase, result>>
      BY <1>1, <1>2, <2>1
    <2>2. CASE GoOffline
      <3>1. \A q \in Queries : view'[q] # "synced"
        BY <2>2, OfflineReads
      <3>2. /\ result'[r] = IF phase[r] = "waiting"
                              THEN [value |-> cache[QueryOf[r]],
                                    fromCache |-> view'[QueryOf[r]] # "synced"]
                              ELSE result[r]
            /\ phase'[r] = IF phase[r] = "waiting" THEN "shown" ELSE phase[r]
        BY <2>2 DEF GoOffline, Raise
      <3>3. phase[r] # "waiting"
        <4> SUFFICES ASSUME phase[r] = "waiting" PROVE FALSE
          OBVIOUS
        <4>1. view'[QueryOf[r]] # "synced"
          BY <1>0, <3>1
        <4>2. result'[r].fromCache = (view'[QueryOf[r]] # "synced")
          BY <3>2
        <4> QED
          BY <4>1, <4>2
      <3> QED
        BY <1>1, <1>2, <3>2, <3>3
    <2> QED
      BY <1>2, <2>1, <2>2
  <1>3. ASSUME NEW s \in Reads, Get(s) PROVE result'[r].value >= floor'[r]
    <2>0. Gets(s)
      BY <1>3, GetReads
    <2>1. CASE s = r
      <3>1. phase'[r] = "shown"
        BY <2>0, <2>1 DEF Gets
      <3>2. result'[r] = [value |-> cache[QueryOf[r]], fromCache |-> view[QueryOf[r]] # "synced"]
        BY <2>0, <2>1, <3>1 DEF Gets
      <3>3. view[QueryOf[r]] = "synced"
        <4>1. result'[r].fromCache = (view[QueryOf[r]] # "synced")
          BY <3>2
        <4> QED
          BY <4>1
      <3>4. floor'[r] = 0
        BY <2>0, <2>1, <3>3 DEF Gets
      <3> QED
        BY <1>0, <3>2, <3>4, Numbers
    <2>2. CASE s # r
      BY <1>1, <2>0, <2>2 DEF Gets
    <2> QED
      BY <2>1, <2>2
  <1>4. ASSUME NEW s \in Reads, RemoveQueryListener(s) PROVE result'[r].value >= floor'[r]
    <2>0. Removes(s) /\ RemoveSends(s)
      BY <1>4, RemoveReads, RemoveFacts
    <2>1. phase[r] \in {"shown", "gone"} /\ UNCHANGED <<result, floor>>
      BY <2>0 DEF Removes, RemoveSends
    <2> QED
      BY <1>1, <2>1
  <1>5. CASE RaiseWatchSnapshot
    <2>0. floor'[r] = floor[r]
      BY <1>5, RaiseFacts
    <2>1. CASE phase'[r] = phase[r] /\ result'[r] = result[r]
      BY <1>1, <2>0, <2>1
    <2>2. CASE phase[r] = "waiting" /\ view'[QueryOf[r]] = "synced"
               /\ result'[r] = [value |-> cache'[QueryOf[r]], fromCache |-> FALSE]
      <3> DEFINE q == QueryOf[r]
      <3>1. view[q] # "synced"
        BY <2>2 DEF ViewState
      <3>2. IsActiveTarget(q)
        BY <1>0, <1>5, <2>2, <3>1, RaiseFacts
      <3>3. /\ view[q] # "none" /\ Settled(q, 1) /\ 1 \in DOMAIN responses
            /\ responses[1].type = "snapshot"
            /\ \A v \in Nat : Arrives(q, v, 1) => cache'[q] >= v
        BY <1>0, <1>5, <3>2, ActiveHas
      <3>4. Arrives(q, floor[r], 1)
        BY <1>0, <2>2, <3>3 DEF SnapshotState
      <3>5. cache'[q] >= floor[r]
        BY <1>0, <3>3, <3>4
      <3> QED
        BY <2>0, <2>2, <3>5
    <2> QED
      BY <1>5, <2>1, <2>2, SnapshotReads
  <1>6. CASE Drops
    BY <1>2, <1>6, DropFacts
  <1>7. CASE Rests
    BY <1>2, <1>7, RestFacts
  <1>8. ASSUME UNCHANGED <<phase, result, floor>> PROVE result'[r].value >= floor'[r]
    BY <1>2, <1>8
  <1>9. CASE OnWatchStreamOpen \/ OnWatchStreamChange
    BY <1>8, <1>9, ChangeFacts DEF OnWatchStreamOpen, reads
  <1>10. CASE \E p \in Queries : Commit(p)
    BY <1>8, <1>10, CommitFacts
  <1>11. CASE ServeRequest
    BY <1>8, <1>11, Zenon DEF ServeRequest, reads
  <1>12. CASE ServeSnapshot
    BY <1>8, <1>12, Zenon DEF ServeSnapshot, reads
  <1> QED
    BY <1>3, <1>4, <1>5, <1>6, <1>7, <1>9, <1>10, <1>11, <1>12, Steps

------------------------------------------------------------------------------
(* The inductive invariant. *)
LEMMA Invariance == Spec => []IInv
  <1>1. IInv /\ [Next]_vars => IInv'
    <2> SUFFICES ASSUME IInv, [Next]_vars PROVE IInv'
      OBVIOUS
    <2>1. /\ Types /\ Closed /\ ViewState /\ Bounded /\ PastState /\ DocsOrdered /\ WireState
          /\ SnapshotState /\ TrackerIsConsistent /\ Exact /\ TokenIsHonest /\ GetIsFresh
      BY DEF IInv
    <2>2. Types' /\ Closed' /\ Exact'
      BY <2>1, TypeStep, ClosedStep, ExactStep
    <2>3. ViewState' /\ Bounded' /\ TrackerIsConsistent'
      BY <2>1, ViewStateStep, BoundedStep, TrackerStep
    <2>4. PastState' /\ DocsOrdered'
      BY <2>1, PastStep, DocsOrderedStep
    <2>5. WireState' /\ SnapshotState'
      BY <2>1, <2>4, WireStep, SnapshotStep
    <2>6. TokenIsHonest' /\ GetIsFresh'
      BY <2>1, HonestStep, FreshStep
    <2> QED
      BY <2>2, <2>3, <2>4, <2>5, <2>6 DEF IInv
  <1> QED
    BY <1>1, InitInv, PTL DEF Spec

(* Every variable keeps its type.  That at most two answers per read are outstanding *)
(* holds because a read asks for a target at most once and gives it up at most once. *)
THEOREM TypeCorrect == Spec => []TypeOK
  <1>1. IInv => TypeOK
    BY TypeOKLemma DEF IInv
  <1> QED
    BY <1>1, Invariance, PTL

(* The assertions of online_state_tracker.cc, remote_store.cc and stream.cc hold: the *)
(* timer, the failure count, the idleness timer and the stream fit the online state.  *)
THEOREM TrackerIsConsistentHolds == Spec => []TrackerIsConsistent
  <1>1. IInv => TrackerIsConsistent
    BY DEF IInv
  <1> QED
    BY <1>1, Invariance, PTL

(* The aggregator's count of outstanding answers is exactly what is pending, however *)
(* listens and unlistens of a query overlap (target_state.cc).                       *)
THEOREM OutstandingIsExactHolds == Spec => []OutstandingIsExact
  <1>1. IInv => OutstandingIsExact
    BY ExactIs DEF IInv
  <1> QED
    BY <1>1, Invariance, PTL

(* A resume token never stands for documents that the local store does not have      *)
(* (remote_store.cc, RaiseWatchSnapshot).                                            *)
THEOREM TokenIsHonestHolds == Spec => []TokenIsHonest
  <1>1. IInv => TokenIsHonest
    BY DEF IInv
  <1> QED
    BY <1>1, Invariance, PTL

(* A get that opens its view and is answered by the backend returns nothing older    *)
(* than what the backend had when it was asked (query_listener.cc).                  *)
THEOREM GetIsFreshHolds == Spec => []GetIsFresh
  <1>1. IInv => GetIsFresh
    BY DEF IInv
  <1> QED
    BY <1>1, Invariance, PTL

=============================================================================

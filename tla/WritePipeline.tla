---------------------------- MODULE WritePipeline ----------------------------
(***************************************************************************)
(* The writing half of the Firestore client that the iOS app links         *)
(* (FirebaseFirestoreInternal: sync_engine, local_store, the LevelDB       *)
(* mutation queue, remote_store, stream and write_stream): what happens    *)
(* between an awaited write of the app and its answer.                     *)
(*                                                                         *)
(* All of it runs on one serial worker queue, so that each handler is one  *)
(* step with everything it calls.  The mutation queue of each user is on   *)
(* disk, the rest is in memory.  [wire], [responses], [stray] and          *)
(* [applied] are the network and the backend, which are external.          *)
(***************************************************************************)
EXTENDS FiniteSets, Integers, Sequences, SequencesExt

CONSTANTS
    Users,       \* who may be signed in on the device
    Batches,     \* one element per awaited write of the app
    Bad,         \* the writes that the backend's rules refuse
    MaxPending,  \* kMaxPendingWrites
    MaxFaults    \* bound on failed connections, restarts and sign-ins

ASSUME FiniteAssumption     == IsFiniteSet(Batches)
ASSUME BadAssumption        == Bad \subseteq Batches
ASSUME MessagesAssumption   == {"hello", "refused"} \cap Batches = {}
ASSUME MaxPendingAssumption == MaxPending \in Nat \ {0}
ASSUME MaxFaultsAssumption  == MaxFaults \in Nat

VARIABLES
    queue,      \* per user, the persisted mutation queue: entries [id, batch]
    nextId,     \* next_batch_id_
    callbacks,  \* per user, mutation_callbacks_: entries [id, batch]
    answer,     \* what the caller of each write has seen
    user,       \* current_user_
    stream,     \* state_ of the write stream (Healthy is Open)
    handshake,  \* handshake_complete_
    idle,       \* whether idleness_timer_ runs
    pipeline,   \* write_pipeline_
    wire,       \* requests of the open connection on their way to the backend
    responses,  \* responses of the open connection on their way to the client
    stray,      \* requests of the last closed connection still on their way
    applied,    \* the writes the backend has applied, each time it did
    faults      \* disturbances so far, see MaxFaults

disk    == <<queue>>
client  == <<nextId, callbacks, answer, user, stream, handshake, idle, pipeline>>
network == <<wire, responses, stray, applied>>
vars    == <<disk, client, network, faults>>

StreamStates == {"Initial", "Starting", "Open", "Error", "Backoff"}
Started(s)   == s \in {"Starting", "Open", "Backoff"}

Entries == [id: 1..Cardinality(Batches), batch: Batches]
Content(entries) == [i \in DOMAIN entries |-> entries[i].batch]

TypeOK ==
    /\ queue \in [Users -> Seq(Entries)]
    /\ nextId \in 1..(Cardinality(Batches) + 1)
    /\ callbacks \in [Users -> SUBSET Entries]
    /\ answer \in [Batches -> {"none", "waiting", "ok", "error", "lost"}]
    /\ user \in Users
    /\ stream \in StreamStates
    /\ handshake \in BOOLEAN /\ idle \in BOOLEAN
    /\ pipeline \in Seq(Entries) /\ Len(pipeline) <= MaxPending
    /\ wire \in Seq(Batches \cup {"hello"})
    /\ responses \in Seq(Batches \cup {"hello", "refused"})
    /\ stray \in Seq(Batches)
    /\ applied \in Seq(Batches)
    /\ faults \in 0..MaxFaults

Init ==
    /\ queue = [u \in Users |-> <<>>]
    /\ nextId = 1
    /\ callbacks = [u \in Users |-> {}]
    /\ answer = [b \in Batches |-> "none"]
    /\ user \in Users
    /\ stream = "Initial" /\ handshake = FALSE /\ idle = FALSE
    /\ pipeline = <<>> /\ wire = <<>> /\ responses = <<>>
    /\ stray = <<>> /\ applied = <<>>
    /\ faults = 0

-----------------------------------------------------------------------------
(* Helpers *)

\* One more than the largest id of any user's queued batch (0 if there is none):
\* the id of a batch that is gone may be given again.
LoadNextBatchIdFromDb ==
    1 + Max({0} \cup {e.id : e \in UNION {ToSet(queue[u]) : u \in Users}})

\* The position in queue q of the first batch whose id is larger: LevelDB keeps the
\* batches of a user in the order of their ids.
NextMutationBatchAfter(q, id) == Cardinality({i \in DOMAIN q : q[i].id <= id}) + 1

\* last_batch_id_retrieved, kBatchIdUnknown at first
LastRetrieved(p) == IF p = <<>> THEN -1 ELSE Last(p).id

\* Mutant: the limit is not looked at.
Refill_NoLimit(p, q) == SubSeq(q, NextMutationBatchAfter(q, LastRetrieved(p)), Len(q))

\* Mutant: the search for the next batch starts one id too late.
Refill_Skips(p, q) ==
    LET next == NextMutationBatchAfter(q, LastRetrieved(p) + 1)
    IN  SubSeq(q, next, Min({Len(q), next + MaxPending - Len(p) - 1}))

\* The batches FillWritePipeline adds to pipeline p from the mutation queue q.
Refill(p, q) ==
    LET next == NextMutationBatchAfter(q, LastRetrieved(p))
    IN  SubSeq(q, next, Min({Len(q), next + MaxPending - Len(p) - 1}))

\* The state of a stream in state s after Start.
Start(s) == IF s = "Error" THEN "Backoff" ELSE "Starting"

\* Mutant: a stream that failed while it had nothing to send is not started again.
FillWritePipeline_LeavesFailed(p, q, s, w) ==
    LET more == Refill(p, q)
        send == s = "Open" /\ handshake /\ more # <<>>
    IN  /\ pipeline' = p \o more
        /\ wire' = IF send THEN w \o Content(more) ELSE w
        /\ idle' = (s = "Open" /\ (p \o more = <<>> \/ (idle /\ ~send)))
        /\ stream' = IF p \o more # <<>> /\ s = "Initial" THEN Start(s) ELSE s

\* FillWritePipeline with pipeline p, mutation queue q, stream state s and wire w:
\* adds batches, sends them if the handshake is complete (which cancels the idle
\* timer), marks an open stream idle if there is nothing to send, starts a stopped
\* stream if there is.
FillWritePipeline(p, q, s, w) ==
    LET more == Refill(p, q)
        send == s = "Open" /\ handshake /\ more # <<>>
    IN  /\ pipeline' = p \o more
        /\ wire' = IF send THEN w \o Content(more) ELSE w
        /\ idle' = (s = "Open" /\ (p \o more = <<>> \/ (idle /\ ~send)))
        /\ stream' = IF p \o more # <<>> /\ ~Started(s) THEN Start(s) ELSE s

\* The writes among these requests: the handshake can only be the first.
Writes(w) == IF w # <<>> /\ Head(w) = "hello" THEN Tail(w) ELSE w

\* Mutant: completions of the old connection are still delivered.
Abandon_StillRead ==
    /\ stray' = IF stream = "Open" THEN Writes(wire) ELSE stray
    /\ UNCHANGED responses

\* The requests of a connection that is given up may still reach the backend,
\* unless the backend has already ended it.
Abandon ==
    /\ stray' = IF stream = "Open" /\ "refused" \notin ToSet(responses)
                  THEN Writes(wire) ELSE stray
    /\ responses' = <<>>

\* Mutant: the callback is not erased.
NotifyUser_Keeps(id, result) ==
    /\ answer' = [b \in Batches |->
                    IF b \in {c.batch : c \in {d \in callbacks[user] : d.id = id}}
                      THEN result ELSE answer[b]]
    /\ UNCHANGED callbacks

\* NotifyUser: answers the callback of the batch with this id, if there is one.
NotifyUser(id, result) ==
    LET found == {c \in callbacks[user] : c.id = id}
    IN  /\ answer' = [b \in Batches |->
                        IF b \in {c.batch : c \in found} THEN result ELSE answer[b]]
        /\ callbacks' = [callbacks EXCEPT ![user] = @ \ found]

\* RemoveMutationBatch
Dequeue(q, id) == RemoveFirstMatch(q, LAMBDA e : e.id = id)

-----------------------------------------------------------------------------
(* The app *)

\* WriteMutations: the batch is persisted in the queue of the current user and its
\* callback is kept (an existing one would not be replaced).
WriteMutations(b) ==
    LET entry == [id |-> nextId, batch |-> b]
        q     == Append(queue[user], entry)
    IN  /\ answer[b] = "none"
        /\ queue' = [queue EXCEPT ![user] = q]
        /\ nextId' = nextId + 1
        /\ callbacks' = [callbacks EXCEPT ![user] =
                            IF \E c \in @ : c.id = nextId THEN @ ELSE @ \cup {entry}]
        /\ answer' = [answer EXCEPT ![b] = "waiting"]
        /\ FillWritePipeline(pipeline, q, stream, wire)
        /\ UNCHANGED <<user, handshake, responses, stray, applied, faults>>

\* Mutant: the pipeline is not emptied.
RestartNetwork_KeepsPipeline(q) ==
    /\ Abandon
    /\ handshake' = FALSE
    /\ FillWritePipeline(pipeline, q, "Initial", <<>>)

\* RestartNetwork: both streams stop, the pipeline is emptied and refilled for
\* user u, whose queue is q.
RestartNetwork(q) ==
    /\ Abandon
    /\ handshake' = FALSE
    /\ FillWritePipeline(<<>>, q, "Initial", <<>>)

\* HandleCredentialChange: a sign-in or sign-out (a new user, whose mutation queue
\* is started) or a new token of the same user.
HandleCredentialChange(u) ==
    /\ faults < MaxFaults /\ faults' = faults + 1
    /\ user' = u
    /\ nextId' = IF u = user THEN nextId ELSE LoadNextBatchIdFromDb
    /\ RestartNetwork(queue[u])
    /\ UNCHANGED <<queue, callbacks, answer, applied>>

\* The app is killed and launched again: what is in memory is lost and
\* FirestoreClient::Initialize starts the mutation queue and the network.
Relaunch ==
    /\ faults < MaxFaults /\ faults' = faults + 1
    /\ nextId' = LoadNextBatchIdFromDb
    /\ callbacks' = [u \in Users |-> {}]
    /\ answer' = [b \in Batches |-> IF answer[b] = "waiting" THEN "lost" ELSE answer[b]]
    /\ RestartNetwork(queue[user])
    /\ UNCHANGED <<queue, user, applied>>

-----------------------------------------------------------------------------
(* The write stream *)

\* ResumeStartWithCredentials: the stream counts as open before anything has
\* reached the backend; OnWriteStreamOpen sends the handshake.
ResumeStartWithCredentials ==
    /\ stream = "Starting"
    /\ stream' = "Open"
    /\ wire' = <<"hello">>
    /\ idle' = FALSE
    /\ UNCHANGED <<disk, nextId, callbacks, answer, user, handshake, pipeline,
                   responses, stray, applied, faults>>

\* The first response: OnWriteStreamHandshakeComplete sends the whole pipeline.
OnWriteStreamHandshakeComplete ==
    /\ stream = "Open" /\ responses # <<>> /\ ~handshake
    /\ handshake' = TRUE
    /\ responses' = Tail(responses)
    /\ wire' = wire \o Content(pipeline)
    /\ idle' = (idle /\ pipeline = <<>>)
    /\ UNCHANGED <<disk, nextId, callbacks, answer, user, stream, pipeline,
                   stray, applied, faults>>

\* A later response acknowledges the front of the pipeline, whatever it is for:
\* the caller is answered, the batch leaves the mutation queue, the next one may go.
OnWriteStreamMutationResult ==
    LET batch == Head(pipeline)
        q     == Dequeue(queue[user], batch.id)
    IN  /\ stream = "Open" /\ handshake
        /\ responses # <<>> /\ Head(responses) # "refused"
        /\ pipeline # <<>>
        /\ responses' = Tail(responses)
        /\ NotifyUser(batch.id, "ok")
        /\ queue' = [queue EXCEPT ![user] = q]
        /\ FillWritePipeline(Tail(pipeline), q, stream, wire)
        /\ UNCHANGED <<nextId, user, handshake, stray, applied, faults>>

\* The stream closes with a permanent error: OnWriteStreamClose drops the front of
\* the pipeline and answers its caller, inhibits the backoff and goes on.
HandlePermanentWriteError ==
    LET batch == Head(pipeline)
        q     == Dequeue(queue[user], batch.id)
    IN  /\ stream = "Open" /\ handshake
        /\ responses # <<>> /\ Head(responses) = "refused"
        /\ pipeline # <<>>
        /\ handshake' = FALSE
        /\ Abandon
        /\ NotifyUser(batch.id, "error")
        /\ queue' = [queue EXCEPT ![user] = q]
        /\ FillWritePipeline(Tail(pipeline), q, "Initial", <<>>)
        /\ UNCHANGED <<nextId, user, applied, faults>>

\* The stream closes with a transient error (or no token can be had): the pipeline
\* stays; if there is anything in it, the stream is started again after a backoff.
StreamFails ==
    /\ stream \in {"Starting", "Open"}
    /\ faults < MaxFaults /\ faults' = faults + 1
    /\ Abandon
    /\ wire' = <<>>
    /\ handshake' = FALSE
    /\ idle' = FALSE
    /\ stream' = IF pipeline # <<>> THEN Start("Error") ELSE "Error"
    /\ UNCHANGED <<disk, nextId, callbacks, answer, user, pipeline, applied>>

\* BackoffAndTryRestarting: the backoff elapsed.
BackoffElapsed ==
    /\ stream = "Backoff"
    /\ stream' = Start("Initial")
    /\ UNCHANGED <<disk, nextId, callbacks, answer, user, handshake, idle, pipeline,
                   network, faults>>

\* The idle timer stops the stream.
IdleTimeout ==
    /\ idle
    /\ stream' = "Initial"
    /\ idle' = FALSE
    /\ handshake' = FALSE
    /\ wire' = <<>>
    /\ Abandon
    /\ UNCHANGED <<disk, nextId, callbacks, answer, user, pipeline, applied, faults>>

-----------------------------------------------------------------------------
(* The backend *)

\* It handles the requests of a connection in order, and ends the connection at
\* the first write it refuses.
Live == wire # <<>> /\ "refused" \notin ToSet(responses)

ServeHandshake ==
    /\ Live /\ Head(wire) = "hello"
    /\ wire' = Tail(wire)
    /\ responses' = Append(responses, "hello")
    /\ UNCHANGED <<disk, client, stray, applied, faults>>

ServeWrite ==
    /\ Live /\ Head(wire) # "hello"
    /\ wire' = Tail(wire)
    /\ IF Head(wire) \in Bad
         THEN /\ responses' = Append(responses, "refused")
              /\ UNCHANGED applied
         ELSE /\ responses' = Append(responses, Head(wire))
              /\ applied' = Append(applied, Head(wire))
    /\ UNCHANGED <<disk, client, stray, faults>>

ServeStray ==
    /\ stray # <<>>
    /\ IF Head(stray) \in Bad
         THEN stray' = <<>> /\ UNCHANGED applied
         ELSE stray' = Tail(stray) /\ applied' = Append(applied, Head(stray))
    /\ UNCHANGED <<disk, client, wire, responses, faults>>

-----------------------------------------------------------------------------

ClientStep ==
    \/ ResumeStartWithCredentials
    \/ OnWriteStreamHandshakeComplete
    \/ OnWriteStreamMutationResult
    \/ HandlePermanentWriteError
    \/ BackoffElapsed
    \/ IdleTimeout

Next ==
    \/ \E b \in Batches : WriteMutations(b)
    \/ \E u \in Users : HandleCredentialChange(u)
    \/ Relaunch
    \/ ClientStep
    \/ StreamFails
    \/ ServeHandshake \/ ServeWrite \/ ServeStray

Spec == Init /\ [][Next]_vars

\* The worker queue runs what is enqueued, timers fire, and the backend answers on
\* a connection that stays open.
FairSpec == Spec /\ WF_vars(ClientStep) /\ WF_vars(ServeHandshake \/ ServeWrite)

-----------------------------------------------------------------------------
(* Properties *)

\* remote_store.cc and leveldb_mutation_queue.cc assert it at many places: the
\* pipeline is the head of the signed-in user's mutation queue, and while it holds
\* anything the stream is started, not idle, and not stopped as unneeded.
PipelineIsHeadOfQueue ==
    /\ IsPrefix(pipeline, queue[user])
    /\ pipeline # <<>> => Started(stream) /\ ~idle
    /\ idle => stream = "Open" /\ handshake

\* A response carries no batch id: OnWriteStreamMutationResult takes the front of
\* the pipeline for it.  It is the batch that the backend answered, also after
\* reconnects, restarts and a change of user.
AnswerIsForFront ==
    /\ handshake /\ responses # <<>> =>
        /\ pipeline # <<>>
        /\ Head(responses) \in {"refused", Head(pipeline).batch}
        /\ Head(responses) = "refused" => Head(pipeline).batch \in Bad

\* Batch ids are given again, after a launch and also after a change of user, while
\* callbacks of earlier users stay in memory: a callback still belongs to the
\* queued write it was registered for, and a waiting caller always has one.
CallbackIsOwn ==
    /\ \A u \in Users : callbacks[u] \subseteq ToSet(queue[u])
    /\ \A b \in Batches :
        answer[b] = "waiting" <=> \E u \in Users : \E c \in callbacks[u] : c.batch = b

Service == INSTANCE WriteService WITH
    pending <- [u \in Users |-> Content(queue[u])],
    applied <- ToSet(applied)

\* The client keeps the promise of WriteService to the app's awaits, over lost,
\* repeated and late requests, restarts, launches and changes of user.
ImplementsService == Service!Spec

\* A persisted write is resolved in the end, also one whose caller died with an
\* earlier launch, unless its user signs out.
QueueDrains == \A u \in Users, b \in Batches :
    b \in ToSet(Content(queue[u])) /\ user = u ~>
        b \notin ToSet(Content(queue[u])) \/ user # u

=============================================================================

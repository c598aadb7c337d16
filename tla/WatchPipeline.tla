---------------------------- MODULE WatchPipeline ----------------------------
(***************************************************************************)
(* The reading half of the Firestore client that the iOS app links         *)
(* (FirebaseFirestoreInternal: query_core, event_manager, query_listener,  *)
(* sync_engine, view, local_store, remote_store, remote_event, stream and  *)
(* online_state_tracker): what happens between a get() or a snapshots()    *)
(* stream of the app and what it is shown.                                 *)
(*                                                                         *)
(* All of it runs on one serial worker queue, so that each handler is one  *)
(* step with everything it calls.  The documents of a query are one value, *)
(* the number of the commit that last changed them.  [requests],           *)
(* [responses], [sent], [reported] and [lastWrite] are the network and the *)
(* backend, which are external.                                            *)
(***************************************************************************)
EXTENDS FiniteSets, Integers, Sequences, SequencesExt

CONSTANTS
    Queries,     \* the documents and collections that are read
    Reads,       \* get() calls and snapshots() streams, each made once
    Streams,     \* those of Reads that are streams
    QueryOf,     \* the query of each read
    MaxCommits,  \* bound on the changes made on other devices
    MaxFaults    \* bound on failed connections and restarts

ASSUME FiniteAssumption == IsFiniteSet(Queries) /\ IsFiniteSet(Reads)
ASSUME ReadsAssumption  == Streams \subseteq Reads /\ QueryOf \in [Reads -> Queries]
ASSUME BoundsAssumption == MaxCommits \in Nat /\ MaxFaults \in Nat

VARIABLES
    lastWrite,   \* per query, the commit that last changed it on the backend
    cache,       \* per query, the value of its documents in the local store
    token,       \* per query, the snapshot version its resume token stands for
    view,        \* per query, its View: absent, from cache or synced
    phase,       \* where each read is
    result,      \* what each read was last shown
    online,      \* OnlineStateTracker: state_,
    timer,       \*   whether online_state_timer_ runs,
    failed,      \*   watch_stream_failures_ # 0
    stream,      \* state_ of the watch stream (Healthy is Open)
    idle,        \* whether its idleness_timer_ runs
    target,      \* per query, its TargetState in the WatchChangeAggregator
    requests,    \* of the open connection, on their way to the backend
    responses,   \* of the open connection, on their way to the client
    sent,        \* per query, the commit up to which the connection got changes
    reported,    \* the targets that the backend called current
    floor,       \* history: what a get that opened its view must not be below
    faults       \* disturbances so far, see MaxFaults

tracker  == <<online, timer, failed>>
backend  == <<sent, reported>>
store    == <<cache, token>>
reads    == <<phase, result, floor>>
vars     == <<lastWrite, store, view, reads, tracker, stream, idle, target,
              requests, responses, backend, faults>>

Commits  == 0..MaxCommits
Off      == -1  \* not watched
NoTarget == [outstanding |-> 0, current |-> FALSE, doc |-> 0]

Requests  == [type: {"watch", "unwatch"}, query: Queries, from: Commits]
Responses == [type: {"added", "removed", "doc", "current", "snapshot"},
              queries: SUBSET Queries, version: Commits]

TypeOK ==
    /\ lastWrite \in [Queries -> Commits]
    /\ cache \in [Queries -> Commits] /\ token \in [Queries -> Commits]
    /\ view \in [Queries -> {"none", "local", "synced"}]
    /\ phase \in [Reads -> {"unasked", "waiting", "shown", "gone"}]
    /\ result \in [Reads -> [value: Commits, fromCache: BOOLEAN]]
    /\ online \in {"Unknown", "Online", "Offline"}
    /\ timer \in BOOLEAN /\ failed \in BOOLEAN /\ idle \in BOOLEAN
    /\ stream \in {"Initial", "Starting", "Open", "Error", "Backoff"}
    /\ target \in [Queries -> [outstanding: 0..(2 * Cardinality(Reads)),
                               current: BOOLEAN, doc: Commits]]
    /\ requests \in Seq(Requests) /\ responses \in Seq(Responses)
    /\ sent \in [Queries -> Commits \cup {Off}]
    /\ reported \subseteq Queries
    /\ floor \in [Reads -> Commits]
    /\ faults \in 0..MaxFaults

Init ==
    /\ lastWrite = [q \in Queries |-> 0]
    /\ cache = [q \in Queries |-> 0] /\ token = [q \in Queries |-> 0]
    /\ view = [q \in Queries |-> "none"]
    /\ phase = [r \in Reads |-> "unasked"]
    /\ result = [r \in Reads |-> [value |-> 0, fromCache |-> TRUE]]
    /\ online = "Unknown" /\ timer = FALSE /\ failed = FALSE
    /\ stream = "Initial" /\ idle = FALSE
    /\ target = [q \in Queries |-> NoTarget]
    /\ requests = <<>> /\ responses = <<>>
    /\ sent = [q \in Queries |-> Off] /\ reported = {}
    /\ floor = [r \in Reads |-> 0]
    /\ faults = 0

-----------------------------------------------------------------------------
(* Helpers *)

Started(s)   == s \in {"Starting", "Open", "Backoff"}
Listeners(q) == {r \in Reads : QueryOf[r] = q /\ phase[r] \in {"waiting", "shown"}}
Listened(v)  == {q \in Queries : v[q] # "none"}  \* listen_targets_

\* The state of a stream in state s after Start.
Start(s) == IF s = "Error" THEN "Backoff" ELSE "Starting"

\* Mutant: listens of another generation are not told apart.
IsActiveTarget_Any(q) == view[q] # "none"

\* IsActiveTarget: listened to, with no answer to a request outstanding.
IsActiveTarget(q) == view[q] # "none" /\ target[q].outstanding = 0

\* Mutant: an inactive target gets the token, but not its documents.
Tokens_OfAll(version) ==
    [q \in Queries |-> IF view[q] # "none" THEN version ELSE token[q]]

\* The resume tokens after a snapshot.
Tokens(version) == [q \in Queries |-> IF IsActiveTarget(q) THEN version ELSE token[q]]

\* Mutant: the request is sent and not recorded.
SendRequest_Unrecorded(type, q, from) ==
    /\ requests' = Append(requests, [type |-> type, query |-> q, from |-> from])
    /\ UNCHANGED target

\* SendWatchRequest and SendUnwatchRequest: record that an answer is due, and send.
SendRequest(type, q, from) ==
    /\ requests' = Append(requests, [type |-> type, query |-> q, from |-> from])
    /\ target' = [target EXCEPT ![q].outstanding = @ + 1]

\* Mutant: the aggregator outlives the connection.
DropConnection_KeepsTargets ==
    /\ requests' = <<>> /\ responses' = <<>>
    /\ sent' = [q \in Queries |-> Off] /\ reported' = {}
    /\ UNCHANGED target

\* The connection and the aggregator are dropped.
DropConnection ==
    /\ target' = [q \in Queries |-> NoTarget]
    /\ requests' = <<>> /\ responses' = <<>>
    /\ sent' = [q \in Queries |-> Off] /\ reported' = {}

\* ShouldRaiseInitialEvent, for a view that is synced or not and an online state:
\* a get waits for the sync unless the client is offline, a stream also takes
\* cached documents.
ShouldRaiseInitialEvent(r, synced, state) ==
    \/ synced
    \/ state = "Offline"
    \/ r \in Streams /\ (cache[QueryOf[r]] # 0 \/ token[QueryOf[r]] # 0)

\* The reads in rs are shown the values of c, from views v.
Raise(rs, c, v) ==
    /\ phase' = [r \in Reads |-> IF r \in rs THEN "shown" ELSE phase[r]]
    /\ result' = [r \in Reads |-> IF r \in rs
                    THEN [value |-> c[QueryOf[r]],
                          fromCache |-> v[QueryOf[r]] # "synced"]
                    ELSE result[r]]

\* SetAndBroadcast(Offline): the views are no longer current and every read that
\* waits is given what the cache has.
GoOffline ==
    /\ online' = "Offline"
    /\ view' = [q \in Queries |-> IF view[q] = "synced" THEN "local" ELSE view[q]]
    /\ Raise({r \in Reads : phase[r] = "waiting"}, cache, view')

\* Mutant: ClearOnlineStateTimer is forgotten.
UpdateState_KeepsTimer(state) == online' = state /\ failed' = FALSE /\ UNCHANGED timer

\* UpdateState(state), for a state that is not Offline.
UpdateState(state) == online' = state /\ timer' = FALSE /\ failed' = FALSE

\* StartWatchStream of a stream in state s when no failure is counted:
\* HandleWatchStreamStart starts the timer.
FirstStart(s) ==
    /\ stream' = Start(s)
    /\ online' = "Unknown" /\ timer' = TRUE /\ failed' = FALSE

-----------------------------------------------------------------------------
(* The app *)

\* AddQueryListener.  The first listener of a query opens a view on the cache and a
\* target (on a started stream that is not open nothing is sent yet), a later one
\* takes the view's last snapshot.
Get(r) ==
    LET q     == QueryOf[r]
        first == view[q] = "none"
    IN  /\ phase[r] = "unasked"
        /\ floor' = [floor EXCEPT ![r] = IF first THEN lastWrite[q] ELSE 0]
        /\ IF ShouldRaiseInitialEvent(r, view[q] = "synced", online)
             THEN Raise({r}, cache, view)
             ELSE phase' = [phase EXCEPT ![r] = "waiting"] /\ UNCHANGED result
        /\ view' = [view EXCEPT ![q] = IF first THEN "local" ELSE @]
        /\ IF first /\ ~Started(stream)
             THEN FirstStart(stream)
             ELSE UNCHANGED <<stream, tracker>>
        /\ IF first /\ stream = "Open"
             THEN SendRequest("watch", q, token[q]) /\ idle' = FALSE
             ELSE UNCHANGED <<target, requests, idle>>
        /\ UNCHANGED <<lastWrite, store, responses, backend, faults>>

\* A page with a stream is left, or the removal that an answered get has enqueued
\* runs: RemoveQueryListener.  The last listener takes the view and the target with
\* it; without targets an open stream turns idle, and one that is not open leaves
\* the online state unknown.
RemoveQueryListener(r) ==
    LET q    == QueryOf[r]
        last == Listeners(q) = {r}
    IN  /\ phase[r] = "shown" \/ (r \in Streams /\ phase[r] = "waiting")
        /\ phase' = [phase EXCEPT ![r] = "gone"]
        /\ view' = [view EXCEPT ![q] = IF last THEN "none" ELSE @]
        /\ IF last /\ stream = "Open"
             THEN SendRequest("unwatch", q, 0) /\ idle' = (Listened(view') = {})
             ELSE UNCHANGED <<target, requests, idle>>
        /\ IF last /\ stream # "Open" /\ Listened(view') = {}
             THEN UpdateState("Unknown")
             ELSE UNCHANGED tracker
        /\ UNCHANGED <<lastWrite, store, result, floor, stream, responses, backend, faults>>

\* RestartNetwork, when the connectivity or the credentials change.
RestartNetwork ==
    /\ faults < MaxFaults /\ faults' = faults + 1
    /\ DropConnection
    /\ idle' = FALSE
    /\ IF Listened(view) # {}
         THEN FirstStart("Initial")
         ELSE stream' = "Initial" /\ UpdateState("Unknown")
    /\ UNCHANGED <<lastWrite, store, view, reads>>

-----------------------------------------------------------------------------
(* The watch stream and the online state *)

\* ResumeStartWithCredentials: the stream counts as open before anything has
\* reached the backend; OnWatchStreamOpen sends the targets (in any order).
OnWatchStreamOpen ==
    LET order == SetToSeq(Listened(view))
    IN  /\ stream = "Starting"
        /\ stream' = "Open"
        /\ requests' = [i \in DOMAIN order |->
                [type |-> "watch", query |-> order[i], from |-> token[order[i]]]]
        /\ target' = [q \in Queries |-> IF q \in Listened(view)
                        THEN [target[q] EXCEPT !.outstanding = @ + 1] ELSE target[q]]
        /\ UNCHANGED <<lastWrite, store, view, reads, tracker, idle, responses,
                       backend, faults>>

\* The stream ends with an error (or no token can be had).  OnWatchStreamClose: if
\* there are targets the tracker counts the failure, the first one that follows a
\* time online excepted, and the stream is started again, after a backoff.
StreamFails ==
    /\ stream \in {"Starting", "Open"}
    /\ faults < MaxFaults /\ faults' = faults + 1
    /\ DropConnection
    /\ idle' = FALSE
    /\ IF Listened(view) = {}
         THEN /\ stream' = "Error"
              /\ UpdateState("Unknown")
              /\ UNCHANGED <<view, phase, result>>
         ELSE IF online = "Online"
         THEN /\ FirstStart("Error")
              /\ UNCHANGED <<view, phase, result>>
         ELSE /\ stream' = Start("Error")
              /\ failed' = TRUE /\ timer' = FALSE
              /\ GoOffline
    /\ UNCHANGED <<lastWrite, store, floor>>

\* BackoffAndTryRestarting: the backoff elapsed and the stream calls its own Start.
BackoffElapsed ==
    /\ stream = "Backoff"
    /\ stream' = Start("Initial")
    /\ UNCHANGED <<lastWrite, store, view, reads, tracker, idle, target, requests,
                   responses, backend, faults>>

\* The idle timer stops the stream.
IdleTimeout ==
    /\ idle
    /\ idle' = FALSE
    /\ stream' = "Initial"
    /\ DropConnection
    /\ UpdateState("Unknown")
    /\ UNCHANGED <<lastWrite, store, view, reads, faults>>

\* kOnlineStateTimeout has passed without an answer of the backend.
OnlineStateTimeout ==
    /\ timer
    /\ timer' = FALSE
    /\ GoOffline
    /\ UNCHANGED <<lastWrite, store, floor, failed, stream, idle, target, requests,
                   responses, backend, faults>>

\* HandleTargetChange and HandleDocumentChange: what the aggregator makes of message
\* m.  While answers are outstanding, what arrives is of an earlier listen.
TargetAfter(q, m) ==
    LET t == target[q]
    IN  IF q \notin m.queries THEN t ELSE
        CASE m.type = "added"   -> [t EXCEPT !.outstanding = @ - 1]
        []   m.type = "removed" -> IF t.outstanding = 1 THEN [NoTarget EXCEPT !.doc = t.doc]
                                   ELSE [t EXCEPT !.outstanding = @ - 1]
        []   m.type = "doc"     -> IF IsActiveTarget(q) THEN [t EXCEPT !.doc = m.version] ELSE t
        []   m.type = "current" -> IF IsActiveTarget(q) THEN [t EXCEPT !.current = TRUE] ELSE t

\* OnWatchStreamChange for a message without a snapshot version.
OnWatchStreamChange ==
    LET m == Head(responses)
    IN  /\ stream = "Open" /\ responses # <<>> /\ m.type # "snapshot"
        /\ responses' = Tail(responses)
        /\ UpdateState("Online")
        /\ target' = [q \in Queries |-> TargetAfter(q, m)]
        /\ UNCHANGED <<lastWrite, store, view, reads, stream, idle, requests, backend, faults>>

\* OnWatchStreamChange for a global snapshot: RaiseWatchSnapshot gives the local
\* store what the aggregator holds and the resume token of each active target, and
\* the views of those targets whether they are current.
RaiseWatchSnapshot ==
    LET m     == Head(responses)
        Moved(q) == cache'[q] # cache[q]
        ready == {r \in Reads : LET q == QueryOf[r] IN
            \/ phase[r] = "waiting" /\ r \notin Streams /\ view'[q] = "synced"
            \/ phase[r] = "waiting" /\ r \in Streams /\ (IsActiveTarget(q) \/ Moved(q))
            \/ phase[r] = "shown" /\ r \in Streams /\ Moved(q)}
    IN  /\ stream = "Open" /\ responses # <<>> /\ m.type = "snapshot"
        /\ responses' = Tail(responses)
        /\ UpdateState("Online")
        /\ cache' = [q \in Queries |-> Max({cache[q], target[q].doc})]
        /\ token' = Tokens(m.version)
        /\ target' = [q \in Queries |-> [target[q] EXCEPT !.doc = 0]]
        /\ view' = [q \in Queries |->
                IF ~IsActiveTarget(q) THEN view[q]
                ELSE IF target[q].current THEN "synced" ELSE "local"]
        /\ Raise(ready, cache', view')
        /\ UNCHANGED <<lastWrite, floor, stream, idle, requests, backend, faults>>

-----------------------------------------------------------------------------
(* The backend and the other devices *)

\* A document of q is changed on another device.
Commit(q) ==
    LET now == Max({lastWrite[p] : p \in Queries}) + 1
    IN  /\ now <= MaxCommits
        /\ lastWrite' = [lastWrite EXCEPT ![q] = now]
        /\ UNCHANGED <<store, view, reads, tracker, stream, idle, target, requests,
                       responses, backend, faults>>

Message(type, qs, version) == [type |-> type, queries |-> qs, version |-> version]

\* It acknowledges the watch and unwatch requests of a connection in order.
ServeRequest ==
    LET m == Head(requests)
    IN  /\ requests # <<>>
        /\ requests' = Tail(requests)
        /\ sent' = [sent EXCEPT ![m.query] = IF m.type = "watch" THEN m.from ELSE Off]
        /\ reported' = reported \ {m.query}
        /\ responses' = responses \o
                <<Message(IF m.type = "watch" THEN "added" ELSE "removed", {m.query}, 0)>>
        /\ UNCHANGED <<lastWrite, store, view, reads, tracker, stream, idle, target, faults>>

\* It sends the changes of all targets of the connection since it last did, says of
\* new ones that they are current, and closes with the version all of that is of.
ServeSnapshot ==
    LET watched == {q \in Queries : sent[q] # Off}
        behind  == {q \in watched : lastWrite[q] > sent[q]}
        docs    == SetToSeq(behind)
        now     == Max({lastWrite[q] : q \in Queries})
    IN  /\ behind # {} \/ watched \ reported # {}
        /\ responses' = responses
                \o [i \in DOMAIN docs |-> Message("doc", {docs[i]}, lastWrite[docs[i]])]
                \o (IF watched \ reported # {}
                      THEN <<Message("current", watched \ reported, 0)>> ELSE <<>>)
                \o <<Message("snapshot", {}, now)>>
        /\ sent' = [q \in Queries |-> IF q \in watched THEN now ELSE Off]
        /\ reported' = watched
        /\ UNCHANGED <<lastWrite, store, view, reads, tracker, stream, idle, target,
                       requests, faults>>

-----------------------------------------------------------------------------

ClientStep ==
    \/ OnWatchStreamOpen
    \/ OnWatchStreamChange
    \/ RaiseWatchSnapshot
    \/ BackoffElapsed
    \/ OnlineStateTimeout
    \/ IdleTimeout

Next ==
    \/ \E r \in Reads : Get(r) \/ RemoveQueryListener(r)
    \/ ClientStep
    \/ StreamFails
    \/ RestartNetwork
    \/ \E q \in Queries : Commit(q)
    \/ ServeRequest \/ ServeSnapshot

Spec == Init /\ [][Next]_vars

\* The worker queue runs what is enqueued, timers fire, and the backend answers on
\* a connection that stays open.
FairSpec == Spec /\ WF_vars(ClientStep) /\ WF_vars(ServeRequest \/ ServeSnapshot)

-----------------------------------------------------------------------------
(* Properties *)

\* The assertions of online_state_tracker.cc, remote_store.cc and stream.cc: the
\* timer runs only in state Unknown and before any failure, the client is online
\* only on an open stream, an idle stream has no targets, and targets have a stream.
TrackerIsConsistent ==
    /\ timer => online = "Unknown" /\ ~failed
    /\ failed => online = "Offline" /\ Started(stream)
    /\ online = "Online" => stream = "Open"
    /\ idle => stream = "Open" /\ Listened(view) = {}
    /\ Listened(view) # {} => Started(stream)

\* outstanding_responses_ is exactly the requests of the target on the wire and the
\* unread answers to them, however the listens of a query overlap.
OutstandingIsExact == \A q \in Queries :
    target[q].outstanding =
        Cardinality({i \in DOMAIN requests : requests[i].query = q})
      + Cardinality({i \in DOMAIN responses :
            responses[i].type \in {"added", "removed"} /\ q \in responses[i].queries})

\* A resume token is only kept with the documents it stands for: the backend skips
\* what is older than the token, so that a gap would never be filled.
TokenIsHonest == \A q \in Queries : lastWrite[q] <= token[q] => cache[q] = lastWrite[q]

\* A get that opens its view and is not answered from the cache returns nothing
\* older than what the backend had when it was asked, although answers to earlier
\* listens of the query may still be on their way.
GetIsFresh == \A r \in Reads \ Streams :
    phase[r] \in {"shown", "gone"} /\ ~result[r].fromCache => result[r].value >= floor[r]

\* Every get is answered, from the backend or from the cache.
GetIsAnswered == \A r \in Reads \ Streams : phase[r] = "waiting" ~> phase[r] # "waiting"

=============================================================================

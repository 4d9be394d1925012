--------------------------- MODULE FirestoreWrites ---------------------------
(***************************************************************************)
(* How a write leaves the device: the write path of the Firestore client   *)
(* in Pods/FirebaseFirestore (SyncEngine, LocalStore's mutation queue,     *)
(* RemoteStore's write pipeline, Stream and WriteStream) with the token    *)
(* requests that open a stream (FirebaseCredentialsProvider, FIRAuth).     *)
(*                                                                         *)
(* Everything in "client" is memory of the worker queue, which runs one    *)
(* operation at a time: an action here is one operation of that queue, and *)
(* the operators below are the methods it calls.  "queue" is the table of  *)
(* mutations in LevelDB.  Three serial queues meet when an account signs   *)
(* in or out: FIRAuth's, the main queue and the worker queue.              *)
(*                                                                         *)
(* The server (external) reads a stream in order, commits or refuses each  *)
(* write and ends the stream at a refusal.  It is taken for granted that   *)
(* it never ends a stream with OK while writes wait (the HARD_ASSERT of    *)
(* OnWriteStreamClose) and that its answers can be parsed.  All writes go  *)
(* to one document, which shows the last write committed.  Stream tokens   *)
(* are left out: nothing is decided on them, and the handshake does not    *)
(* send one.                                                               *)
(***************************************************************************)
EXTENDS Integers, Sequences, FiniteSets

CONSTANTS Users,              \* accounts, the signed-out one included
          kMaxPendingWrites,  \* the longest write pipeline
          MaxWrites,          \* bound on the writes of the app
          MaxTroubles,        \* bound on broken streams, failed token requests, changes of
                              \* network and account, and launches, together
          MaxEvents,          \* bound on writes and troubles together
          NoStream            \* no call to the server is open

ASSUME UsersAssumption == Users # {}

ASSUME PipelineAssumption == kMaxPendingWrites \in Nat \ {0}

ASSUME BoundsAssumption == MaxWrites \in Nat /\ MaxTroubles \in Nat /\ MaxEvents \in Nat

VARIABLES queue,      \* mutation batches in LevelDB, per account, oldest first
          client,     \* SyncEngine, RemoteStore and WriteStream
          authUser,   \* FIRAuth's _currentUser
          provider,   \* FirebaseCredentialsProvider: user and token_counter
          fetching,   \* token requests FIRAuth is working on
          mainQueue,  \* blocks dispatched to the main queue
          workQueue,  \* credential changes and tokens on the worker queue
          doc,        \* the write the server's document shows
          committed, refused,  \* history: writes the server committed, refused
          author,     \* history: the account each write was filed under
          told,       \* history: what the completion of each write was given
          written, troubles

server == <<doc, committed, refused>>
auth == <<authUser, provider, fetching, mainQueue>>
history == <<author, told>>
bounds == <<written, troubles>>
vars == <<queue, client, auth, workQueue, server, history, bounds>>

Writes == 1..MaxWrites
Batch == [id : Nat, w : Writes]
State == {"Initial", "Starting", "Open", "Error", "Backoff"}

\* One gRPC call: the account of its token, the requests the server has not
\* read (0 is the handshake) and the answers the client has not read.
Hello == 0
Answer == [kind : {"hello", "committed", "refused"}, w : {Hello} \cup Writes]
Call == [user : Users, requests : Seq({Hello} \cup Writes), answers : Seq(Answer)]

ASSUME NoStreamAssumption == NoStream \notin Users /\ NoStream \notin Call

\* A GetToken request remembers close_count_ and token_counter.
Request == [close : Nat, counter : Nat]

ClientType ==
  [user : Users,                  \* current_user_
   next : Nat,                    \* next_batch_id_
   callbacks : [Users -> SUBSET Batch],  \* mutation_callbacks_
   pipe : Seq(Batch),             \* write_pipeline_
   enabled : BOOLEAN,             \* is_network_enabled_
   stream : State,                \* state_
   shake : BOOLEAN,               \* handshake_complete_
   idle : BOOLEAN,                \* idleness_timer_ is running
   timer : BOOLEAN,               \* the backoff timer is running
   closes : Nat,                  \* close_count_
   asks : Seq(Request),           \* GetToken calls FIRAuth has not read
   call : Call \cup {NoStream},   \* grpc_stream_
   sound : BOOLEAN]               \* no HARD_ASSERT has failed

TypeOK ==
  /\ queue \in [Users -> Seq(Batch)]
  /\ client \in ClientType
  /\ authUser \in Users
  /\ provider \in [user : Users, counter : Nat]
  /\ fetching \in SUBSET [close : Nat, counter : Nat, user : Users]
  /\ mainQueue \in Seq([kind : {"notice"}, user : Users]
                       \cup [kind : {"token", "noToken"}, user : Users,
                             close : Nat, counter : Nat])
  /\ workQueue \in Seq([kind : {"change"}, user : Users]
                       \cup [kind : {"token", "noToken"}, user : Users, close : Nat])
  /\ doc \in {0} \cup Writes
  /\ committed \in SUBSET Writes
  /\ refused \in SUBSET Writes
  /\ author \in [Writes -> Users \cup {NoStream}]
  /\ told \in [Writes -> {"nothing", "ok", "failed"}]
  /\ written \in 0..MaxWrites
  /\ troubles \in 0..MaxTroubles

-----------------------------------------------------------------------------
(* Stream                                                                  *)

IsStarted(c) == c.stream \in {"Starting", "Backoff", "Open"}

RequestCredentials(c) ==
  [c EXCEPT !.asks = Append(@, [close |-> c.closes, counter |-> provider.counter])]

\* After an error the stream waits before it tries again.
Start(c) ==
  IF c.stream = "Error"
  THEN [c EXCEPT !.stream = "Backoff", !.timer = TRUE]
  ELSE RequestCredentials([c EXCEPT !.stream = "Starting",
                                    !.sound = @ /\ c.stream = "Initial"])

InhibitBackoff(c) ==
  [c EXCEPT !.stream = "Initial", !.sound = @ /\ ~IsStarted(c)]

MarkIdle(c) == IF c.stream = "Open" THEN [c EXCEPT !.idle = TRUE] ELSE c

\* Close up to the call of the delegate; every timer is cancelled and every
\* token request made so far is void.
Close(c, state) ==
  [c EXCEPT !.sound = @ /\ IsStarted(c),
            !.idle = FALSE,
            !.timer = FALSE,
            !.closes = @ + 1,
            !.call = NoStream,
            !.stream = state]

Send(c, requests) ==
  [c EXCEPT !.sound = @ /\ c.stream = "Open",
            !.idle = FALSE,
            !.call.requests = @ \o requests]

-----------------------------------------------------------------------------
(* RemoteStore                                                             *)

ShouldStartWriteStream(c) == c.enabled /\ ~IsStarted(c) /\ c.pipe # <<>>

StartIfNeeded(c) == IF ShouldStartWriteStream(c) THEN Start(c) ELSE c

\* WriteStream::WriteMutations, once per batch.
WriteMutations(c, batches) ==
  Send([c EXCEPT !.sound = @ /\ c.shake], [i \in DOMAIN batches |-> batches[i].w])

\* The batches of q behind the one with this id, as many as fit.
NextBatches(q, id, room) ==
  LET seen == Cardinality({i \in DOMAIN q : q[i].id <= id})
      last == IF seen + room < Len(q) THEN seen + room ELSE Len(q)
  IN  SubSeq(q, seen + 1, last)

\* Mutant: what is added while the stream is open is not sent.
FillSilently(c, q) ==
  LET lastRetrieved == IF c.pipe = <<>> THEN -1 ELSE c.pipe[Len(c.pipe)].id
      room == IF c.enabled THEN kMaxPendingWrites - Len(c.pipe) ELSE 0
      filled == [c EXCEPT !.pipe = @ \o NextBatches(q, lastRetrieved, room)]
  IN  StartIfNeeded(IF filled.pipe = <<>> THEN MarkIdle(filled) ELSE filled)

FillWritePipeline(c, q) ==
  LET lastRetrieved == IF c.pipe = <<>> THEN -1 ELSE c.pipe[Len(c.pipe)].id
      room == IF c.enabled THEN kMaxPendingWrites - Len(c.pipe) ELSE 0
      batches == NextBatches(q, lastRetrieved, room)
      filled == [c EXCEPT !.pipe = @ \o batches]
  IN  StartIfNeeded(
        IF c.stream = "Open" /\ c.shake /\ batches # <<>>
        THEN WriteMutations(filled, batches)
        ELSE IF filled.pipe = <<>> THEN MarkIdle(filled) ELSE filled)

\* Mutant: the handshake is not forgotten.
StopKeepsHandshake(c) ==
  IF ~IsStarted(c) THEN c
  ELSE LET closed == Close(c, "Initial")
       IN  [closed EXCEPT !.sound = @ /\ ~ShouldStartWriteStream(closed)]

\* Stop: a graceful Close, whose delegate finds nothing to do.
Stop(c) ==
  IF ~IsStarted(c) THEN c
  ELSE LET closed == Close(c, "Initial")
       IN  [closed EXCEPT !.sound = @ /\ ~ShouldStartWriteStream(closed),
                          !.shake = FALSE]

DisableNetworkInternal(c) ==
  [Stop([c EXCEPT !.enabled = FALSE]) EXCEPT !.pipe = <<>>]

RestartNetwork(c, q) ==
  FillWritePipeline([InhibitBackoff(DisableNetworkInternal(c)) EXCEPT !.enabled = TRUE], q)

-----------------------------------------------------------------------------
(* The local store and the app.                                            *)

Ids(q) == {q[i].id : i \in DOMAIN q}

\* Mutant: the ids start over with every launch.
FirstBatchId == 1

\* LevelDbMutationQueue::Start looks at the queues of all accounts.
LoadNextBatchId ==
  LET used == {0} \cup UNION {Ids(queue[u]) : u \in Users}
  IN  1 + (CHOOSE n \in used : \A k \in used : k <= n)

Place(q, id) == CHOOSE i \in DOMAIN q : q[i].id = id

\* Mutant: the row behind the key is deleted.
RemoveNext(q, id) ==
  IF id + 1 \notin Ids(q) THEN q
  ELSE SubSeq(q, 1, Place(q, id + 1) - 1) \o SubSeq(q, Place(q, id + 1) + 1, Len(q))

Remove(q, id) ==
  IF id \notin Ids(q) THEN q
  ELSE SubSeq(q, 1, Place(q, id) - 1) \o SubSeq(q, Place(q, id) + 1, Len(q))

\* Memory after a launch, before RemoteStore::Start.
Fresh(user, next) ==
  [user |-> user, next |-> next, callbacks |-> [u \in Users |-> {}], pipe |-> <<>>,
   enabled |-> FALSE, stream |-> "Initial", shake |-> FALSE, idle |-> FALSE,
   timer |-> FALSE, closes |-> 0, asks |-> <<>>, call |-> NoStream, sound |-> TRUE]

EnableNetwork(c, q) == FillWritePipeline([c EXCEPT !.enabled = TRUE], q)

\* The first launch, with an empty database.
Init ==
  /\ queue = [u \in Users |-> <<>>]
  /\ authUser \in Users
  /\ provider = [user |-> authUser, counter |-> 0]
  /\ client = EnableNetwork(Fresh(authUser, 1), <<>>)
  /\ fetching = {} /\ mainQueue = <<>> /\ workQueue = <<>>
  /\ doc = 0 /\ committed = {} /\ refused = {}
  /\ author = [w \in Writes |-> NoStream]
  /\ told = [w \in Writes |-> "nothing"]
  /\ written = 0 /\ troubles = 0

\* SyncEngine::WriteMutations: the write is filed under current_user_.
Write ==
  /\ written < MaxWrites /\ written + troubles < MaxEvents
  /\ LET w == written + 1
         u == client.user
         batch == [id |-> client.next, w |-> w]
     IN  /\ queue' = [queue EXCEPT ![u] = Append(@, batch)]
         /\ client' = FillWritePipeline([client EXCEPT !.next = @ + 1,
                                                       !.callbacks[u] = @ \cup {batch}],
                                        queue'[u])
         /\ author' = [author EXCEPT ![w] = u]
         /\ written' = w
  /\ UNCHANGED <<auth, workQueue, server, told, troubles>>

\* NotifyUser: the completion registered for this id runs, if there is one.
Notified(id) == {b \in client.callbacks[client.user] : b.id = id}

NotifyUser(id, verdict) ==
  told' = [w \in Writes |-> IF \E b \in Notified(id) : b.w = w THEN verdict ELSE told[w]]

\* The front of the pipeline c is resolved: its batch leaves the queue, its
\* completion is forgotten, and the pipeline is filled again.
FrontResolved(c) ==
  LET id == Head(c.pipe).id
  IN  FillWritePipeline([c EXCEPT !.pipe = Tail(@),
                                  !.callbacks[c.user] = @ \ Notified(id),
                                  !.sound = @ /\ id \in Ids(queue[c.user])],
                        Remove(queue[c.user], id))

ResolveFront(c, verdict) ==
  /\ queue' = [queue EXCEPT ![c.user] = Remove(@, Head(c.pipe).id)]
  /\ NotifyUser(Head(c.pipe).id, verdict)

-----------------------------------------------------------------------------
(* What the write stream tells RemoteStore.                                *)

Answered(kinds) == /\ client.call # NoStream
                   /\ client.call.answers # <<>>
                   /\ Head(client.call.answers).kind \in kinds

Read(c) == [c EXCEPT !.call.answers = Tail(@)]

\* Mutant: the write at the front is taken for sent.
HandshakeSkipsFront ==
  /\ Answered({"hello", "committed"})
  /\ ~client.shake
  /\ LET c == [Read(client) EXCEPT !.shake = TRUE]
     IN  client' = IF c.pipe = <<>> THEN c ELSE WriteMutations(c, Tail(c.pipe))
  /\ UNCHANGED <<queue, auth, workQueue, server, history, bounds>>

\* OnWriteStreamHandshakeComplete: the whole pipeline is sent.
HandshakeComplete ==
  /\ Answered({"hello", "committed"})
  /\ ~client.shake
  /\ LET c == [Read(client) EXCEPT !.shake = TRUE]
     IN  client' = IF c.pipe = <<>> THEN c ELSE WriteMutations(c, c.pipe)
  /\ UNCHANGED <<queue, auth, workQueue, server, history, bounds>>

\* OnWriteStreamMutationResult: an answer belongs to the front of the pipeline.
MutationResult ==
  /\ Answered({"hello", "committed"})
  /\ client.shake
  /\ IF client.pipe = <<>>
     THEN /\ client' = [Read(client) EXCEPT !.sound = FALSE]
          /\ UNCHANGED <<queue, told>>
     ELSE /\ client' = FrontResolved(Read(client))
          /\ ResolveFront(client, "ok")
  /\ UNCHANGED <<auth, workQueue, server, author, bounds>>

\* Mutant: the stream is not started again.
ClosedForGood(c) == [c EXCEPT !.shake = FALSE]

\* OnWriteStreamClose returns, and WriteStream forgets the handshake.
Closed(c) == [StartIfNeeded(c) EXCEPT !.shake = FALSE]

\* The end of a stream is read behind its answers, unless a write fails that the
\* server never read: then the answers not read yet are lost (FinishGrpcCall), and
\* the client hears of the refusal alone.
EndsRefused ==
  /\ client.call # NoStream
  /\ \E i \in DOMAIN client.call.answers :
       /\ client.call.answers[i].kind = "refused"
       /\ i = 1 \/ client.call.requests # <<>>

\* OnWriteStreamClose with a permanent error: the front of the pipeline is taken
\* to be at fault.
WriteError ==
  /\ EndsRefused
  /\ LET c == Close(client, "Error")
     IN  IF c.pipe = <<>> \/ ~c.shake
         THEN client' = Closed(c) /\ UNCHANGED <<queue, told>>
         ELSE /\ client' = Closed(FrontResolved(InhibitBackoff(c)))
              /\ ResolveFront(c, "failed")
  /\ UNCHANGED <<auth, workQueue, server, author, bounds>>

Trouble == /\ troubles < MaxTroubles /\ written + troubles < MaxEvents
           /\ troubles' = troubles + 1

\* Mutant: every error is taken for permanent.
BreakIsRefusal ==
  /\ client.call # NoStream
  /\ Trouble
  /\ LET c == Close(client, "Error")
     IN  IF c.pipe = <<>> \/ ~c.shake
         THEN client' = Closed(c) /\ UNCHANGED <<queue, told>>
         ELSE /\ client' = Closed(FrontResolved(InhibitBackoff(c)))
              /\ ResolveFront(c, "failed")
  /\ UNCHANGED <<auth, workQueue, server, author, written>>

\* OnWriteStreamClose with an error that may pass: the writes stay.
StreamBreaks ==
  /\ client.call # NoStream
  /\ Trouble
  /\ client' = Closed(Close(client, "Error"))
  /\ UNCHANGED <<queue, auth, workQueue, server, history, written>>

BackoffElapsed ==
  /\ client.timer
  /\ client' = Start([client EXCEPT !.timer = FALSE,
                                    !.sound = @ /\ client.stream = "Backoff",
                                    !.stream = "Initial"])
  /\ UNCHANGED <<queue, auth, workQueue, server, history, bounds>>

IdleTimeout ==
  /\ client.idle
  /\ client' = Stop(client)
  /\ UNCHANGED <<queue, auth, workQueue, server, history, bounds>>

\* The connectivity monitor reports a network: an open call ends with an error
\* (GrpcConnection), then the network is restarted (RemoteStore).
ConnectivityChanged ==
  /\ Trouble
  /\ client' = RestartNetwork(IF client.call = NoStream THEN client
                               ELSE Closed(Close(client, "Error")),
                               queue[client.user])
  /\ UNCHANGED <<queue, auth, workQueue, server, history, written>>

-----------------------------------------------------------------------------
(* Accounts and tokens.                                                    *)

\* signIn, signOut or a refreshed token: FIRAuth changes its user and
\* dispatches the notification to the main queue in one block of its own queue.
AuthChange(u) ==
  /\ Trouble
  /\ authUser' = u
  /\ mainQueue' = Append(mainQueue, [kind |-> "notice", user |-> u])
  /\ UNCHANGED <<queue, client, provider, fetching, workQueue, server, history, written>>

\* getTokenForcingRefresh: the user is read now, the token arrives later ...
AuthReads ==
  /\ client.asks # <<>>
  /\ LET r == Head(client.asks)
     IN  fetching' = fetching \cup
                     {[close |-> r.close, counter |-> r.counter, user |-> authUser]}
  /\ client' = [client EXCEPT !.asks = Tail(@)]
  /\ UNCHANGED <<queue, authUser, provider, mainQueue, workQueue, server, history, bounds>>

\* ... on the main queue.
TokenArrives(kind) ==
  /\ \E r \in fetching :
       /\ fetching' = fetching \ {r}
       /\ mainQueue' = Append(mainQueue, [kind |-> kind, user |-> r.user,
                                          close |-> r.close, counter |-> r.counter])
  /\ UNCHANGED <<queue, client, authUser, provider, workQueue, server, history, written>>

TokenFetched == TokenArrives("token") /\ UNCHANGED troubles

TokenFails ==
  /\ Trouble
  /\ TokenArrives("noToken")

\* The auth state notification reaches FirebaseCredentialsProvider.
NoticeRuns ==
  /\ mainQueue # <<>>
  /\ Head(mainQueue).kind = "notice"
  /\ provider' = [user |-> Head(mainQueue).user, counter |-> provider.counter + 1]
  /\ workQueue' = Append(workQueue, [kind |-> "change", user |-> Head(mainQueue).user])
  /\ mainQueue' = Tail(mainQueue)
  /\ UNCHANGED <<queue, client, authUser, fetching, server, history, bounds>>

\* get_token_callback: a token asked for before the last notice is asked for again.
TokenCallback ==
  /\ mainQueue # <<>>
  /\ Head(mainQueue).kind # "notice"
  /\ LET t == Head(mainQueue)
     IN  IF t.counter # provider.counter
         THEN /\ client' = [client EXCEPT !.asks =
                              Append(@, [close |-> t.close, counter |-> provider.counter])]
              /\ UNCHANGED workQueue
         ELSE /\ workQueue' = Append(workQueue, [kind |-> t.kind, user |-> t.user,
                                                 close |-> t.close])
              /\ UNCHANGED client
  /\ mainQueue' = Tail(mainQueue)
  /\ UNCHANGED <<queue, authUser, provider, fetching, server, history, bounds>>

\* Mutant: the streams are not restarted for the new account.
ChangeWithoutRestart ==
  /\ workQueue # <<>>
  /\ Head(workQueue).kind = "change"
  /\ LET u == Head(workQueue).user
     IN  client' = FillWritePipeline(IF u = client.user THEN client
                                     ELSE [client EXCEPT !.user = u, !.next = LoadNextBatchId],
                                     queue[u])
  /\ workQueue' = Tail(workQueue)
  /\ UNCHANGED <<queue, auth, server, history, bounds>>

\* SyncEngine::HandleCredentialChange, for another account or the same one.
HandleCredentialChange ==
  /\ workQueue # <<>>
  /\ Head(workQueue).kind = "change"
  /\ LET u == Head(workQueue).user
         c == IF u = client.user THEN client
              ELSE [client EXCEPT !.user = u, !.next = LoadNextBatchId]
     IN  client' = RestartNetwork(c, queue[u])
  /\ workQueue' = Tail(workQueue)
  /\ UNCHANGED <<queue, auth, server, history, bounds>>

\* ResumeStartWithCredentials: the call opens at once and the handshake is sent.
Resume(c, t) ==
  LET c1 == [c EXCEPT !.sound = @ /\ c.stream = "Starting"]
  IN  IF t.kind = "noToken"
      THEN Closed(Close(c1, "Error"))
      ELSE Send([c1 EXCEPT !.stream = "Open",
                           !.sound = @ /\ ~c.shake,
                           !.call = [user |-> t.user, requests |-> <<>>, answers |-> <<>>]],
                <<Hello>>)

\* RequestCredentials' callback: void when the stream was closed since.
CredentialsArrive ==
  /\ workQueue # <<>>
  /\ Head(workQueue).kind # "change"
  /\ LET t == Head(workQueue)
     IN  client' = IF t.close = client.closes THEN Resume(client, t) ELSE client
  /\ workQueue' = Tail(workQueue)
  /\ UNCHANGED <<queue, auth, server, history, bounds>>

-----------------------------------------------------------------------------
(* The server and the end of the process.                                  *)

ServerReads(kind, w) ==
  /\ client.call # NoStream
  /\ client.call.requests # <<>>
  /\ Head(client.call.requests) = w
  /\ \A i \in DOMAIN client.call.answers : client.call.answers[i].kind # "refused"
  /\ client' = [client EXCEPT !.call.requests = Tail(@),
                              !.call.answers = Append(@, [kind |-> kind, w |-> w])]
  /\ UNCHANGED <<queue, auth, workQueue, history, bounds>>

ServerGreets == ServerReads("hello", Hello) /\ UNCHANGED server

ServerCommits(w) ==
  /\ ServerReads("committed", w)
  /\ doc' = w
  /\ committed' = committed \cup {w}
  /\ UNCHANGED refused

ServerRefuses(w) ==
  /\ ServerReads("refused", w)
  /\ refused' = refused \cup {w}
  /\ UNCHANGED <<doc, committed>>

\* The process ends and starts again: LevelDB and FIRAuth's user are kept.  (The
\* counter starts over as well; no token of the old process is left to notice.
\* That FIRAuth finds its user a moment later is AuthChange.)
Relaunch ==
  /\ Trouble
  /\ client' = EnableNetwork(Fresh(authUser, LoadNextBatchId), queue[authUser])
  /\ provider' = [provider EXCEPT !.user = authUser]
  /\ fetching' = {} /\ mainQueue' = <<>> /\ workQueue' = <<>>
  /\ UNCHANGED <<queue, authUser, server, history, written>>

ServerStep == \/ ServerGreets
              \/ \E w \in Writes : ServerCommits(w) \/ ServerRefuses(w)

ClientStep == \/ HandshakeComplete
              \/ MutationResult
              \/ WriteError
              \/ BackoffElapsed
              \/ IdleTimeout

TokenStep == \/ AuthReads
             \/ TokenFetched
             \/ NoticeRuns
             \/ TokenCallback
             \/ HandleCredentialChange
             \/ CredentialsArrive

Next == \/ Write
        \/ ServerStep
        \/ ClientStep
        \/ TokenStep
        \/ TokenFails
        \/ StreamBreaks
        \/ ConnectivityChanged
        \/ \E u \in Users : AuthChange(u)
        \/ Relaunch

Spec == Init /\ [][Next]_vars

SystemStep == ServerStep \/ ClientStep \/ TokenStep

\* A queue, a timer, FIRAuth or the server has something to do: SystemStep is
\* enabled.
Busy == \/ client.call # NoStream /\ (client.call.requests # <<>> \/ client.call.answers # <<>>)
        \/ client.timer \/ client.idle
        \/ client.asks # <<>> \/ fetching # {}
        \/ mainQueue # <<>> \/ workQueue # <<>>

\* Weak fairness of SystemStep, written out with Busy for ENABLED: the worker
\* queue, the main queue and FIRAuth run what they hold, timers fire and the server
\* answers, in whatever order.  Nothing is asked of the user or the network.
Fairness == []<>(~Busy) \/ []<><<SystemStep>>_vars

FairSpec == Spec /\ Fairness

-----------------------------------------------------------------------------
(* Properties                                                              *)

Ws(batches) == [i \in DOMAIN batches |-> batches[i].w]

\* The pipeline is the front of the queue of the account it works for, whatever
\* was refilled, resolved, restarted or swapped; batch ids grow along a queue
\* although they are drawn anew at every launch and every change of account.
PipelineInv ==
  /\ \A u \in Users : \A i, j \in DOMAIN queue[u] : i < j => queue[u][i].id < queue[u][j].id
  /\ \A u \in Users : \A i \in DOMAIN queue[u] : u = client.user => queue[u][i].id < client.next
  /\ Len(client.pipe) <= kMaxPendingWrites
  /\ client.pipe = SubSeq(queue[client.user], 1, Len(client.pipe))

WritesInv == TypeOK /\ PipelineInv

\* No HARD_ASSERT of stream.cc, write_stream.cc, remote_store.cc or the mutation
\* queue ever fails: no call is opened, restarted, written to or closed in the
\* wrong state, no graceful stop comes while writes wait, and no answer finds
\* the pipeline or the queue without its batch.
AssertionsHold == client.sound

\* An answer carries no name and is given to the front of the pipeline
\* (OnWriteStreamMutationResult): once the handshake is done, what was answered
\* and what is still to be read is the pipeline, in order; before, no write is sent.
AnswersMatchPipeline ==
  client.call # NoStream =>
    LET answers == Ws(client.call.answers)
        sent == answers \o client.call.requests
    IN  IF client.shake THEN sent = Ws(client.pipe) ELSE sent = <<Hello>>

\* A write reaches the server under the token of the account that wrote it,
\* although accounts change while tokens, notices and answers are under way.
SentAsAuthor ==
  client.call # NoStream =>
    \A i \in DOMAIN client.call.requests :
      LET w == client.call.requests[i] IN w # Hello => author[w] = client.call.user

\* The refusal of a later write of the account may end the stream before the
\* answer to w is read.
Overtaken(w) ==
  w \in committed /\ \E v \in refused : w < v /\ author[v] = author[w]

\* A completion hears "ok" only if the server committed that very write.  It hears
\* of an error only if the server refused it, or committed it and refused a later
\* write of the same account: an error is no proof that a write was not made.
CompletionsTellTruth ==
  \A w \in Writes : /\ told[w] = "ok" => w \in committed
                    /\ told[w] = "failed" => w \in refused \/ Overtaken(w)

\* Neither a launch nor a change of account loses a write or its place: it is in
\* its account's queue once until the server has settled it, an account's writes
\* are settled in the order they were made, and a completion that has not run
\* belongs to a batch that is still queued.
NothingLost ==
  \A w \in Writes : author[w] # NoStream =>
    LET places == {i \in DOMAIN queue[author[w]] : queue[author[w]][i].w = w}
        settled == committed \cup refused
    IN  /\ Cardinality(places) <= 1
        /\ places = {} => w \in settled
        /\ w \in settled => \A v \in 1..w : author[v] = author[w] => v \in settled
        /\ \A b \in client.callbacks[author[w]] : b.w = w =>
             \E i \in places : queue[author[w]][i] = b

\* What the rest of the app sees of all this is a queue that the server goes
\* through from the front, again from the front after every restart.
Unread == IF client.call = NoStream THEN <<>> ELSE client.call.answers
Promise == INSTANCE WriteQueue WITH
  pending <- [u \in Users |-> Ws(queue[u])],
  active <- client.user,
  passed <- Cardinality({i \in DOMAIN Unread : Unread[i].kind = "committed"}),
  refusing <- \E i \in DOMAIN Unread : Unread[i].kind = "refused"

ImplementsWriteQueue == Promise!Spec

\* While an account stays signed in its queue is emptied in the end, over broken
\* streams, failed token requests, launches and visits of other accounts.
QueueDrains == queue[authUser] # <<>> ~> queue[authUser] = <<>>
=============================================================================

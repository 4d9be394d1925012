----------------------- MODULE FirestoreWritesProofs -----------------------
(***************************************************************************)
(* The pipeline is the front of the account's queue, and a write travels   *)
(* under the token of its author: proofs for any number of accounts,       *)
(* writes and troubles, and for any length of the pipeline.                *)
(***************************************************************************)
EXTENDS FirestoreWrites, FiniteSetTheorems, SequenceTheorems, WellFoundedInduction, TLAPS

-----------------------------------------------------------------------------
(* Queues.                                                                 *)

\* Batch ids grow along a queue.
Sorted(q) == \A i, j \in 1..Len(q) : i < j => q[i].id < q[j].id

\* p is the front of q.
Front(p, q) == Len(p) <= Len(q) /\ \A i \in 1..Len(p) : p[i] = q[i]

\* A non-empty set of numbers up to n has a largest member: LoadNextBatchId finds
\* the largest id in use.
LEMMA MaxExists ==
  ASSUME NEW n \in Nat, NEW S \in SUBSET (0..n), S # {}
  PROVE  \E m \in S : \A k \in S : k <= m
<1> DEFINE below == {n - i : i \in S}
           R == OpToRel(<, Nat)
<1>1. \A i \in S : i \in Int /\ 0 <= i /\ i <= n
  OBVIOUS
<1>2. below \subseteq Nat
  BY <1>1
<1>3. below # {}
  <2>1. PICK i \in S : TRUE
    OBVIOUS
  <2>2. n - i \in below
    BY <2>1
  <2> QED
    BY <2>2
<1>4. IsWellFoundedOn(R, Nat)
  BY NatLessThanWellFounded
<1>5. \A a, b \in Nat : a < b => <<a, b>> \in R
  BY DEF OpToRel
<1>6. \A i \in S : n - i \in below
  OBVIOUS
<1>7. \A x \in below : \E i \in S : x = n - i
  OBVIOUS
<1> HIDE DEF below, R
<1>8. PICK x \in below : \A y \in below : ~(<<y, x>> \in R)
  BY <1>2, <1>3, <1>4, WFMin
<1>9. \A y \in below : x <= y
  <2> TAKE y \in below
  <2>1. x \in Nat /\ y \in Nat
    BY <1>2
  <2>2. ~(y < x)
    BY <1>5, <1>8, <2>1, Zenon
  <2> QED
    BY <2>1, <2>2
<1>10. PICK i \in S : x = n - i
  BY <1>7
<1>11. \A j \in S : j <= i
  BY <1>1, <1>6, <1>9, <1>10
<1> QED
  BY <1>11

\* In a sorted queue the batches up to the n-th are n.
LEMMA SeenAreFirst ==
  ASSUME NEW q \in Seq(Batch), Sorted(q), NEW n \in 1..Len(q)
  PROVE  Cardinality({i \in DOMAIN q : q[i].id <= q[n].id}) = n
<1>1. DOMAIN q = 1..Len(q) /\ Len(q) \in Nat
  OBVIOUS
<1>2. \A i \in 1..Len(q) : q[i].id \in Nat
  <2> TAKE i \in 1..Len(q)
  <2>1. q[i] \in Batch
    BY ElementOfSeq
  <2> QED
    BY <2>1 DEF Batch
<1>3. \A i \in 1..Len(q) : q[i].id <= q[n].id <=> i <= n
  BY <1>2 DEF Sorted
<1>4. {i \in DOMAIN q : q[i].id <= q[n].id} = 1..n
  BY <1>1, <1>3
<1>5. Cardinality(1..n) = n
  BY FS_Interval
<1> QED
  BY <1>4, <1>5

\* NextBatches reads on where the first n batches of a sorted queue end.
LEMMA NextBatchesFollow ==
  ASSUME NEW q \in Seq(Batch), Sorted(q), NEW n \in 0..Len(q), NEW room \in Nat,
         NEW id, n = 0 => id = -1, n # 0 => id = q[n].id
  PROVE  \E m \in n..Len(q) :
           /\ m <= n + room
           /\ NextBatches(q, id, room) \in Seq(Batch)
           /\ Len(NextBatches(q, id, room)) = m - n
           /\ \A i \in 1..(m - n) : NextBatches(q, id, room)[i] = q[n + i]
<1> DEFINE seen == Cardinality({i \in DOMAIN q : q[i].id <= id})
           last == IF seen + room < Len(q) THEN seen + room ELSE Len(q)
<1>1. seen = n
  <2>1. CASE n = 0
    <3>1. \A i \in DOMAIN q : q[i].id \in Nat
      <4> TAKE i \in DOMAIN q
      <4>1. q[i] \in Batch
        OBVIOUS
      <4> QED
        BY <4>1 DEF Batch
    <3>2. {i \in DOMAIN q : q[i].id <= id} = {}
      BY <2>1, <3>1
    <3> QED
      BY <2>1, <3>2, FS_EmptySet
  <2>2. CASE n # 0
    BY <2>2, SeenAreFirst
  <2> QED
    BY <2>1, <2>2
<1>2. last \in n..Len(q) /\ last <= n + room
  BY <1>1
<1>3. NextBatches(q, id, room) = SubSeq(q, seen + 1, last)
  BY DEF NextBatches
<1> HIDE DEF seen, last
<1>4. Len(q) \in Nat /\ \A i \in (n + 1)..last : q[i] \in Batch
  BY <1>2, ElementOfSeq
<1>5. /\ SubSeq(q, n + 1, last) \in Seq(Batch)
      /\ Len(SubSeq(q, n + 1, last)) = IF n + 1 <= last THEN last - (n + 1) + 1 ELSE 0
      /\ \A i \in 1..(last - (n + 1) + 1) : SubSeq(q, n + 1, last)[i] = q[n + 1 + i - 1]
  BY <1>2, <1>4, SubSeqProperties
<1>6. Len(SubSeq(q, n + 1, last)) = last - n
  BY <1>2, <1>4, <1>5
<1>7. \A i \in 1..(last - n) : SubSeq(q, n + 1, last)[i] = q[n + i]
  <2> TAKE i \in 1..(last - n)
  <2>1. i \in 1..(last - (n + 1) + 1) /\ n + 1 + i - 1 = n + i
    BY <1>2
  <2> QED
    BY <1>5, <2>1
<1> QED
  BY <1>1, <1>2, <1>3, <1>5, <1>6, <1>7

\* Removing the head's id from a sorted queue leaves its tail.
LEMMA RemoveHead ==
  ASSUME NEW q \in Seq(Batch), q # <<>>, Sorted(q)
  PROVE  Remove(q, q[1].id) = Tail(q)
<1>1. DOMAIN q = 1..Len(q) /\ Len(q) \in Nat /\ 1 \in 1..Len(q)
  BY EmptySeq
<1>2. \A i \in 1..Len(q) : q[i].id \in Nat
  <2> TAKE i \in 1..Len(q)
  <2>1. q[i] \in Batch
    BY ElementOfSeq
  <2> QED
    BY <2>1 DEF Batch
<1>3. q[1].id \in Ids(q)
  BY <1>1 DEF Ids
<1>4. \A i \in DOMAIN q : q[i].id = q[1].id <=> i = 1
  BY <1>1, <1>2 DEF Sorted
<1>5. Place(q, q[1].id) = 1
  BY <1>1, <1>4 DEF Place
<1>6. SubSeq(q, 1, 0) = <<>> /\ SubSeq(q, 2, Len(q)) = Tail(q)
  BY <1>1, SubSeqEmpty, TailIsSubSeq
<1>7. Tail(q) \in Seq(Batch)
  BY HeadTailProperties
<1>8. Remove(q, q[1].id) = SubSeq(q, 1, 0) \o SubSeq(q, 2, Len(q))
  BY <1>1, <1>3, <1>5 DEF Remove
<1> QED
  BY <1>6, <1>7, <1>8, ConcatEmptySeq

\* The tail of a sorted queue is sorted.
LEMMA TailSorted ==
  ASSUME NEW q \in Seq(Batch), q # <<>>, Sorted(q)
  PROVE  Sorted(Tail(q))
<1>1. /\ Len(q) \in Nat /\ Len(Tail(q)) = Len(q) - 1
      /\ \A i \in 1..Len(Tail(q)) : Tail(q)[i] = q[i + 1]
  BY HeadTailProperties, EmptySeq
<1> QED
  BY <1>1 DEF Sorted

-----------------------------------------------------------------------------
(* The client.  Every method of Stream, WriteStream and RemoteStore keeps  *)
(* it steady for the queue q it serves and the writes own of its account.  *)

\* A call is open while the stream is, and never on a stream that is stopped.
StreamOK(c) == /\ c.stream = "Open" => c.call # NoStream
               /\ c.call # NoStream => IsStarted(c)

AsksOld(c) == \A i \in 1..Len(c.asks) : c.asks[i].counter <= provider.counter

Sane(c) == c \in ClientType /\ StreamOK(c) /\ AsksOld(c)

\* The call was opened for the account that is served, and carries its writes.
CallOK(c, own) ==
  c.call # NoStream =>
    /\ c.call.user = c.user
    /\ \A i \in 1..Len(c.call.requests) : c.call.requests[i] \in own \cup {Hello}

PipeOK(c, q) == Front(c.pipe, q) /\ Len(c.pipe) <= kMaxPendingWrites

Steady(c, q, own) == Sane(c) /\ CallOK(c, own) /\ PipeOK(c, q)

\* What no method of the stream touches.
SameAccount(c, d) == d.user = c.user /\ d.next = c.next

LEMMA StartSane ==
  ASSUME NEW c \in ClientType, AsksOld(c), provider.counter \in Nat
  PROVE  /\ Sane(Start(c)) /\ SameAccount(c, Start(c))
         /\ Start(c).call = c.call /\ Start(c).pipe = c.pipe
<1>1. CASE c.stream = "Error"
  <2> DEFINE d == [c EXCEPT !.stream = "Backoff", !.timer = TRUE]
  <2>1. d \in ClientType
    BY DEF ClientType, State
  <2>2. /\ SameAccount(c, d) /\ d.call = c.call /\ d.pipe = c.pipe /\ d.asks = c.asks
        /\ d.stream = "Backoff"
    BY DEF ClientType, SameAccount
  <2>3. Start(c) = d
    BY <1>1 DEF Start
  <2> HIDE DEF d
  <2> QED
    BY <2>1, <2>2, <2>3 DEF Sane, StreamOK, AsksOld, IsStarted
<1>2. CASE c.stream # "Error"
  <2> DEFINE d == [c EXCEPT !.stream = "Starting", !.sound = @ /\ c.stream = "Initial"]
             r == [close |-> c.closes, counter |-> provider.counter]
  <2>1. /\ d \in ClientType /\ SameAccount(c, d) /\ d.call = c.call /\ d.pipe = c.pipe
        /\ d.asks = c.asks /\ d.closes = c.closes /\ d.stream = "Starting"
    BY DEF Sane, ClientType, State, SameAccount
  <2>2. r \in Request
    BY DEF Request, Sane, ClientType
  <2>3. Start(c) = [d EXCEPT !.asks = Append(@, r)]
    BY <1>2, <2>1 DEF Start, RequestCredentials
  <2>4. c.asks \in Seq(Request)
    BY DEF Sane, ClientType
  <2> DEFINE a == Append(c.asks, r)
  <2>5. a \in Seq(Request) /\ \A i \in 1..Len(a) : a[i].counter <= provider.counter
    BY <2>2, <2>4 DEF Sane, AsksOld
  <2>6. Start(c) = [d EXCEPT !.asks = a]
    BY <2>1, <2>3
  <2> HIDE DEF d, a
  <2> QED
    BY <2>1, <2>5, <2>6 DEF Sane, StreamOK, AsksOld, IsStarted, ClientType, SameAccount
<1> QED
  BY <1>1, <1>2

LEMMA CloseSane ==
  ASSUME NEW c, Sane(c), NEW state \in {"Initial", "Error"}
  PROVE  /\ Sane(Close(c, state)) /\ SameAccount(c, Close(c, state))
         /\ Close(c, state).call = NoStream /\ Close(c, state).pipe = c.pipe
         /\ Close(c, state).shake = c.shake
<1> DEFINE d == Close(c, state)
<1>1. c.sound \in BOOLEAN /\ c.closes + 1 \in Nat /\ IsStarted(c) \in BOOLEAN
  BY DEF Sane, ClientType, IsStarted
<1>2. d = [c EXCEPT !.sound = @ /\ IsStarted(c), !.idle = FALSE, !.timer = FALSE,
                    !.closes = @ + 1, !.call = NoStream, !.stream = state]
  BY DEF Close
<1>3. d \in ClientType
  BY <1>1, <1>2 DEF Sane, ClientType, State
<1>4. /\ SameAccount(c, d) /\ d.call = NoStream /\ d.pipe = c.pipe /\ d.shake = c.shake
      /\ d.stream = state /\ d.asks = c.asks
  BY <1>2 DEF Sane, ClientType, SameAccount
<1> QED
  BY <1>3, <1>4 DEF Sane, StreamOK, AsksOld

LEMMA InhibitSane ==
  ASSUME NEW c, Sane(c), c.call = NoStream
  PROVE  /\ Sane(InhibitBackoff(c)) /\ SameAccount(c, InhibitBackoff(c))
         /\ InhibitBackoff(c).call = NoStream /\ InhibitBackoff(c).pipe = c.pipe
BY DEF InhibitBackoff, Sane, StreamOK, AsksOld, IsStarted, ClientType, State, SameAccount

LEMMA StopSane ==
  ASSUME NEW c, Sane(c)
  PROVE  /\ Sane(Stop(c)) /\ SameAccount(c, Stop(c))
         /\ Stop(c).call = NoStream /\ Stop(c).pipe = c.pipe
<1>1. CASE IsStarted(c)
  <2> DEFINE d == Close(c, "Initial")
  <2>1. Sane(d) /\ SameAccount(c, d) /\ d.call = NoStream /\ d.pipe = c.pipe
    BY CloseSane
  <2>2. ShouldStartWriteStream(d) \in BOOLEAN
    BY <2>1 DEF ShouldStartWriteStream, IsStarted, Sane, ClientType
  <2>3. Stop(c) = [d EXCEPT !.sound = @ /\ ~ShouldStartWriteStream(d), !.shake = FALSE]
    BY <1>1 DEF Stop
  <2> HIDE DEF d
  <2> QED
    BY <2>1, <2>2, <2>3 DEF Sane, StreamOK, AsksOld, IsStarted, ClientType, SameAccount
<1>2. CASE ~IsStarted(c)
  BY <1>2 DEF Stop, Sane, StreamOK, SameAccount
<1> QED
  BY <1>1, <1>2

\* A client without pipeline and call is steady for any queue.
LEMMA EmptySteady ==
  ASSUME NEW c, Sane(c), c.call = NoStream, c.pipe = <<>>, NEW q \in Seq(Batch), NEW own
  PROVE  Steady(c, q, own)
<1>1. Len(q) \in Nat
  OBVIOUS
<1> QED
  BY <1>1, PipelineAssumption DEF Steady, CallOK, PipeOK, Front

LEMMA DisableSteady ==
  ASSUME NEW c, Sane(c)
  PROVE  /\ Sane(DisableNetworkInternal(c)) /\ SameAccount(c, DisableNetworkInternal(c))
         /\ DisableNetworkInternal(c).call = NoStream
         /\ DisableNetworkInternal(c).pipe = <<>>
<1> DEFINE d == [c EXCEPT !.enabled = FALSE]
<1>1. Sane(d) /\ SameAccount(c, d)
  BY DEF Sane, StreamOK, AsksOld, IsStarted, ClientType, SameAccount
<1>2. Sane(Stop(d)) /\ SameAccount(d, Stop(d)) /\ Stop(d).call = NoStream
  BY <1>1, StopSane
<1>3. DisableNetworkInternal(c) = [Stop(d) EXCEPT !.pipe = <<>>]
  BY DEF DisableNetworkInternal
<1> HIDE DEF d
<1>4. <<>> \in Seq(Batch)
  OBVIOUS
<1> QED
  BY <1>1, <1>2, <1>3, <1>4 DEF Sane, StreamOK, AsksOld, IsStarted, ClientType, SameAccount

LEMMA StartIfNeededSteady ==
  ASSUME NEW c, NEW q, NEW own, Steady(c, q, own), provider.counter \in Nat
  PROVE  /\ Steady(StartIfNeeded(c), q, own) /\ SameAccount(c, StartIfNeeded(c))
         /\ StartIfNeeded(c).call = c.call /\ StartIfNeeded(c).pipe = c.pipe
<1>1. /\ Sane(Start(c)) /\ SameAccount(c, Start(c))
      /\ Start(c).call = c.call /\ Start(c).pipe = c.pipe
  BY StartSane DEF Steady, Sane
<1> QED
  BY <1>1 DEF StartIfNeeded, Steady, CallOK, PipeOK, SameAccount

LEMMA MarkIdleSteady ==
  ASSUME NEW c, NEW q, NEW own, Steady(c, q, own)
  PROVE  Steady(MarkIdle(c), q, own) /\ SameAccount(c, MarkIdle(c))
<1>1. c \in ClientType
  BY DEF Steady, Sane
<1> DEFINE d == [c EXCEPT !.idle = TRUE]
<1>2. d \in ClientType
  BY <1>1 DEF ClientType
<1>3. /\ d.user = c.user /\ d.next = c.next /\ d.callbacks = c.callbacks /\ d.pipe = c.pipe
      /\ d.stream = c.stream /\ d.call = c.call /\ d.asks = c.asks
  BY <1>1 DEF ClientType
<1>4. MarkIdle(c) = d \/ MarkIdle(c) = c
  BY DEF MarkIdle
<1> HIDE DEF d
<1> QED
  BY <1>2, <1>3, <1>4
  DEF Steady, Sane, StreamOK, AsksOld, IsStarted, CallOK, PipeOK, SameAccount

\* Sending the account's own writes over an open call.
LEMMA SendSteady ==
  ASSUME NEW c, NEW q, NEW own, Steady(c, q, own), c.call # NoStream,
         NEW ws \in Seq({Hello} \cup Writes), \A i \in 1..Len(ws) : ws[i] \in own \cup {Hello}
  PROVE  Steady(Send(c, ws), q, own) /\ SameAccount(c, Send(c, ws))
<1>1. c \in ClientType /\ c.call \in Call /\ c.call.user = c.user
  BY DEF Steady, Sane, CallOK, ClientType
<1> DEFINE rs == c.call.requests \o ws
           call == [c.call EXCEPT !.requests = rs]
           d == Send(c, ws)
<1>2. c.call.requests \in Seq({Hello} \cup Writes)
  BY <1>1 DEF Call
<1>3. /\ rs \in Seq({Hello} \cup Writes)
      /\ \A i \in 1..Len(rs) : rs[i] \in own \cup {Hello}
  <2>1. \A i \in 1..Len(c.call.requests) : c.call.requests[i] \in own \cup {Hello}
    BY DEF Steady, CallOK
  <2>2. /\ Len(c.call.requests) \in Nat /\ Len(ws) \in Nat
        /\ Len(rs) = Len(c.call.requests) + Len(ws)
        /\ \A i \in 1..Len(rs) : rs[i] = IF i <= Len(c.call.requests) THEN c.call.requests[i]
                                         ELSE ws[i - Len(c.call.requests)]
    BY <1>2, ConcatProperties
  <2> QED
    BY <1>2, <2>1, <2>2
<1> HIDE DEF rs
<1>4. call \in Call /\ call.requests = rs /\ call.user = c.call.user
  BY <1>1, <1>3 DEF Call
<1>5. d = [c EXCEPT !.sound = @ /\ c.stream = "Open", !.idle = FALSE, !.call = call]
  BY <1>1 DEF Send, ClientType, rs
<1>6. call # NoStream
  BY <1>4, NoStreamAssumption
<1> HIDE DEF call, d
<1>7. d \in ClientType
  BY <1>1, <1>4, <1>5 DEF ClientType
<1>8. /\ SameAccount(c, d) /\ d.call = call /\ d.stream = c.stream /\ d.asks = c.asks
      /\ d.pipe = c.pipe
  BY <1>1, <1>5 DEF ClientType, SameAccount
<1>9. StreamOK(d) /\ AsksOld(d)
  BY <1>6, <1>8 DEF Steady, Sane, StreamOK, AsksOld, IsStarted
<1>10. CallOK(d, own) /\ PipeOK(d, q)
  BY <1>1, <1>3, <1>4, <1>8 DEF Steady, CallOK, PipeOK, SameAccount
<1> QED
  BY <1>7, <1>8, <1>9, <1>10 DEF d, Steady, Sane

\* The queue q holds writes of own only.
Owns(own, q) == own \subseteq Writes /\ \A i \in 1..Len(q) : q[i].w \in own

LEMMA WriteMutationsSteady ==
  ASSUME NEW c, NEW q, NEW own, Steady(c, q, own), c.call # NoStream,
         NEW batches \in Seq(Batch), Owns(own, batches)
  PROVE  Steady(WriteMutations(c, batches), q, own) /\ SameAccount(c, WriteMutations(c, batches))
<1> DEFINE d == [c EXCEPT !.sound = @ /\ c.shake]
           ws == [i \in DOMAIN batches |-> batches[i].w]
<1>1. c \in ClientType
  BY DEF Steady, Sane
<1>2. d \in ClientType
  BY <1>1 DEF ClientType
<1>3. /\ d.user = c.user /\ d.next = c.next /\ d.callbacks = c.callbacks /\ d.pipe = c.pipe
      /\ d.stream = c.stream /\ d.call = c.call /\ d.asks = c.asks
  BY <1>1 DEF ClientType
<1>4. Steady(d, q, own) /\ SameAccount(c, d) /\ d.call # NoStream
  BY <1>2, <1>3 DEF Steady, Sane, StreamOK, AsksOld, IsStarted, CallOK, PipeOK, SameAccount
<1>5. /\ ws \in Seq({Hello} \cup Writes)
      /\ \A i \in 1..Len(ws) : ws[i] \in own \cup {Hello}
  <2>1. Len(batches) \in Nat /\ DOMAIN batches = 1..Len(batches)
    OBVIOUS
  <2>2. ws = [i \in 1..Len(batches) |-> batches[i].w]
    BY <2>1
  <2>3. \A i \in 1..Len(batches) : batches[i].w \in own /\ batches[i].w \in Writes
    BY DEF Owns
  <2>4. ws \in Seq({Hello} \cup Writes) /\ Len(ws) = Len(batches)
    BY <2>1, <2>2, <2>3
  <2> QED
    BY <2>2, <2>3, <2>4
<1>6. WriteMutations(c, batches) = Send(d, ws)
  BY DEF WriteMutations
<1> HIDE DEF d, ws
<1>7. Steady(Send(d, ws), q, own) /\ SameAccount(d, Send(d, ws))
  BY <1>4, <1>5, SendSteady
<1> QED
  BY <1>4, <1>6, <1>7 DEF SameAccount

\* FillWritePipeline reads on in the queue where the pipeline ends.
LEMMA FillSteady ==
  ASSUME NEW c, NEW q \in Seq(Batch), Sorted(q), NEW own, Owns(own, q), Steady(c, q, own),
         provider.counter \in Nat
  PROVE  Steady(FillWritePipeline(c, q), q, own) /\ SameAccount(c, FillWritePipeline(c, q))
<1> DEFINE n == Len(c.pipe)
           id == IF c.pipe = <<>> THEN -1 ELSE c.pipe[Len(c.pipe)].id
           room == IF c.enabled THEN kMaxPendingWrites - Len(c.pipe) ELSE 0
           batches == NextBatches(q, id, room)
           filled == [c EXCEPT !.pipe = @ \o batches]
<1>1. c \in ClientType /\ c.pipe \in Seq(Batch) /\ n \in Nat /\ Len(q) \in Nat
  BY DEF Steady, Sane, ClientType
<1>2. n \in 0..Len(q) /\ \A i \in 1..n : c.pipe[i] = q[i]
  BY <1>1 DEF Steady, PipeOK, Front
<1>3. c.pipe = <<>> <=> n = 0
  BY <1>1
<1>4. (n = 0 => id = -1) /\ (n # 0 => id = q[n].id)
  BY <1>1, <1>2, <1>3
<1>5. room \in Nat /\ n + room <= kMaxPendingWrites
  BY <1>1, PipelineAssumption DEF Steady, PipeOK, Sane, ClientType
<1> HIDE DEF id, room
<1>6. PICK m \in n..Len(q) : /\ m <= n + room
                             /\ batches \in Seq(Batch)
                             /\ Len(batches) = m - n
                             /\ \A i \in 1..(m - n) : batches[i] = q[n + i]
  <2>1. n \in 0..Len(q) /\ room \in Nat
    BY <1>2, <1>5
  <2> HIDE DEF n
  <2> QED
    BY <1>4, <2>1, NextBatchesFollow
<1>7. /\ batches \in Seq(Batch) /\ Len(batches) = m - n
      /\ \A i \in 1..Len(batches) : batches[i] = q[n + i]
  BY <1>6
<1> HIDE DEF batches
<1> DEFINE p == c.pipe \o batches
<1>8. /\ p \in Seq(Batch) /\ Len(p) = m
      /\ \A i \in 1..m : p[i] = IF i <= n THEN c.pipe[i] ELSE batches[i - n]
  BY <1>1, <1>7, ConcatProperties
<1>9. Front(p, q) /\ Len(p) <= kMaxPendingWrites
  <2>1. m \in Nat /\ n <= m /\ m <= Len(q) /\ m <= kMaxPendingWrites
    BY <1>1, <1>5, <1>6, PipelineAssumption
  <2>2. \A i \in 1..m : p[i] = q[i]
    <3> TAKE i \in 1..m
    <3>1. CASE i <= n
      BY <1>1, <1>2, <1>8, <3>1
    <3>2. CASE ~(i <= n)
      <4>1. i - n \in 1..Len(batches) /\ n + (i - n) = i
        BY <1>1, <1>7, <2>1, <3>2
      <4> QED
        BY <1>7, <1>8, <3>2, <4>1
    <3> QED
      BY <3>1, <3>2
  <2> QED
    BY <1>8, <2>1, <2>2 DEF Front
<1>10. Owns(own, batches)
  <2>1. \A i \in 1..Len(batches) : n + i \in 1..Len(q)
    BY <1>1, <1>2, <1>6, <1>7
  <2> QED
    BY <1>7, <2>1 DEF Owns
<1>11. filled = [c EXCEPT !.pipe = p]
  BY <1>1 DEF ClientType
<1> HIDE DEF p, filled
<1>12. filled \in ClientType
  BY <1>1, <1>8, <1>11 DEF ClientType
<1>13. /\ filled.user = c.user /\ filled.next = c.next /\ filled.callbacks = c.callbacks
       /\ filled.pipe = p /\ filled.stream = c.stream /\ filled.call = c.call
       /\ filled.asks = c.asks
  BY <1>1, <1>11 DEF ClientType
<1>14. Steady(filled, q, own) /\ SameAccount(c, filled)
  BY <1>9, <1>12, <1>13 DEF Steady, Sane, StreamOK, AsksOld, IsStarted, CallOK, PipeOK, SameAccount
<1> DEFINE d == IF c.stream = "Open" /\ c.shake /\ batches # <<>>
                THEN WriteMutations(filled, batches)
                ELSE IF filled.pipe = <<>> THEN MarkIdle(filled) ELSE filled
<1>15. FillWritePipeline(c, q) = StartIfNeeded(d)
  BY DEF FillWritePipeline, filled, batches, id, room
<1>16. Steady(d, q, own) /\ SameAccount(filled, d)
  <2>1. CASE c.stream = "Open" /\ c.shake /\ batches # <<>>
    <3>1. filled.call # NoStream
      BY <1>13, <2>1 DEF Steady, Sane, StreamOK
    <3>2. /\ Steady(WriteMutations(filled, batches), q, own)
          /\ SameAccount(filled, WriteMutations(filled, batches))
      BY <1>7, <1>10, <1>14, <3>1, WriteMutationsSteady
    <3> QED
      BY <2>1, <3>2
  <2>2. CASE ~(c.stream = "Open" /\ c.shake /\ batches # <<>>)
    <3>1. Steady(MarkIdle(filled), q, own) /\ SameAccount(filled, MarkIdle(filled))
      BY <1>14, MarkIdleSteady
    <3> QED
      BY <1>14, <2>2, <3>1 DEF SameAccount
  <2> QED
    BY <2>1, <2>2
<1> HIDE DEF d
<1>17. Steady(StartIfNeeded(d), q, own) /\ SameAccount(d, StartIfNeeded(d))
  BY <1>16, StartIfNeededSteady
<1> QED
  BY <1>14, <1>15, <1>16, <1>17 DEF SameAccount

LEMMA RestartSteady ==
  ASSUME NEW c, Sane(c), NEW q \in Seq(Batch), Sorted(q), NEW own, Owns(own, q),
         provider.counter \in Nat
  PROVE  Steady(RestartNetwork(c, q), q, own) /\ SameAccount(c, RestartNetwork(c, q))
<1> DEFINE d == InhibitBackoff(DisableNetworkInternal(c))
           e == [d EXCEPT !.enabled = TRUE]
<1>1. Sane(d) /\ SameAccount(c, d) /\ d.call = NoStream /\ d.pipe = <<>>
  <2>1. /\ Sane(DisableNetworkInternal(c)) /\ SameAccount(c, DisableNetworkInternal(c))
        /\ DisableNetworkInternal(c).call = NoStream
        /\ DisableNetworkInternal(c).pipe = <<>>
    BY DisableSteady
  <2> QED
    BY <2>1, InhibitSane DEF SameAccount
<1>2. RestartNetwork(c, q) = FillWritePipeline(e, q)
  BY DEF RestartNetwork
<1> HIDE DEF d
<1>3. e \in ClientType /\ SameAccount(d, e)
  BY <1>1 DEF Sane, ClientType, SameAccount
<1>4. e.call = NoStream /\ e.pipe = <<>> /\ e.stream = d.stream /\ e.asks = d.asks
  BY <1>1 DEF Sane, ClientType
<1> HIDE DEF e
<1>5. Sane(e)
  BY <1>1, <1>3, <1>4 DEF Sane, StreamOK, AsksOld, IsStarted
<1>6. Steady(e, q, own)
  BY <1>4, <1>5, EmptySteady
<1>7. Steady(FillWritePipeline(e, q), q, own) /\ SameAccount(e, FillWritePipeline(e, q))
  BY <1>6, FillSteady
<1> QED
  BY <1>1, <1>2, <1>3, <1>7 DEF SameAccount

\* The first steps of a process.
LEMMA LaunchSteady ==
  ASSUME NEW u \in Users, NEW next \in Nat, NEW q \in Seq(Batch), Sorted(q),
         NEW own, Owns(own, q), provider.counter \in Nat
  PROVE  /\ Steady(EnableNetwork(Fresh(u, next), q), q, own)
         /\ EnableNetwork(Fresh(u, next), q).user = u
         /\ EnableNetwork(Fresh(u, next), q).next = next
<1> DEFINE c == [Fresh(u, next) EXCEPT !.enabled = TRUE]
<1>1. <<>> \in Seq(Batch) /\ <<>> \in Seq(Request)
  OBVIOUS
<1>2. c \in ClientType
  BY <1>1 DEF Fresh, ClientType, State
<1>3. /\ c.user = u /\ c.next = next /\ c.call = NoStream /\ c.pipe = <<>>
      /\ c.stream = "Initial" /\ c.asks = <<>>
  BY DEF Fresh
<1>4. EnableNetwork(Fresh(u, next), q) = FillWritePipeline(c, q)
  BY DEF EnableNetwork
<1> HIDE DEF c
<1>5. Sane(c)
  BY <1>2, <1>3 DEF Sane, StreamOK, AsksOld
<1>6. Steady(c, q, own)
  BY <1>3, <1>5, EmptySteady
<1>7. Steady(FillWritePipeline(c, q), q, own) /\ SameAccount(c, FillWritePipeline(c, q))
  BY <1>6, FillSteady
<1> QED
  BY <1>3, <1>4, <1>7 DEF SameAccount

LEMMA CloseSteady ==
  ASSUME NEW c, NEW q, NEW own, Steady(c, q, own), NEW state \in {"Initial", "Error"}
  PROVE  /\ Steady(Close(c, state), q, own) /\ SameAccount(c, Close(c, state))
         /\ Close(c, state).call = NoStream /\ Close(c, state).pipe = c.pipe
<1>1. /\ Sane(Close(c, state)) /\ SameAccount(c, Close(c, state))
      /\ Close(c, state).call = NoStream /\ Close(c, state).pipe = c.pipe
  BY CloseSane DEF Steady
<1> QED
  BY <1>1 DEF Steady, CallOK, PipeOK

LEMMA ClosedSteady ==
  ASSUME NEW c, NEW q, NEW own, Steady(c, q, own), provider.counter \in Nat
  PROVE  Steady(Closed(c), q, own) /\ SameAccount(c, Closed(c))
<1> DEFINE d == StartIfNeeded(c)
<1>1. Steady(d, q, own) /\ SameAccount(c, d)
  BY StartIfNeededSteady
<1>2. Closed(c) = [d EXCEPT !.shake = FALSE]
  BY DEF Closed
<1> HIDE DEF d
<1> DEFINE e == [d EXCEPT !.shake = FALSE]
<1>3. e \in ClientType
  BY <1>1 DEF Steady, Sane, ClientType
<1>4. /\ e.user = d.user /\ e.next = d.next /\ e.pipe = d.pipe
      /\ e.stream = d.stream /\ e.call = d.call /\ e.asks = d.asks
  BY <1>1 DEF Steady, Sane, ClientType
<1> HIDE DEF e
<1>5. Steady(e, q, own) /\ SameAccount(d, e)
  BY <1>1, <1>3, <1>4 DEF Steady, Sane, StreamOK, AsksOld, IsStarted, CallOK, PipeOK, SameAccount
<1> QED
  BY <1>1, <1>2, <1>5 DEF SameAccount, e

\* An answer is read; the requests stay.
LEMMA ReadSteady ==
  ASSUME NEW c, NEW q, NEW own, Steady(c, q, own), c.call # NoStream, c.call.answers # <<>>
  PROVE  /\ Steady(Read(c), q, own) /\ SameAccount(c, Read(c))
         /\ Read(c).pipe = c.pipe /\ Read(c).call # NoStream
<1>1. c \in ClientType /\ c.call \in Call
  BY DEF Steady, Sane, ClientType
<1> DEFINE call == [c.call EXCEPT !.answers = Tail(@)]
           d == [c EXCEPT !.call = call]
<1>2. Tail(c.call.answers) \in Seq(Answer)
  BY <1>1 DEF Call
<1>3. call \in Call /\ call.user = c.call.user /\ call.requests = c.call.requests
  BY <1>1, <1>2 DEF Call
<1>4. Read(c) = d /\ call # NoStream
  BY <1>1, <1>3, NoStreamAssumption DEF Read, ClientType, Call
<1> HIDE DEF call
<1>5. d \in ClientType
  BY <1>1, <1>3 DEF ClientType
<1>6. /\ d.user = c.user /\ d.next = c.next /\ d.pipe = c.pipe
      /\ d.stream = c.stream /\ d.call = call /\ d.asks = c.asks
  BY <1>1 DEF ClientType
<1> HIDE DEF d
<1> QED
  BY <1>3, <1>4, <1>5, <1>6
  DEF Steady, Sane, StreamOK, AsksOld, IsStarted, CallOK, PipeOK, SameAccount

\* A token of the account that is served opens a call for it.
LEMMA ResumeSteady ==
  ASSUME NEW c, NEW q, NEW own, Steady(c, q, own), provider.counter \in Nat,
         NEW t, t.user = c.user
  PROVE  Steady(Resume(c, t), q, own) /\ SameAccount(c, Resume(c, t))
<1> DEFINE d == [c EXCEPT !.sound = @ /\ c.stream = "Starting"]
           call == [user |-> t.user, requests |-> <<>>, answers |-> <<>>]
           e == [d EXCEPT !.stream = "Open", !.sound = @ /\ ~d.shake, !.call = call]
<1>1. c \in ClientType /\ c.user \in Users
  BY DEF Steady, Sane, ClientType
<1>2. /\ d \in ClientType /\ d.user = c.user /\ d.next = c.next /\ d.pipe = c.pipe
      /\ d.stream = c.stream /\ d.call = c.call /\ d.asks = c.asks /\ d.shake = c.shake
  BY <1>1 DEF ClientType
<1>3. Resume(c, t) = IF t.kind = "noToken" THEN Closed(Close(d, "Error"))
                     ELSE Send(e, <<Hello>>)
  <2>1. e = [d EXCEPT !.stream = "Open", !.sound = @ /\ ~c.shake, !.call = call]
    BY <1>2
  <2> QED
    BY <1>2, <2>1 DEF Resume
<1> HIDE DEF d
<1>4. Steady(d, q, own) /\ SameAccount(c, d)
  BY <1>2 DEF Steady, Sane, StreamOK, AsksOld, IsStarted, CallOK, PipeOK, SameAccount
<1>5. Steady(Closed(Close(d, "Error")), q, own) /\ SameAccount(d, Closed(Close(d, "Error")))
  <2>1. Steady(Close(d, "Error"), q, own) /\ SameAccount(d, Close(d, "Error"))
    BY <1>4, CloseSteady
  <2> QED
    BY <2>1, ClosedSteady DEF SameAccount
<1>6. call \in Call /\ call # NoStream
  <2>1. <<>> \in Seq({Hello} \cup Writes) /\ <<>> \in Seq(Answer)
    OBVIOUS
  <2>2. t.user \in Users
    BY <1>1
  <2>3. call \in Call
    BY <2>1, <2>2 DEF Call
  <2> QED
    BY <2>3, NoStreamAssumption
<1>7. call.user = c.user /\ call.requests = <<>>
  OBVIOUS
<1> HIDE DEF call
<1>8. e \in ClientType
  BY <1>2, <1>6 DEF ClientType, State
<1>9. /\ e.user = d.user /\ e.next = d.next /\ e.pipe = d.pipe
      /\ e.stream = "Open" /\ e.call = call /\ e.asks = d.asks
  BY <1>2 DEF ClientType
<1> HIDE DEF e
<1>10. Steady(e, q, own) /\ SameAccount(d, e)
  BY <1>2, <1>4, <1>6, <1>7, <1>8, <1>9
  DEF Steady, Sane, StreamOK, AsksOld, IsStarted, CallOK, PipeOK, SameAccount
<1>11. Steady(Send(e, <<Hello>>), q, own) /\ SameAccount(e, Send(e, <<Hello>>))
  <2>1. <<Hello>> \in Seq({Hello} \cup Writes)
    OBVIOUS
  <2>2. \A i \in 1..Len(<<Hello>>) : <<Hello>>[i] \in own \cup {Hello}
    OBVIOUS
  <2> QED
    BY <1>6, <1>9, <1>10, <2>1, <2>2, SendSteady
<1> QED
  BY <1>3, <1>4, <1>5, <1>10, <1>11 DEF SameAccount

-----------------------------------------------------------------------------
(* The invariant.                                                          *)

Own(u) == {w \in 1..written : author[w] = u}

\* The queues: ids grow, none is larger than the number of writes made, and an
\* account's queue holds its own writes.
QueuesInv ==
  \A u \in Users : /\ Sorted(queue[u])
                   /\ Owns(Own(u), queue[u])
                   /\ \A i \in 1..Len(queue[u]) : queue[u][i].id <= written

\* The client is steady for the account it serves and has a fresh id for it.
ClientInv ==
  /\ Steady(client, queue[client.user], Own(client.user))
  /\ client.next <= written + 1
  /\ \A i \in 1..Len(queue[client.user]) : queue[client.user][i].id < client.next

NoNotice(n) == \A j \in 1..n : mainQueue[j].kind # "notice"

\* No token is newer than the provider's counter.
CountersOld ==
  /\ \A r \in fetching : r.counter <= provider.counter
  /\ \A i \in 1..Len(mainQueue) :
       mainQueue[i].kind # "notice" => mainQueue[i].counter <= provider.counter

\* FIRAuth's user is the one the provider knows, or will know once it has run the
\* notices on the main queue.
NoticesInv ==
  /\ NoNotice(Len(mainQueue)) => provider.user = authUser
  /\ \A i \in 1..Len(mainQueue) :
       /\ mainQueue[i].kind = "notice"
       /\ \A j \in (i + 1)..Len(mainQueue) : mainQueue[j].kind # "notice"
       => mainQueue[i].user = authUser

\* A token asked for under the present counter is the provider's user's, when no
\* notice comes before it.
FreshTokens ==
  /\ \A r \in fetching :
       r.counter = provider.counter /\ NoNotice(Len(mainQueue)) => r.user = provider.user
  /\ \A i \in 1..Len(mainQueue) :
       /\ mainQueue[i].kind # "notice"
       /\ mainQueue[i].counter = provider.counter
       /\ NoNotice(i - 1)
       => mainQueue[i].user = provider.user

\* The user of what precedes the i-th operation on the worker queue.
Before(i) == IF i = 1 THEN client.user ELSE workQueue[i - 1].user

\* A token on the worker queue belongs to the account the client will serve when
\* its turn comes, and at the end of the queue that is the provider's user.
WorkInv ==
  /\ \A i \in 1..Len(workQueue) : workQueue[i].kind # "change" => workQueue[i].user = Before(i)
  /\ provider.user = Before(Len(workQueue) + 1)

AuthInv == CountersOld /\ NoticesInv /\ FreshTokens /\ WorkInv

\* The strengthening of PipelineInv and SentAsAuthor that every step preserves.
IInv == TypeOK /\ QueuesInv /\ ClientInv /\ AuthInv

LEMMA QueueTypes ==
  ASSUME TypeOK, NEW u \in Users
  PROVE  /\ queue[u] \in Seq(Batch) /\ Len(queue[u]) \in Nat
         /\ \A i \in 1..Len(queue[u]) : queue[u][i].id \in Nat /\ queue[u][i].w \in Writes
<1>1. queue[u] \in Seq(Batch)
  BY DEF TypeOK
<1>2. \A i \in 1..Len(queue[u]) : queue[u][i] \in Batch
  BY <1>1, ElementOfSeq
<1> QED
  BY <1>1, <1>2 DEF Batch

\* The id a launch or a change of account starts from is larger than any in use.
LEMMA NextIdIsFresh ==
  ASSUME TypeOK, QueuesInv
  PROVE  /\ LoadNextBatchId \in Nat
         /\ LoadNextBatchId <= written + 1
         /\ \A u \in Users : \A i \in 1..Len(queue[u]) : queue[u][i].id < LoadNextBatchId
<1> DEFINE used == {0} \cup UNION {Ids(queue[u]) : u \in Users}
           max == CHOOSE n \in used : \A k \in used : k <= n
<1>1. written \in Nat
  BY BoundsAssumption DEF TypeOK
<1>2. ASSUME NEW u \in Users, NEW n \in Ids(queue[u]) PROVE n \in 0..written
  <2>1. PICK i \in 1..Len(queue[u]) : n = queue[u][i].id
    BY QueueTypes DEF Ids
  <2> QED
    BY <1>1, <2>1, QueueTypes DEF QueuesInv
<1>3. used \in SUBSET (0..written) /\ 0 \in used
  <2>1. ASSUME NEW n \in used PROVE n \in 0..written
    <3>1. CASE n = 0
      BY <1>1, <3>1
    <3>2. CASE n # 0
      <4>1. PICK u \in Users : n \in Ids(queue[u])
        BY <2>1, <3>2
      <4> QED
        BY <1>2, <4>1
    <3> QED
      BY <3>1, <3>2
  <2>2. 0 \in used
    OBVIOUS
  <2> HIDE DEF used
  <2> QED
    BY <2>1, <2>2
<1>4. \A u \in Users : \A i \in 1..Len(queue[u]) : queue[u][i].id \in used
  <2> TAKE u \in Users
  <2> TAKE i \in 1..Len(queue[u])
  <2>1. queue[u][i].id \in Ids(queue[u])
    BY QueueTypes DEF Ids
  <2> QED
    BY <2>1
<1>5. LoadNextBatchId = 1 + max
  BY DEF LoadNextBatchId
<1> HIDE DEF used
<1>6. \E n \in used : \A k \in used : k <= n
  BY <1>1, <1>3, MaxExists
<1>7. max \in used /\ \A k \in used : k <= max
  BY <1>6
<1> HIDE DEF max
<1>8. max \in 0..written
  BY <1>3, <1>7
<1>9. \A u \in Users : \A i \in 1..Len(queue[u]) : queue[u][i].id < LoadNextBatchId
  <2> TAKE u \in Users
  <2> TAKE i \in 1..Len(queue[u])
  <2>1. queue[u][i].id <= max /\ queue[u][i].id \in Nat
    BY <1>4, <1>7, QueueTypes
  <2> QED
    BY <1>5, <1>8, <2>1
<1> QED
  BY <1>1, <1>5, <1>8, <1>9

\* From what the lemmas say of the new client to the invariant of the next state.
LEMMA ClientNext ==
  ASSUME Steady(client', queue'[client'.user], Own(client.user)'),
         provider.counter \in Nat, provider'.counter \in Nat,
         provider.counter <= provider'.counter,
         client'.next <= written' + 1,
         \A i \in 1..Len(queue'[client'.user]) : queue'[client'.user][i].id < client'.next
  PROVE  ClientInv'
<1>1. client' \in ClientType
  BY DEF Steady, Sane
<1>2. \A i \in 1..Len(client'.asks) : client'.asks[i].counter \in Nat
  <2> TAKE i \in 1..Len(client'.asks)
  <2>1. client'.asks[i] \in Request
    BY <1>1, ElementOfSeq DEF ClientType
  <2> QED
    BY <2>1 DEF Request
<1>3. AsksOld(client)'
  BY <1>2 DEF Steady, Sane, AsksOld
<1>4. StreamOK(client)'
  BY DEF Steady, Sane, StreamOK, IsStarted
<1>5. CallOK(client, Own(client.user))'
  BY DEF Steady, CallOK, Own
<1>6. PipeOK(client, queue[client.user])'
  BY DEF Steady, PipeOK, Front
<1> QED
  BY <1>1, <1>3, <1>4, <1>5, <1>6 DEF ClientInv, Steady, Sane

\* Steps that leave accounts and tokens alone.
LEMMA AuthKept ==
  ASSUME AuthInv, UNCHANGED <<auth, workQueue>>, client'.user = client.user
  PROVE  AuthInv'
BY DEF AuthInv, CountersOld, NoticesInv, FreshTokens, WorkInv, NoNotice, Before, auth

\* Steps that leave the queues alone.
LEMMA QueuesKept ==
  ASSUME QueuesInv, UNCHANGED <<queue, author, written>>
  PROVE  QueuesInv' /\ \A u \in Users : Own(u)' = Own(u)
BY DEF QueuesInv, Owns, Own, Sorted

-----------------------------------------------------------------------------
(* Steps of the client and the server.                                     *)

\* What IInv says of the parts a step works with.
LEMMA Parts ==
  ASSUME IInv
  PROVE  /\ client \in ClientType /\ client.user \in Users
         /\ written \in Nat /\ 1..written \subseteq Writes /\ provider.counter \in Nat
         /\ Sane(client)
         /\ Steady(client, queue[client.user], Own(client.user))
         /\ queue[client.user] \in Seq(Batch) /\ Sorted(queue[client.user])
         /\ Owns(Own(client.user), queue[client.user])
<1>1. client \in ClientType /\ client.user \in Users
  BY DEF IInv, TypeOK, ClientType
<1>2. written \in Nat /\ 1..written \subseteq Writes /\ provider.counter \in Nat
  BY BoundsAssumption DEF IInv, TypeOK, Writes
<1>3. Steady(client, queue[client.user], Own(client.user)) /\ Sane(client)
  BY DEF IInv, ClientInv, Steady
<1>4. /\ queue[client.user] \in Seq(Batch) /\ Sorted(queue[client.user])
      /\ Owns(Own(client.user), queue[client.user])
  BY <1>1, QueueTypes DEF IInv, QueuesInv
<1> QED
  BY <1>1, <1>2, <1>3, <1>4

\* A step that only changes the client keeps the invariant if the client stays steady.
LEMMA ClientOnly ==
  ASSUME IInv, Steady(client', queue[client.user], Own(client.user)),
         SameAccount(client, client'),
         UNCHANGED <<queue, auth, workQueue, author, told, written>>,
         doc' \in {0} \cup Writes, committed' \in SUBSET Writes, refused' \in SUBSET Writes,
         troubles' \in 0..MaxTroubles
  PROVE  IInv'
<1>1. QueuesInv' /\ Own(client.user)' = Own(client.user)
  <2>1. client'.user = client.user
    BY DEF SameAccount
  <2> QED
    BY <2>1, QueuesKept DEF IInv, Own
<1>2. ClientInv'
  <2>1. client'.user = client.user /\ client'.next = client.next /\ provider' = provider
    BY DEF SameAccount, auth
  <2> QED
    BY <1>1, <2>1, Parts, ClientNext DEF IInv, ClientInv
<1>3. AuthInv'
  BY AuthKept DEF IInv, SameAccount
<1>4. TypeOK'
  BY DEF IInv, TypeOK, Steady, Sane, auth
<1> QED
  BY <1>1, <1>2, <1>3, <1>4 DEF IInv

LEMMA HandshakeKeeps ==
  ASSUME IInv, HandshakeComplete
  PROVE  IInv'
<1> DEFINE c == [Read(client) EXCEPT !.shake = TRUE]
           q == queue[client.user]
           own == Own(client.user)
<1>1. /\ Steady(Read(client), q, own) /\ SameAccount(client, Read(client))
      /\ Read(client).pipe = client.pipe /\ Read(client).call # NoStream
  BY Parts, ReadSteady DEF HandshakeComplete, Answered
<1>2. /\ c \in ClientType /\ c.user = Read(client).user /\ c.next = Read(client).next
      /\ c.pipe = client.pipe /\ c.stream = Read(client).stream
      /\ c.call = Read(client).call /\ c.asks = Read(client).asks
  BY <1>1 DEF Steady, Sane, ClientType
<1>3. client' = IF c.pipe = <<>> THEN c ELSE WriteMutations(c, c.pipe)
  BY DEF HandshakeComplete
<1> HIDE DEF c
<1>4. Steady(c, q, own) /\ SameAccount(client, c) /\ c.call # NoStream
  BY <1>1, <1>2 DEF Steady, Sane, StreamOK, AsksOld, IsStarted, CallOK, PipeOK, SameAccount
<1>5. c.pipe \in Seq(Batch) /\ Owns(own, c.pipe)
  <2>1. c.pipe \in Seq(Batch) /\ Front(c.pipe, q)
    BY <1>2, <1>4 DEF ClientType, Steady, PipeOK
  <2>2. Len(c.pipe) \in Nat /\ Len(q) \in Nat
    BY <2>1, Parts
  <2> HIDE DEF q, own
  <2>3. Owns(own, q)
    BY Parts DEF q, own
  <2> QED
    BY <2>1, <2>2, <2>3 DEF Owns, Front
<1>6. Steady(WriteMutations(c, c.pipe), q, own) /\ SameAccount(c, WriteMutations(c, c.pipe))
  BY <1>4, <1>5, WriteMutationsSteady
<1>7. Steady(client', q, own) /\ SameAccount(client, client')
  BY <1>3, <1>4, <1>6 DEF SameAccount
<1>8. /\ doc' \in {0} \cup Writes /\ committed' \in SUBSET Writes /\ refused' \in SUBSET Writes
      /\ troubles' \in 0..MaxTroubles
  BY DEF HandshakeComplete, server, bounds, IInv, TypeOK
<1> QED
  BY <1>7, <1>8, ClientOnly DEF HandshakeComplete, history, bounds

\* Timers and broken streams.
LEMMA TimersKeep ==
  ASSUME IInv, BackoffElapsed \/ IdleTimeout
  PROVE  IInv'
<1> DEFINE q == queue[client.user]
           own == Own(client.user)
<1>1. Steady(client', q, own) /\ SameAccount(client, client')
  <2>1. CASE BackoffElapsed
    <3> DEFINE d == [client EXCEPT !.timer = FALSE, !.sound = @ /\ client.stream = "Backoff",
                                   !.stream = "Initial"]
    <3>1. /\ d \in ClientType /\ SameAccount(client, d) /\ d.asks = client.asks
          /\ d.call = client.call /\ d.pipe = client.pipe
      BY Parts DEF ClientType, State, SameAccount
    <3>2. client' = Start(d)
      BY <2>1 DEF BackoffElapsed
    <3> HIDE DEF d
    <3>3. AsksOld(d)
      BY <3>1, Parts DEF Sane, AsksOld
    <3>4. /\ Sane(Start(d)) /\ SameAccount(d, Start(d))
          /\ Start(d).call = d.call /\ Start(d).pipe = d.pipe
      BY <3>1, <3>3, Parts, StartSane
    <3> QED
      BY <3>1, <3>2, <3>4, Parts DEF Steady, CallOK, PipeOK, SameAccount
  <2>2. CASE IdleTimeout
    <3>1. /\ Sane(Stop(client)) /\ SameAccount(client, Stop(client))
          /\ Stop(client).call = NoStream /\ Stop(client).pipe = client.pipe
      BY Parts, StopSane
    <3> QED
      BY <2>2, <3>1, Parts DEF IdleTimeout, Steady, CallOK, PipeOK
  <2> QED
    BY <2>1, <2>2
<1>2. /\ doc' \in {0} \cup Writes /\ committed' \in SUBSET Writes /\ refused' \in SUBSET Writes
      /\ troubles' \in 0..MaxTroubles
  BY DEF BackoffElapsed, IdleTimeout, server, bounds, IInv, TypeOK
<1> QED
  BY <1>1, <1>2, ClientOnly DEF BackoffElapsed, IdleTimeout, history, bounds

LEMMA TroubleTyped ==
  ASSUME TypeOK, Trouble
  PROVE  troubles' \in 0..MaxTroubles
BY BoundsAssumption DEF TypeOK, Trouble

LEMMA BreaksKeep ==
  ASSUME IInv, StreamBreaks \/ ConnectivityChanged
  PROVE  IInv'
<1> DEFINE q == queue[client.user]
           own == Own(client.user)
<1>1. Steady(client', q, own) /\ SameAccount(client, client')
  <2>1. CASE StreamBreaks
    <3>1. Steady(Close(client, "Error"), q, own) /\ SameAccount(client, Close(client, "Error"))
      BY Parts, CloseSteady
    <3> QED
      BY <2>1, <3>1, Parts, ClosedSteady DEF StreamBreaks, SameAccount
  <2>2. CASE ConnectivityChanged /\ client.call = NoStream
    BY <2>2, Parts, RestartSteady DEF ConnectivityChanged
  <2>3. CASE ConnectivityChanged /\ client.call # NoStream
    <3>1. PICK c : c = Closed(Close(client, "Error"))
      OBVIOUS
    <3>2. Steady(Close(client, "Error"), q, own) /\ SameAccount(client, Close(client, "Error"))
      BY Parts, CloseSteady
    <3>3. Steady(c, q, own) /\ SameAccount(client, c)
      BY <3>1, <3>2, Parts, ClosedSteady DEF SameAccount
    <3>4. client' = RestartNetwork(c, q)
      BY <2>3, <3>1 DEF ConnectivityChanged
    <3>5. Steady(RestartNetwork(c, q), q, own) /\ SameAccount(c, RestartNetwork(c, q))
      BY <3>3, Parts, RestartSteady DEF Steady
    <3> QED
      BY <3>3, <3>4, <3>5 DEF SameAccount
  <2> QED
    BY <2>1, <2>2, <2>3
<1>2. /\ doc' \in {0} \cup Writes /\ committed' \in SUBSET Writes /\ refused' \in SUBSET Writes
      /\ troubles' \in 0..MaxTroubles
  BY TroubleTyped DEF StreamBreaks, ConnectivityChanged, server, IInv, TypeOK
<1> QED
  BY <1>1, <1>2, ClientOnly DEF StreamBreaks, ConnectivityChanged, history

\* The server takes one request off the call and adds one answer.
LEMMA ServerKeeps ==
  ASSUME IInv, ServerStep
  PROVE  IInv'
<1>1. PICK kind \in {"hello", "committed", "refused"}, w \in {Hello} \cup Writes :
        ServerReads(kind, w)
  BY DEF ServerStep, ServerGreets, ServerCommits, ServerRefuses
<1> DEFINE q == queue[client.user]
           own == Own(client.user)
           call == [client.call EXCEPT !.requests = Tail(@),
                                       !.answers = Append(@, [kind |-> kind, w |-> w])]
<1>2. client \in ClientType /\ client.call \in Call /\ client.call.requests # <<>>
  BY <1>1, Parts DEF ServerReads, ClientType
<1>3. client' = [client EXCEPT !.call = call]
  BY <1>1, <1>2 DEF ServerReads, ClientType
<1>4. /\ Tail(client.call.requests) \in Seq({Hello} \cup Writes)
      /\ \A i \in 1..Len(Tail(client.call.requests)) :
           /\ i + 1 \in 1..Len(client.call.requests)
           /\ Tail(client.call.requests)[i] = client.call.requests[i + 1]
  BY <1>2, HeadTailProperties, EmptySeq DEF Call
<1>5. Append(client.call.answers, [kind |-> kind, w |-> w]) \in Seq(Answer)
  BY <1>2 DEF Call, Answer
<1>6. /\ call \in Call /\ call.user = client.call.user
      /\ call.requests = Tail(client.call.requests)
  BY <1>2, <1>4, <1>5 DEF Call
<1> HIDE DEF call
<1>7. /\ client' \in ClientType /\ client'.user = client.user /\ client'.next = client.next
      /\ client'.pipe = client.pipe /\ client'.stream = client.stream
      /\ client'.call = call /\ client'.asks = client.asks
  BY <1>2, <1>3, <1>6 DEF ClientType
<1>8. client.call # NoStream /\ call # NoStream
  BY <1>1, <1>6, NoStreamAssumption DEF ServerReads
<1>9. Steady(client', q, own) /\ SameAccount(client, client')
  <2>1. Steady(client, q, own)
    BY Parts
  <2> HIDE DEF q, own
  <2> QED
    BY <1>4, <1>6, <1>7, <1>8, <2>1, ZenonT(40)
    DEF Steady, Sane, StreamOK, AsksOld, IsStarted, CallOK, PipeOK, SameAccount
<1>10. /\ doc' \in {0} \cup Writes /\ committed' \in SUBSET Writes /\ refused' \in SUBSET Writes
       /\ troubles' \in 0..MaxTroubles
  BY DEF ServerStep, ServerGreets, ServerCommits, ServerRefuses, ServerReads, server, bounds,
         IInv, TypeOK
<1> QED
  BY <1>1, <1>9, <1>10, ClientOnly DEF ServerReads, history, bounds

-----------------------------------------------------------------------------
(* Steps that change a queue.                                              *)

\* Resolving the front of the pipeline takes the first batch off the queue.
LEMMA FrontResolvedSteady ==
  ASSUME IInv, NEW c, Steady(c, queue[client.user], Own(client.user)), c.pipe # <<>>,
         c.user = client.user
  PROVE  /\ queue[client.user] # <<>>
         /\ Remove(queue[client.user], Head(c.pipe).id) = Tail(queue[client.user])
         /\ Steady(FrontResolved(c), Tail(queue[client.user]), Own(client.user))
         /\ SameAccount(c, FrontResolved(c))
<1> DEFINE q == queue[client.user]
           own == Own(client.user)
           id == Head(c.pipe).id
           d == [c EXCEPT !.pipe = Tail(@),
                          !.callbacks[c.user] = @ \ Notified(id),
                          !.sound = @ /\ id \in Ids(queue[c.user])]
<1>1. q \in Seq(Batch) /\ Sorted(q) /\ Owns(own, q)
  BY Parts
<1>2. c \in ClientType /\ c.pipe \in Seq(Batch) /\ Front(c.pipe, q)
  BY DEF Steady, Sane, PipeOK, ClientType
<1>3. q # <<>> /\ Head(c.pipe) = q[1]
  BY <1>1, <1>2 DEF Front
<1>4. Remove(q, id) = Tail(q)
  BY <1>1, <1>3, RemoveHead
<1>5. Tail(q) \in Seq(Batch) /\ Sorted(Tail(q)) /\ Owns(own, Tail(q))
  <2>1. /\ Len(q) \in Nat /\ Len(Tail(q)) = Len(q) - 1 /\ Tail(q) \in Seq(Batch)
        /\ \A i \in 1..Len(Tail(q)) : Tail(q)[i] = q[i + 1]
    BY <1>1, <1>3, HeadTailProperties, EmptySeq
  <2>2. Sorted(Tail(q))
    BY <1>1, <1>3, TailSorted
  <2> HIDE DEF q, own
  <2>3. \A i \in 1..Len(Tail(q)) : i + 1 \in 1..Len(q)
    BY <2>1
  <2> QED
    BY <1>1, <2>1, <2>2, <2>3 DEF Owns
<1>6. /\ Tail(c.pipe) \in Seq(Batch) /\ Front(Tail(c.pipe), Tail(q))
      /\ Len(Tail(c.pipe)) <= kMaxPendingWrites
  <2>1. /\ Len(c.pipe) \in Nat /\ Len(Tail(c.pipe)) = Len(c.pipe) - 1
        /\ Tail(c.pipe) \in Seq(Batch)
        /\ \A i \in 1..Len(Tail(c.pipe)) : Tail(c.pipe)[i] = c.pipe[i + 1]
    BY <1>2, HeadTailProperties, EmptySeq
  <2>2. /\ Len(q) \in Nat /\ Len(Tail(q)) = Len(q) - 1
        /\ \A i \in 1..Len(Tail(q)) : Tail(q)[i] = q[i + 1]
    BY <1>1, <1>3, HeadTailProperties, EmptySeq
  <2>3. Len(c.pipe) <= kMaxPendingWrites
    BY DEF Steady, PipeOK
  <2> QED
    BY <1>2, <2>1, <2>2, <2>3, PipelineAssumption DEF Front
<1>7. c.callbacks \in [Users -> SUBSET Batch] /\ c.user \in Users
  BY <1>2 DEF ClientType
<1> DEFINE cb == [c.callbacks EXCEPT ![c.user] = @ \ Notified(id)]
<1>8. cb \in [Users -> SUBSET Batch]
  BY <1>7
<1>9. d = [c EXCEPT !.pipe = Tail(c.pipe), !.callbacks = cb,
                    !.sound = @ /\ id \in Ids(queue[c.user])]
  BY <1>2 DEF ClientType
<1>10. FrontResolved(c) = FillWritePipeline(d, Tail(q))
  BY <1>4 DEF FrontResolved
<1> HIDE DEF cb, d
<1>11. /\ d \in ClientType /\ d.user = c.user /\ d.next = c.next /\ d.pipe = Tail(c.pipe)
       /\ d.stream = c.stream /\ d.call = c.call /\ d.asks = c.asks
  BY <1>2, <1>6, <1>8, <1>9 DEF ClientType
<1>12. Steady(d, Tail(q), own) /\ SameAccount(c, d)
  BY <1>6, <1>11 DEF Steady, Sane, StreamOK, AsksOld, IsStarted, CallOK, PipeOK, SameAccount
<1>13. /\ Steady(FillWritePipeline(d, Tail(q)), Tail(q), own)
       /\ SameAccount(d, FillWritePipeline(d, Tail(q)))
  BY <1>5, <1>12, Parts, FillSteady
<1> QED
  BY <1>3, <1>4, <1>10, <1>12, <1>13 DEF SameAccount

\* The first batch of the account that is served leaves its queue.
LEMMA ResolvedKeeps ==
  ASSUME IInv, queue[client.user] # <<>>,
         queue' = [queue EXCEPT ![client.user] = Tail(queue[client.user])],
         Steady(client', Tail(queue[client.user]), Own(client.user)),
         SameAccount(client, client'),
         NEW verdict \in {"ok", "failed"}, NEW id, NotifyUser(id, verdict),
         UNCHANGED <<auth, workQueue, server, author, bounds>>
  PROVE  IInv'
<1> DEFINE q == queue[client.user]
<1>1. client'.user = client.user /\ client'.next = client.next /\ client.user \in Users
  BY Parts DEF SameAccount
<1>2. queue'[client.user] = Tail(q) /\ \A u \in Users \ {client.user} : queue'[u] = queue[u]
  BY <1>1 DEF IInv, TypeOK
<1>3. /\ Len(q) \in Nat /\ Len(Tail(q)) = Len(q) - 1 /\ Tail(q) \in Seq(Batch)
      /\ \A i \in 1..Len(Tail(q)) : i + 1 \in 1..Len(q) /\ Tail(q)[i] = q[i + 1]
  BY Parts, HeadTailProperties, EmptySeq
<1>4. TypeOK'
  <2>1. queue' \in [Users -> Seq(Batch)]
    BY <1>1, <1>3 DEF IInv, TypeOK
  <2>2. told' \in [Writes -> {"nothing", "ok", "failed"}]
    BY DEF NotifyUser, IInv, TypeOK
  <2> QED
    BY <2>1, <2>2 DEF IInv, TypeOK, Steady, Sane, auth, server, bounds
<1>5. \A u \in Users : Own(u)' = Own(u)
  BY DEF Own, bounds
<1>6. QueuesInv'
  <2> SUFFICES ASSUME NEW u \in Users
               PROVE  /\ Sorted(queue'[u]) /\ Owns(Own(u), queue'[u])
                      /\ \A i \in 1..Len(queue'[u]) : queue'[u][i].id <= written
    <3>1. written' = written
      BY DEF bounds
    <3> QED
      BY <1>5, <3>1 DEF QueuesInv, Owns, Sorted
  <2>1. CASE u # client.user
    BY <1>2, <2>1 DEF IInv, QueuesInv
  <2>2. CASE u = client.user
    <3>1. Sorted(Tail(q))
      BY Parts, TailSorted
    <3>2. Owns(Own(client.user), Tail(q))
      BY <1>3, Parts DEF Owns
    <3>3. \A i \in 1..Len(Tail(q)) : Tail(q)[i].id <= written
      BY <1>1, <1>3 DEF IInv, QueuesInv
    <3> QED
      BY <1>2, <2>2, <3>1, <3>2, <3>3
  <2> QED
    BY <2>1, <2>2
<1>7. ClientInv'
  <2>1. Own(client.user)' = Own(client.user)
    BY <1>1 DEF Own, bounds
  <2>2. Steady(client', queue'[client'.user], Own(client.user)')
    BY <1>1, <1>2, <2>1
  <2>3. client'.next <= written' + 1
    BY <1>1 DEF IInv, ClientInv, bounds
  <2>4. \A i \in 1..Len(queue'[client'.user]) : queue'[client'.user][i].id < client'.next
    BY <1>1, <1>2, <1>3 DEF IInv, ClientInv
  <2>5. provider' = provider /\ provider.counter \in Nat /\ provider.counter <= provider.counter
    BY Parts DEF auth
  <2> HIDE DEF q
  <2> QED
    BY <2>2, <2>3, <2>4, <2>5, ClientNext, Zenon
<1>8. AuthInv'
  BY <1>1, AuthKept DEF IInv
<1> QED
  BY <1>4, <1>6, <1>7, <1>8 DEF IInv

LEMMA MutationResultKeeps ==
  ASSUME IInv, MutationResult
  PROVE  IInv'
<1> DEFINE q == queue[client.user]
           own == Own(client.user)
           c == Read(client)
<1>1. Steady(c, q, own) /\ SameAccount(client, c) /\ c.pipe = client.pipe
  BY Parts, ReadSteady DEF MutationResult, Answered
<1> HIDE DEF c
<1>2. CASE client.pipe = <<>>
  <2>1. client' = [c EXCEPT !.sound = FALSE]
    BY <1>2 DEF MutationResult, c
  <2>2. /\ client' \in ClientType /\ client'.user = c.user /\ client'.next = c.next
        /\ client'.pipe = c.pipe /\ client'.stream = c.stream /\ client'.call = c.call
        /\ client'.asks = c.asks
    BY <1>1, <2>1 DEF Steady, Sane, ClientType
  <2>3. Steady(client', q, own) /\ SameAccount(client, client')
    BY <1>1, <2>2
    DEF Steady, Sane, StreamOK, AsksOld, IsStarted, CallOK, PipeOK, SameAccount
  <2>4. /\ doc' \in {0} \cup Writes /\ committed' \in SUBSET Writes
        /\ refused' \in SUBSET Writes /\ troubles' \in 0..MaxTroubles
    BY DEF MutationResult, server, bounds, IInv, TypeOK
  <2> QED
    BY <1>2, <2>3, <2>4, ClientOnly DEF MutationResult, bounds
<1>3. CASE client.pipe # <<>>
  <2>1. c.user = client.user /\ c.next = client.next /\ Head(c.pipe) = Head(client.pipe)
    BY <1>1 DEF SameAccount
  <2>2. /\ q # <<>> /\ Remove(q, Head(c.pipe).id) = Tail(q)
        /\ Steady(FrontResolved(c), Tail(q), own) /\ SameAccount(c, FrontResolved(c))
    BY <1>1, <1>3, <2>1, FrontResolvedSteady
  <2>3. /\ client' = FrontResolved(c)
        /\ queue' = [queue EXCEPT ![client.user] = Tail(q)]
        /\ NotifyUser(Head(client.pipe).id, "ok")
    BY <1>3, <2>1, <2>2, Parts DEF MutationResult, ResolveFront, c, IInv, TypeOK
  <2> QED
    BY <2>1, <2>2, <2>3, ResolvedKeeps DEF MutationResult, SameAccount
<1> QED
  BY <1>2, <1>3

LEMMA WriteErrorKeeps ==
  ASSUME IInv, WriteError
  PROVE  IInv'
<1> DEFINE q == queue[client.user]
           own == Own(client.user)
           c == Close(client, "Error")
<1>1. /\ Steady(c, q, own) /\ SameAccount(client, c)
      /\ c.call = NoStream /\ c.pipe = client.pipe
  BY Parts, CloseSteady
<1> HIDE DEF c
<1>2. c.user = client.user /\ c.next = client.next
  BY <1>1 DEF SameAccount
<1>3. CASE c.pipe = <<>> \/ ~c.shake
  <2>1. client' = Closed(c) /\ UNCHANGED <<queue, told>>
    BY <1>3 DEF WriteError, c
  <2>2. Steady(Closed(c), q, own) /\ SameAccount(c, Closed(c))
    BY <1>1, Parts, ClosedSteady
  <2>3. /\ doc' \in {0} \cup Writes /\ committed' \in SUBSET Writes
        /\ refused' \in SUBSET Writes /\ troubles' \in 0..MaxTroubles
    BY DEF WriteError, server, bounds, IInv, TypeOK
  <2> QED
    BY <1>2, <2>1, <2>2, <2>3, ClientOnly DEF WriteError, bounds, SameAccount
<1>4. CASE ~(c.pipe = <<>> \/ ~c.shake)
  <2> DEFINE d == InhibitBackoff(c)
  <2>1. client' = Closed(FrontResolved(d)) /\ ResolveFront(c, "failed")
    BY <1>4 DEF WriteError, c
  <2>2. /\ Sane(d) /\ SameAccount(c, d) /\ d.call = NoStream /\ d.pipe = c.pipe
    BY <1>1, InhibitSane DEF Steady
  <2> HIDE DEF d
  <2>3. Steady(d, q, own)
    BY <1>1, <2>2 DEF Steady, CallOK, PipeOK
  <2>4. /\ q # <<>> /\ Remove(q, Head(c.pipe).id) = Tail(q)
        /\ Steady(FrontResolved(d), Tail(q), own) /\ SameAccount(d, FrontResolved(d))
    <3>1. d.user = client.user /\ d.pipe # <<>>
      BY <1>2, <1>4, <2>2 DEF SameAccount
    <3> QED
      BY <2>2, <2>3, <3>1, FrontResolvedSteady
  <2>5. /\ Steady(Closed(FrontResolved(d)), Tail(q), own)
        /\ SameAccount(FrontResolved(d), Closed(FrontResolved(d)))
    BY <2>4, Parts, ClosedSteady
  <2>6. SameAccount(client, client')
    BY <1>1, <2>1, <2>2, <2>4, <2>5 DEF SameAccount
  <2>7. /\ queue' = [queue EXCEPT ![client.user] = Tail(q)]
        /\ NotifyUser(Head(c.pipe).id, "failed")
    BY <1>2, <2>1, <2>4, Parts DEF ResolveFront, IInv, TypeOK
  <2> QED
    BY <2>1, <2>4, <2>5, <2>6, <2>7, ResolvedKeeps DEF WriteError
<1> QED
  BY <1>3, <1>4

\* A new write goes to the end of the queue of the account that is served.
LEMMA WriteKeeps ==
  ASSUME IInv, Write, NEW u \in Users, u = client.user
  PROVE  IInv'
<1> DEFINE q == queue[u]
           own == Own(u)
           w == written + 1
           batch == [id |-> client.next, w |-> w]
           r == Append(q, batch)
           cb == [client.callbacks EXCEPT ![u] = @ \cup {batch}]
           c == [client EXCEPT !.next = @ + 1, !.callbacks[u] = @ \cup {batch}]
<1>1. /\ w \in Writes /\ written \in Nat /\ client \in ClientType
      /\ q \in Seq(Batch) /\ client.next \in Nat
  <2>1. written \in Nat /\ client \in ClientType /\ q \in Seq(Batch)
    BY Parts
  <2>2. w \in Writes
    BY <2>1, BoundsAssumption DEF Write, Writes
  <2> QED
    BY <2>1, <2>2 DEF ClientType
<1>2. batch \in Batch
  BY <1>1 DEF Batch
<1>3. /\ written' = w /\ author' = [author EXCEPT ![w] = u]
      /\ queue' = [queue EXCEPT ![u] = r]
      /\ client' = FillWritePipeline(c, queue'[u])
  BY DEF Write
<1>4. queue'[u] = r /\ \A v \in Users \ {u} : queue'[v] = queue[v]
  BY <1>1, <1>3 DEF IInv, TypeOK
<1>5. /\ r \in Seq(Batch) /\ Len(q) \in Nat /\ Len(r) = Len(q) + 1
      /\ \A i \in 1..Len(q) : r[i] = q[i]
      /\ r[Len(q) + 1] = batch
  BY <1>1, <1>2, AppendProperties
<1>6. \A v \in Users : Own(v) \subseteq Own(v)' /\ Own(v)' \subseteq Writes
  BY <1>1, <1>3, Parts, BoundsAssumption, SMTT(30) DEF Own, IInv, TypeOK, Writes
<1>7. w \in Own(u)'
  <2>1. author'[w] = u /\ w \in 1..written'
    BY <1>1, <1>3 DEF IInv, TypeOK
  <2> QED
    BY <2>1 DEF Own
<1>8. Sorted(r)
  <2>1. \A i \in 1..Len(q) : q[i].id < client.next /\ q[i].id \in Nat
    BY <1>1, QueueTypes DEF IInv, ClientInv
  <2>2. Sorted(q)
    BY DEF IInv, QueuesInv
  <2>3. batch.id = client.next
    OBVIOUS
  <2> HIDE DEF batch, q, r
  <2> SUFFICES ASSUME NEW i \in 1..Len(r), NEW j \in 1..Len(r), i < j
               PROVE  r[i].id < r[j].id
    BY DEF Sorted
  <2>4. i \in 1..Len(q) /\ (j \in 1..Len(q) \/ j = Len(q) + 1)
    BY <1>5
  <2> QED
    BY <1>5, <2>1, <2>2, <2>3, <2>4 DEF Sorted
<1>9. Owns(Own(u)', r)
  <2>1. Owns(own, q)
    BY DEF IInv, QueuesInv
  <2>2. batch.w = w
    OBVIOUS
  <2> HIDE DEF batch, q, r
  <2> QED
    BY <1>1, <1>5, <1>6, <1>7, <2>1, <2>2 DEF Owns
<1>10. \A i \in 1..Len(r) : r[i].id <= w /\ r[i].id < client.next + 1
  <2>1. \A i \in 1..Len(q) : q[i].id < client.next /\ q[i].id \in Nat /\ q[i].id <= written
    BY <1>1, QueueTypes DEF IInv, ClientInv, QueuesInv
  <2>2. batch.id = client.next /\ client.next <= written + 1
    BY DEF IInv, ClientInv
  <2> HIDE DEF batch, q, r
  <2> QED
    BY <1>1, <1>5, <2>1, <2>2
<1>11. Steady(c, r, Own(u)') /\ c.user = u /\ c.next = client.next + 1
  <2>1. client.callbacks \in [Users -> SUBSET Batch]
    BY <1>1 DEF ClientType
  <2>2. cb \in [Users -> SUBSET Batch]
    BY <1>1, <1>2, <2>1
  <2>3. c = [client EXCEPT !.next = @ + 1, !.callbacks = cb]
    BY <1>1 DEF ClientType
  <2> HIDE DEF c, cb
  <2>4. /\ c \in ClientType /\ c.user = u /\ c.next = client.next + 1 /\ c.pipe = client.pipe
        /\ c.stream = client.stream /\ c.call = client.call /\ c.asks = client.asks
    <3>1. client.next + 1 \in Nat
      BY <1>1
    <3>2. c = [client EXCEPT !.next = client.next + 1, !.callbacks = cb]
      BY <1>1, <2>3 DEF ClientType
    <3> QED
      BY <1>1, <2>2, <3>1, <3>2 DEF ClientType
  <2>5. Sane(c)
    BY <2>4, Parts DEF Sane, StreamOK, AsksOld, IsStarted
  <2>6. CallOK(c, Own(u)')
    <3>1. CallOK(client, Own(u)) /\ Own(u) \subseteq Own(u)'
      BY <1>6, Parts DEF Steady
    <3> QED
      BY <2>4, <3>1 DEF CallOK
  <2>7. PipeOK(c, r)
    <3>1. PipeOK(client, q) /\ Len(client.pipe) \in Nat
      BY <1>1, Parts DEF Steady, ClientType
    <3> HIDE DEF q, r
    <3> QED
      BY <1>5, <2>4, <3>1 DEF PipeOK, Front
  <2> QED
    BY <2>4, <2>5, <2>6, <2>7 DEF Steady
<1> HIDE DEF c, r, batch, cb
<1>12. Steady(client', r, Own(u)') /\ client'.user = u /\ client'.next = client.next + 1
  BY <1>3, <1>4, <1>5, <1>8, <1>9, <1>11, Parts, FillSteady DEF SameAccount
<1>13. TypeOK'
  <2>1. queue' \in [Users -> Seq(Batch)]
    BY <1>1, <1>3, <1>5 DEF IInv, TypeOK
  <2>2. author' \in [Writes -> Users \cup {NoStream}]
    BY <1>1, <1>3 DEF IInv, TypeOK
  <2>3. written' \in 0..MaxWrites
    BY <1>1, <1>3, BoundsAssumption DEF Writes
  <2> QED
    BY <1>12, <2>1, <2>2, <2>3 DEF Write, IInv, TypeOK, Steady, Sane, auth, server
<1>14. QueuesInv'
  <2> SUFFICES ASSUME NEW v \in Users
               PROVE  /\ Sorted(queue'[v]) /\ Owns(Own(v)', queue'[v])
                      /\ \A i \in 1..Len(queue'[v]) : queue'[v][i].id <= written'
    BY DEF QueuesInv, Owns, Sorted
  <2>1. CASE v = u
    BY <1>3, <1>4, <1>8, <1>9, <1>10, <2>1
  <2>2. CASE v # u
    <3>1. queue'[v] = queue[v] /\ Sorted(queue[v]) /\ Owns(Own(v), queue[v])
      BY <1>4, <2>2 DEF IInv, QueuesInv
    <3>2. \A i \in 1..Len(queue[v]) : queue[v][i].id <= written + 1
      BY <1>1, QueueTypes DEF IInv, QueuesInv
    <3> QED
      BY <1>3, <1>6, <3>1, <3>2 DEF Owns
  <2> QED
    BY <2>1, <2>2
<1>15. ClientInv'
  <2>1. Steady(client', queue'[client'.user], Own(client.user)')
    <3>1. Own(client.user)' = Own(u)'
      BY <1>12 DEF Own
    <3> QED
      BY <1>4, <1>12, <3>1
  <2>2. client'.next <= written' + 1
    BY <1>1, <1>3, <1>12 DEF IInv, ClientInv
  <2>3. \A i \in 1..Len(queue'[client'.user]) : queue'[client'.user][i].id < client'.next
    BY <1>4, <1>10, <1>12
  <2>4. provider' = provider /\ provider.counter \in Nat
    BY Parts DEF Write, auth
  <2> QED
    BY <2>1, <2>2, <2>3, <2>4, ClientNext
<1>16. AuthInv'
  BY <1>12, AuthKept DEF Write, IInv
<1> QED
  BY <1>13, <1>14, <1>15, <1>16 DEF IInv

-----------------------------------------------------------------------------
(* Steps of FIRAuth, the main queue and the credentials.                   *)

\* Steps that leave the client and the queues alone.
LEMMA ClientKept ==
  ASSUME IInv, UNCHANGED <<queue, client, author, written>>, provider'.counter \in Nat,
         provider.counter <= provider'.counter
  PROVE  QueuesInv' /\ ClientInv'
<1>1. QueuesInv' /\ Own(client.user)' = Own(client.user)
  BY QueuesKept DEF IInv, Own
<1>2. Steady(client', queue'[client'.user], Own(client.user)')
  BY <1>1, Parts
<1>3. /\ client'.next <= written' + 1
      /\ \A i \in 1..Len(queue'[client'.user]) : queue'[client'.user][i].id < client'.next
  BY DEF IInv, ClientInv
<1>4. provider.counter \in Nat
  BY Parts
<1> QED
  BY <1>1, <1>2, <1>3, <1>4, ClientNext

LEMMA QueuedTypes ==
  ASSUME TypeOK
  PROVE  /\ Len(mainQueue) \in Nat /\ Len(workQueue) \in Nat
         /\ \A i \in 1..Len(mainQueue) :
              /\ mainQueue[i].user \in Users
              /\ mainQueue[i].kind \in {"notice", "token", "noToken"}
              /\ mainQueue[i].kind # "notice" => /\ mainQueue[i].counter \in Nat
                                                 /\ mainQueue[i].close \in Nat
         /\ \A i \in 1..Len(workQueue) :
              /\ workQueue[i].user \in Users
              /\ workQueue[i].kind \in {"change", "token", "noToken"}
<1>1. \A i \in 1..Len(mainQueue) :
        mainQueue[i] \in [kind : {"notice"}, user : Users]
                         \cup [kind : {"token", "noToken"}, user : Users,
                               close : Nat, counter : Nat]
  BY ElementOfSeq DEF TypeOK
<1>2. \A i \in 1..Len(workQueue) :
        workQueue[i] \in [kind : {"change"}, user : Users]
                         \cup [kind : {"token", "noToken"}, user : Users, close : Nat]
  BY ElementOfSeq DEF TypeOK
<1> QED
  BY <1>1, <1>2, SMTT(30) DEF TypeOK

LEMMA AuthChangeKeeps ==
  ASSUME IInv, NEW u \in Users, AuthChange(u)
  PROVE  IInv'
<1> DEFINE m == [kind |-> "notice", user |-> u]
           n == Len(mainQueue)
<1>1. /\ mainQueue' = Append(mainQueue, m) /\ authUser' = u
      /\ UNCHANGED <<provider, fetching, workQueue, client>>
  BY DEF AuthChange
<1>2. /\ n \in Nat /\ Len(mainQueue') = n + 1 /\ mainQueue'[n + 1] = m
      /\ \A i \in 1..n : mainQueue'[i] = mainQueue[i]
  BY <1>1 DEF IInv, TypeOK
<1>3. TypeOK'
  BY TroubleTyped, SMTT(30) DEF AuthChange, IInv, TypeOK, server, history
<1>4. QueuesInv' /\ ClientInv'
  BY Parts, ClientKept DEF AuthChange, history
<1>5. m.kind = "notice" /\ m.user = u
  OBVIOUS
<1> HIDE DEF m, n
<1>6. n + 1 \in 1..Len(mainQueue')
  BY <1>2
<1>7. CountersOld'
  BY <1>1, <1>2, <1>5 DEF IInv, AuthInv, CountersOld, n
<1>8. NoticesInv'
  <2>1. ~NoNotice(Len(mainQueue))'
    BY <1>2, <1>5, <1>6 DEF NoNotice
  <2>2. ASSUME NEW i \in 1..Len(mainQueue'), mainQueue'[i].kind = "notice",
               \A j \in (i + 1)..Len(mainQueue') : mainQueue'[j].kind # "notice"
        PROVE  mainQueue'[i].user = authUser'
    <3>1. i = n + 1
      BY <1>2, <1>5, <1>6, <2>2
    <3> QED
      BY <1>1, <1>2, <1>5, <3>1
  <2> QED
    BY <2>1, <2>2 DEF NoticesInv
<1>9. FreshTokens'
  <2>1. ~NoNotice(Len(mainQueue))'
    BY <1>2, <1>5, <1>6 DEF NoNotice
  <2>2. ASSUME NEW i \in 1..Len(mainQueue'), mainQueue'[i].kind # "notice",
               mainQueue'[i].counter = provider'.counter, NoNotice(i - 1)'
        PROVE  mainQueue'[i].user = provider'.user
    <3>1. i \in 1..n /\ mainQueue'[i] = mainQueue[i]
      BY <1>2, <1>5, <2>2
    <3>2. NoNotice(i - 1)
      BY <1>2, <2>2, <3>1 DEF NoNotice
    <3> QED
      BY <1>1, <2>2, <3>1, <3>2 DEF IInv, AuthInv, FreshTokens, n
  <2> QED
    BY <2>1, <2>2 DEF FreshTokens
<1>10. WorkInv'
  BY <1>1 DEF IInv, AuthInv, WorkInv, Before
<1> QED
  BY <1>3, <1>4, <1>7, <1>8, <1>9, <1>10 DEF IInv, AuthInv

LEMMA AuthReadsKeeps ==
  ASSUME IInv, AuthReads
  PROVE  IInv'
<1> DEFINE r == Head(client.asks)
           f == [close |-> r.close, counter |-> r.counter, user |-> authUser]
           q == queue[client.user]
           own == Own(client.user)
<1>1. /\ fetching' = fetching \cup {f} /\ client.asks # <<>>
      /\ client' = [client EXCEPT !.asks = Tail(@)]
      /\ UNCHANGED <<queue, authUser, provider, mainQueue, workQueue, author, written>>
  BY DEF AuthReads, history, bounds
<1>2. client \in ClientType /\ client.asks \in Seq(Request)
  BY Parts DEF ClientType
<1>3. /\ r \in Request /\ Tail(client.asks) \in Seq(Request)
      /\ 1 \in 1..Len(client.asks) /\ r = client.asks[1]
      /\ \A i \in 1..Len(Tail(client.asks)) : /\ i + 1 \in 1..Len(client.asks)
                                             /\ Tail(client.asks)[i] = client.asks[i + 1]
  BY <1>1, <1>2, HeadTailProperties, EmptySeq
<1>4. r.counter <= provider.counter /\ r.counter \in Nat /\ r.close \in Nat
  BY <1>3, Parts DEF Sane, AsksOld, Request
<1>5. /\ client' \in ClientType /\ client'.user = client.user /\ client'.next = client.next
      /\ client'.pipe = client.pipe /\ client'.stream = client.stream
      /\ client'.call = client.call /\ client'.asks = Tail(client.asks)
  BY <1>1, <1>2, <1>3 DEF ClientType
<1>6. Steady(client', q, own)
  <2>1. Steady(client, q, own)
    BY Parts
  <2> HIDE DEF q, own, r, f
  <2> QED
    BY <1>3, <1>5, <2>1 DEF Steady, Sane, StreamOK, AsksOld, IsStarted, CallOK, PipeOK
<1>7. QueuesInv' /\ Own(client.user)' = Own(client.user)
  BY <1>1, <1>5, QueuesKept DEF IInv, Own
<1>8. ClientInv'
  <2>1. Steady(client', queue'[client'.user], Own(client.user)')
    BY <1>1, <1>5, <1>6, <1>7
  <2>2. /\ client'.next <= written' + 1
        /\ \A i \in 1..Len(queue'[client'.user]) : queue'[client'.user][i].id < client'.next
    BY <1>1, <1>5 DEF IInv, ClientInv
  <2>3. provider' = provider /\ provider.counter \in Nat
    BY <1>1, Parts
  <2> QED
    BY <2>1, <2>2, <2>3, ClientNext
<1>9. TypeOK'
  <2>1. f \in [close : Nat, counter : Nat, user : Users]
    BY <1>4 DEF IInv, TypeOK
  <2> QED
    BY <1>1, <1>5, <2>1 DEF AuthReads, IInv, TypeOK, server, history, bounds
<1>10. CountersOld'
  BY <1>1, <1>4 DEF IInv, AuthInv, CountersOld
<1>11. NoticesInv'
  BY <1>1 DEF IInv, AuthInv, NoticesInv, NoNotice
<1>12. FreshTokens'
  BY <1>1 DEF IInv, AuthInv, NoticesInv, FreshTokens, NoNotice
<1>13. WorkInv'
  BY <1>1, <1>5 DEF IInv, AuthInv, WorkInv, Before
<1> QED
  BY <1>7, <1>8, <1>9, <1>10, <1>11, <1>12, <1>13 DEF IInv, AuthInv

\* A token is put on the main queue: its user was FIRAuth's when it was asked for.
LEMMA TokenArrivesKeeps ==
  ASSUME IInv, NEW kind \in {"token", "noToken"}, TokenArrives(kind),
         troubles' \in 0..MaxTroubles
  PROVE  IInv'
<1>1. PICK r \in fetching :
        /\ fetching' = fetching \ {r}
        /\ mainQueue' = Append(mainQueue, [kind |-> kind, user |-> r.user,
                                           close |-> r.close, counter |-> r.counter])
  BY DEF TokenArrives
<1> DEFINE m == [kind |-> kind, user |-> r.user, close |-> r.close, counter |-> r.counter]
           n == Len(mainQueue)
<1>2. UNCHANGED <<queue, client, authUser, provider, workQueue, author, written>>
  BY DEF TokenArrives, history
<1>3. r.user \in Users /\ r.close \in Nat /\ r.counter \in Nat
  BY DEF IInv, TypeOK
<1>4. /\ n \in Nat /\ Len(mainQueue') = n + 1 /\ mainQueue'[n + 1] = m
      /\ \A i \in 1..n : mainQueue'[i] = mainQueue[i]
  BY <1>1 DEF IInv, TypeOK
<1>5. TypeOK'
  <2>1. m \in [kind : {"token", "noToken"}, user : Users, close : Nat, counter : Nat]
    BY <1>3
  <2> HIDE DEF m
  <2>2. mainQueue' \in Seq([kind : {"notice"}, user : Users]
                           \cup [kind : {"token", "noToken"}, user : Users,
                                 close : Nat, counter : Nat])
    BY <1>1, <2>1 DEF m, IInv, TypeOK
  <2> QED
    BY <1>1, <1>2, <2>2 DEF TokenArrives, IInv, TypeOK, server, history
<1>6. QueuesInv' /\ ClientInv'
  BY <1>2, Parts, ClientKept
<1>7. m.kind # "notice" /\ m.user = r.user /\ m.counter = r.counter
  OBVIOUS
<1> HIDE DEF m, n
<1>8. NoNotice(Len(mainQueue))' <=> NoNotice(n)
  BY <1>4, <1>7 DEF NoNotice
<1>9. CountersOld'
  BY <1>1, <1>2, <1>4, <1>7 DEF IInv, AuthInv, CountersOld, n
<1>10. NoticesInv'
  <2>1. ASSUME NEW i \in 1..Len(mainQueue'), mainQueue'[i].kind = "notice",
               \A j \in (i + 1)..Len(mainQueue') : mainQueue'[j].kind # "notice"
        PROVE  mainQueue'[i].user = authUser'
    <3>1. i \in 1..n /\ mainQueue'[i] = mainQueue[i]
      BY <1>4, <1>7, <2>1
    <3>2. \A j \in (i + 1)..n : mainQueue[j].kind # "notice"
      BY <1>4, <2>1, <3>1
    <3> QED
      BY <1>2, <2>1, <3>1, <3>2 DEF IInv, AuthInv, NoticesInv, n
  <2> QED
    BY <1>2, <1>8, <2>1 DEF IInv, AuthInv, NoticesInv, n
<1>11. FreshTokens'
  <2>1. ASSUME NEW i \in 1..Len(mainQueue'), mainQueue'[i].kind # "notice",
               mainQueue'[i].counter = provider'.counter, NoNotice(i - 1)'
        PROVE  mainQueue'[i].user = provider'.user
    <3>1. CASE i \in 1..n
      <4>1. NoNotice(i - 1)
        BY <1>4, <2>1, <3>1 DEF NoNotice
      <4> QED
        BY <1>2, <1>4, <2>1, <3>1, <4>1 DEF IInv, AuthInv, FreshTokens, n
    <3>2. CASE i = n + 1
      <4>1. NoNotice(n)
        BY <1>4, <2>1, <3>2 DEF NoNotice
      <4> QED
        BY <1>2, <1>4, <1>7, <2>1, <3>2, <4>1 DEF IInv, AuthInv, FreshTokens, n
    <3> QED
      BY <1>4, <3>1, <3>2
  <2> QED
    BY <1>1, <1>2, <1>8, <2>1 DEF IInv, AuthInv, FreshTokens, n
<1>12. WorkInv'
  BY <1>2 DEF IInv, AuthInv, WorkInv, Before
<1> QED
  BY <1>5, <1>6, <1>9, <1>10, <1>11, <1>12 DEF IInv, AuthInv

\* The head of the main queue is taken off.
LEMMA MainTail ==
  ASSUME TypeOK, mainQueue # <<>>, mainQueue' = Tail(mainQueue)
  PROVE  /\ Len(mainQueue) \in Nat /\ Len(mainQueue') = Len(mainQueue) - 1
         /\ 1 \in 1..Len(mainQueue) /\ Head(mainQueue) = mainQueue[1]
         /\ \A i \in 1..Len(mainQueue') : /\ i + 1 \in 1..Len(mainQueue)
                                          /\ mainQueue'[i] = mainQueue[i + 1]
         /\ mainQueue' \in Seq([kind : {"notice"}, user : Users]
                               \cup [kind : {"token", "noToken"}, user : Users,
                                     close : Nat, counter : Nat])
BY HeadTailProperties, EmptySeq DEF TypeOK

\* The head of the worker queue is taken off.
LEMMA WorkTail ==
  ASSUME TypeOK, workQueue # <<>>, workQueue' = Tail(workQueue)
  PROVE  /\ Len(workQueue) \in Nat /\ Len(workQueue') = Len(workQueue) - 1
         /\ 1 \in 1..Len(workQueue) /\ Head(workQueue) = workQueue[1]
         /\ \A i \in 1..Len(workQueue') : /\ i + 1 \in 1..Len(workQueue)
                                          /\ workQueue'[i] = workQueue[i + 1]
         /\ workQueue' \in Seq([kind : {"change"}, user : Users]
                               \cup [kind : {"token", "noToken"}, user : Users, close : Nat])
BY HeadTailProperties, EmptySeq DEF TypeOK

\* An operation of the provider's user goes to the end of the worker queue.
LEMMA WorkAppended ==
  ASSUME TypeOK, WorkInv, NEW x, workQueue' = Append(workQueue, x), client'.user = client.user,
         provider'.user = x.user, x.kind # "change" => x.user = provider.user
  PROVE  WorkInv'
<1> DEFINE n == Len(workQueue)
<1>1. /\ n \in Nat /\ Len(workQueue') = n + 1 /\ workQueue'[n + 1] = x
      /\ \A i \in 1..n : workQueue'[i] = workQueue[i]
  BY DEF TypeOK
<1> HIDE DEF n
<1>2. ASSUME NEW i \in 1..(n + 1) PROVE Before(i)' = Before(i)
  <2>1. i = 1 \/ i - 1 \in 1..n
    BY <1>1
  <2> QED
    BY <1>1, <2>1 DEF Before
<1>3. ASSUME NEW i \in 1..Len(workQueue'), workQueue'[i].kind # "change"
      PROVE  workQueue'[i].user = Before(i)'
  <2>1. CASE i \in 1..n
    BY <1>1, <1>2, <1>3, <2>1 DEF WorkInv, n
  <2>2. CASE i = n + 1
    BY <1>1, <1>2, <1>3, <2>2 DEF WorkInv, n
  <2> QED
    BY <1>1, <2>1, <2>2
<1>4. provider'.user = Before(Len(workQueue) + 1)'
  BY <1>1 DEF Before
<1> QED
  BY <1>3, <1>4 DEF WorkInv

\* The head of the worker queue is done: the client serves its user.
LEMMA WorkDone ==
  ASSUME TypeOK, WorkInv, workQueue # <<>>, workQueue' = Tail(workQueue),
         client'.user = Head(workQueue).user, provider' = provider
  PROVE  WorkInv'
<1> DEFINE n == Len(workQueue)
<1>1. /\ n \in Nat /\ Len(workQueue') = n - 1 /\ 1 \in 1..n /\ Head(workQueue) = workQueue[1]
      /\ \A i \in 1..(n - 1) : i + 1 \in 1..n /\ workQueue'[i] = workQueue[i + 1]
  BY WorkTail
<1> HIDE DEF n
<1>2. ASSUME NEW i \in 1..n PROVE Before(i)' = Before(i + 1)
  <2>1. CASE i = 1
    BY <1>1, <2>1 DEF Before
  <2>2. CASE i # 1
    <3>1. i - 1 \in 1..(n - 1) /\ i + 1 # 1 /\ i + 1 - 1 = i /\ i - 1 + 1 = i
      BY <1>1, <2>2
    <3> QED
      BY <1>1, <2>2, <3>1 DEF Before
  <2> QED
    BY <2>1, <2>2
<1>3. ASSUME NEW i \in 1..Len(workQueue'), workQueue'[i].kind # "change"
      PROVE  workQueue'[i].user = Before(i)'
  <2>1. i \in 1..n /\ i + 1 \in 1..n /\ workQueue'[i] = workQueue[i + 1]
    BY <1>1
  <2> QED
    BY <1>2, <1>3, <2>1 DEF WorkInv, n
<1>4. provider'.user = Before(Len(workQueue) + 1)'
  <2>1. PICK k \in 1..n : k = n
    BY <1>1
  <2>2. Len(workQueue') + 1 = k
    BY <1>1, <2>1
  <2>3. Before(Len(workQueue) + 1)' = Before(k)'
    BY <2>2 DEF Before
  <2> QED
    BY <1>2, <2>1, <2>3 DEF WorkInv, n
<1> QED
  BY <1>3, <1>4 DEF WorkInv

\* A notice makes every token asked for so far out of date.
LEMMA NoticeRunsKeeps ==
  ASSUME IInv, NoticeRuns
  PROVE  IInv'
<1> DEFINE u == Head(mainQueue).user
           x == [kind |-> "change", user |-> u]
<1>1. /\ mainQueue # <<>> /\ Head(mainQueue).kind = "notice" /\ mainQueue' = Tail(mainQueue)
      /\ provider' = [user |-> u, counter |-> provider.counter + 1]
      /\ workQueue' = Append(workQueue, x)
      /\ UNCHANGED <<queue, client, authUser, fetching, author, written>>
  BY DEF NoticeRuns, history, bounds
<1>2. /\ Len(mainQueue) \in Nat /\ Len(mainQueue') = Len(mainQueue) - 1
      /\ 1 \in 1..Len(mainQueue) /\ Head(mainQueue) = mainQueue[1]
      /\ \A i \in 1..Len(mainQueue') : /\ i + 1 \in 1..Len(mainQueue)
                                       /\ mainQueue'[i] = mainQueue[i + 1]
  BY <1>1, MainTail DEF IInv
<1>3. u \in Users /\ provider.counter \in Nat
  BY <1>2, QueuedTypes, Parts DEF IInv
<1>4. /\ provider'.counter = provider.counter + 1 /\ provider'.counter \in Nat
      /\ provider.counter < provider'.counter /\ provider'.user = u
  BY <1>1, <1>3
<1>5. x.kind = "change" /\ x.user = u
  OBVIOUS
<1>6. TypeOK'
  <2>1. x \in [kind : {"change"}, user : Users]
    BY <1>3
  <2>2. workQueue' \in Seq([kind : {"change"}, user : Users]
                           \cup [kind : {"token", "noToken"}, user : Users, close : Nat])
    BY <1>1, <2>1 DEF IInv, TypeOK
  <2>3. provider' \in [user : Users, counter : Nat]
    BY <1>1, <1>3
  <2> HIDE DEF x
  <2> QED
    BY <1>1, <2>2, <2>3, MainTail DEF NoticeRuns, IInv, TypeOK, server, history, bounds
<1> HIDE DEF x, u
<1>7. QueuesInv' /\ ClientInv'
  BY <1>1, <1>3, <1>4, ClientKept
<1>8. CountersOld'
  <2>1. ASSUME NEW i \in 1..Len(mainQueue'), mainQueue'[i].kind # "notice"
        PROVE  mainQueue'[i].counter <= provider'.counter
    <3>1. mainQueue'[i] = mainQueue[i + 1] /\ i + 1 \in 1..Len(mainQueue)
      BY <1>2
    <3>2. mainQueue[i + 1].counter <= provider.counter /\ mainQueue[i + 1].counter \in Nat
      BY <2>1, <3>1, QueuedTypes DEF IInv, AuthInv, CountersOld
    <3> QED
      BY <1>3, <1>4, <3>1, <3>2
  <2>2. ASSUME NEW r \in fetching' PROVE r.counter <= provider'.counter
    <3>1. r.counter <= provider.counter /\ r.counter \in Nat
      BY <1>1 DEF IInv, AuthInv, CountersOld, TypeOK
    <3> QED
      BY <1>3, <1>4, <3>1
  <2> QED
    BY <2>1, <2>2 DEF CountersOld
<1>9. NoticesInv'
  <2>1. ASSUME NoNotice(Len(mainQueue))' PROVE provider'.user = authUser'
    <3>1. \A j \in 2..Len(mainQueue) : mainQueue[j].kind # "notice"
      <4> TAKE j \in 2..Len(mainQueue)
      <4>1. j - 1 \in 1..Len(mainQueue') /\ j - 1 + 1 = j
        BY <1>2
      <4> QED
        BY <1>2, <2>1, <4>1 DEF NoNotice
    <3>2. mainQueue[1].user = authUser
      BY <1>1, <1>2, <3>1 DEF IInv, AuthInv, NoticesInv
    <3> QED
      BY <1>1, <1>2, <1>4, <3>2 DEF u
  <2>2. ASSUME NEW i \in 1..Len(mainQueue'), mainQueue'[i].kind = "notice",
               \A j \in (i + 1)..Len(mainQueue') : mainQueue'[j].kind # "notice"
        PROVE  mainQueue'[i].user = authUser'
    <3>1. i + 1 \in 1..Len(mainQueue) /\ mainQueue'[i] = mainQueue[i + 1]
      BY <1>2
    <3>2. \A j \in (i + 1 + 1)..Len(mainQueue) : mainQueue[j].kind # "notice"
      <4> TAKE j \in (i + 1 + 1)..Len(mainQueue)
      <4>1. j - 1 \in (i + 1)..Len(mainQueue') /\ j - 1 \in 1..Len(mainQueue') /\ j - 1 + 1 = j
        BY <1>2
      <4> QED
        BY <1>2, <2>2, <4>1
    <3> QED
      BY <1>1, <2>2, <3>1, <3>2 DEF IInv, AuthInv, NoticesInv
  <2> QED
    BY <2>1, <2>2 DEF NoticesInv
<1>10. FreshTokens'
  <2>1. ASSUME NEW i \in 1..Len(mainQueue'), mainQueue'[i].kind # "notice"
        PROVE  mainQueue'[i].counter # provider'.counter
    <3>1. mainQueue'[i] = mainQueue[i + 1] /\ i + 1 \in 1..Len(mainQueue)
      BY <1>2
    <3>2. mainQueue[i + 1].counter <= provider.counter /\ mainQueue[i + 1].counter \in Nat
      BY <2>1, <3>1, QueuedTypes DEF IInv, AuthInv, CountersOld
    <3> QED
      BY <1>3, <1>4, <3>1, <3>2
  <2>2. ASSUME NEW r \in fetching' PROVE r.counter # provider'.counter
    <3>1. r.counter <= provider.counter /\ r.counter \in Nat
      BY <1>1 DEF IInv, AuthInv, CountersOld, TypeOK
    <3> QED
      BY <1>3, <1>4, <3>1
  <2> QED
    BY <2>1, <2>2 DEF FreshTokens
<1>11. WorkInv'
  BY <1>1, <1>4, <1>5, WorkAppended DEF IInv, AuthInv
<1> QED
  BY <1>6, <1>7, <1>8, <1>9, <1>10, <1>11 DEF IInv, AuthInv

\* A token that no notice has outdated passes on to the worker queue, any other is
\* asked for again.
LEMMA TokenCallbackKeeps ==
  ASSUME IInv, TokenCallback
  PROVE  IInv'
<1> DEFINE t == Head(mainQueue)
           q == queue[client.user]
           own == Own(client.user)
<1>1. /\ mainQueue # <<>> /\ t.kind # "notice" /\ mainQueue' = Tail(mainQueue)
      /\ UNCHANGED <<queue, authUser, provider, fetching, author, written>>
  BY DEF TokenCallback, history, bounds
<1>2. /\ Len(mainQueue) \in Nat /\ Len(mainQueue') = Len(mainQueue) - 1
      /\ 1 \in 1..Len(mainQueue) /\ t = mainQueue[1]
      /\ \A i \in 1..Len(mainQueue') : /\ i + 1 \in 1..Len(mainQueue)
                                       /\ mainQueue'[i] = mainQueue[i + 1]
  BY <1>1, MainTail DEF IInv
<1>3. /\ t.user \in Users /\ t.counter \in Nat /\ t.close \in Nat
      /\ t.kind \in {"token", "noToken"}
  BY <1>1, <1>2, QueuedTypes DEF IInv
<1> HIDE DEF t
<1>4. Steady(client', q, own) /\ SameAccount(client, client') /\ WorkInv' /\
      workQueue' \in Seq([kind : {"change"}, user : Users]
                         \cup [kind : {"token", "noToken"}, user : Users, close : Nat])
  <2>1. CASE t.counter # provider.counter
    <3> DEFINE r == [close |-> t.close, counter |-> provider.counter]
               a == Append(client.asks, r)
    <3>1. client' = [client EXCEPT !.asks = Append(@, r)] /\ workQueue' = workQueue
      BY <2>1 DEF TokenCallback, t
    <3>2. r \in Request /\ client \in ClientType /\ client.asks \in Seq(Request)
      BY <1>3, Parts DEF Request, ClientType
    <3>3. a \in Seq(Request) /\ \A i \in 1..Len(a) : a[i].counter <= provider.counter
      BY <3>2, Parts DEF Sane, AsksOld
    <3>4. client' = [client EXCEPT !.asks = a]
      BY <3>1, <3>2 DEF ClientType
    <3> HIDE DEF a, r
    <3>5. /\ client' \in ClientType /\ client'.user = client.user /\ client'.next = client.next
          /\ client'.pipe = client.pipe /\ client'.stream = client.stream
          /\ client'.call = client.call /\ client'.asks = a
      BY <3>2, <3>3, <3>4 DEF ClientType
    <3>6. Steady(client', q, own) /\ SameAccount(client, client')
      <4>1. Steady(client, q, own)
        BY Parts
      <4> HIDE DEF q, own
      <4> QED
        BY <3>3, <3>5, <4>1
        DEF Steady, Sane, StreamOK, AsksOld, IsStarted, CallOK, PipeOK, SameAccount
    <3>7. WorkInv'
      BY <1>1, <3>1, <3>5 DEF IInv, AuthInv, WorkInv, Before
    <3> QED
      BY <3>1, <3>6, <3>7 DEF IInv, TypeOK
  <2>2. CASE t.counter = provider.counter
    <3> DEFINE x == [kind |-> t.kind, user |-> t.user, close |-> t.close]
    <3>1. client' = client /\ workQueue' = Append(workQueue, x)
      BY <2>2 DEF TokenCallback, t
    <3>2. t.user = provider.user
      <4>1. NoNotice(1 - 1)
        BY DEF NoNotice
      <4> QED
        BY <1>1, <1>2, <2>2, <4>1 DEF IInv, AuthInv, FreshTokens
    <3>3. x.user = t.user /\ x \in [kind : {"token", "noToken"}, user : Users, close : Nat]
      BY <1>3
    <3> HIDE DEF x
    <3>4. WorkInv'
      BY <1>1, <3>1, <3>2, <3>3, WorkAppended DEF IInv, AuthInv
    <3>5. workQueue' \in Seq([kind : {"change"}, user : Users]
                             \cup [kind : {"token", "noToken"}, user : Users, close : Nat])
      BY <3>1, <3>3 DEF IInv, TypeOK
    <3> QED
      BY <3>1, <3>4, <3>5, Parts DEF SameAccount
  <2> QED
    BY <2>1, <2>2
<1>5. client'.user = client.user /\ client'.next = client.next
  BY <1>4 DEF SameAccount
<1>6. QueuesInv' /\ Own(client.user)' = Own(client.user)
  BY <1>1, <1>5, QueuesKept DEF IInv, Own
<1>7. ClientInv'
  <2>1. Steady(client', queue'[client'.user], Own(client.user)')
    BY <1>1, <1>4, <1>5, <1>6
  <2>2. /\ client'.next <= written' + 1
        /\ \A i \in 1..Len(queue'[client'.user]) : queue'[client'.user][i].id < client'.next
    BY <1>1, <1>5 DEF IInv, ClientInv
  <2>3. provider' = provider /\ provider.counter \in Nat
    BY <1>1, Parts
  <2> QED
    BY <2>1, <2>2, <2>3, ClientNext
<1>8. TypeOK'
  BY <1>1, <1>4, MainTail
  DEF TokenCallback, IInv, TypeOK, Steady, Sane, server, history, bounds
<1>9. CountersOld'
  BY <1>1, <1>2 DEF IInv, AuthInv, CountersOld
<1>10. ASSUME NEW i \in 1..Len(mainQueue'), NEW n \in Nat, n <= Len(mainQueue'), NoNotice(n)'
       PROVE  NoNotice(n + 1)
  <2> SUFFICES ASSUME NEW j \in 1..(n + 1) PROVE mainQueue[j].kind # "notice"
    BY DEF NoNotice
  <2>1. CASE j = 1
    BY <1>1, <1>2, <2>1
  <2>2. CASE j # 1
    <3>1. j - 1 \in 1..n /\ j - 1 \in 1..Len(mainQueue') /\ j - 1 + 1 = j
      BY <1>2, <1>10, <2>2
    <3> QED
      BY <1>2, <1>10, <3>1 DEF NoNotice
  <2> QED
    BY <2>1, <2>2
<1>11. NoNotice(Len(mainQueue))' => NoNotice(Len(mainQueue))
  <2> SUFFICES ASSUME NoNotice(Len(mainQueue))', NEW j \in 1..Len(mainQueue)
               PROVE  mainQueue[j].kind # "notice"
    BY DEF NoNotice
  <2>1. CASE j = 1
    BY <1>1, <1>2, <2>1
  <2>2. CASE j # 1
    <3>1. j - 1 \in 1..Len(mainQueue') /\ j - 1 + 1 = j
      BY <1>2, <2>2
    <3> QED
      BY <1>2, <3>1 DEF NoNotice
  <2> QED
    BY <2>1, <2>2
<1>12. NoticesInv'
  <2>1. ASSUME NEW i \in 1..Len(mainQueue'), mainQueue'[i].kind = "notice",
               \A j \in (i + 1)..Len(mainQueue') : mainQueue'[j].kind # "notice"
        PROVE  mainQueue'[i].user = authUser'
    <3>1. i + 1 \in 1..Len(mainQueue) /\ mainQueue'[i] = mainQueue[i + 1]
      BY <1>2
    <3>2. \A j \in (i + 1 + 1)..Len(mainQueue) : mainQueue[j].kind # "notice"
      <4> TAKE j \in (i + 1 + 1)..Len(mainQueue)
      <4>1. j - 1 \in (i + 1)..Len(mainQueue') /\ j - 1 \in 1..Len(mainQueue') /\ j - 1 + 1 = j
        BY <1>2
      <4> QED
        BY <1>2, <2>1, <4>1
    <3> QED
      BY <1>1, <2>1, <3>1, <3>2 DEF IInv, AuthInv, NoticesInv
  <2> QED
    BY <1>1, <1>11, <2>1 DEF IInv, AuthInv, NoticesInv
<1>13. FreshTokens'
  <2>1. ASSUME NEW i \in 1..Len(mainQueue'), mainQueue'[i].kind # "notice",
               mainQueue'[i].counter = provider'.counter, NoNotice(i - 1)'
        PROVE  mainQueue'[i].user = provider'.user
    <3>1. i + 1 \in 1..Len(mainQueue) /\ mainQueue'[i] = mainQueue[i + 1]
      BY <1>2
    <3>2. NoNotice(i + 1 - 1)
      <4>1. i - 1 \in Nat /\ i - 1 <= Len(mainQueue') /\ i - 1 + 1 = i + 1 - 1
        BY <1>2
      <4> QED
        BY <1>10, <2>1, <4>1
    <3> QED
      BY <1>1, <2>1, <3>1, <3>2 DEF IInv, AuthInv, FreshTokens
  <2> QED
    BY <1>1, <1>11, <2>1 DEF IInv, AuthInv, FreshTokens
<1> QED
  BY <1>4, <1>6, <1>7, <1>8, <1>9, <1>12, <1>13 DEF IInv, AuthInv

\* The client turns to an account: its streams are restarted on that account's queue.
LEMMA HandleCredentialChangeKeeps ==
  ASSUME IInv, HandleCredentialChange, NEW u, u = Head(workQueue).user
  PROVE  IInv'
<1> DEFINE next == IF u = client.user THEN client.next ELSE LoadNextBatchId
           c == [client EXCEPT !.user = u, !.next = next]
<1>1. /\ workQueue # <<>> /\ workQueue' = Tail(workQueue)
      /\ UNCHANGED <<queue, authUser, provider, fetching, mainQueue, author, written>>
      /\ client' = RestartNetwork(IF u = client.user THEN client
                                  ELSE [client EXCEPT !.user = u, !.next = LoadNextBatchId],
                                  queue[u])
  BY DEF HandleCredentialChange, auth, history, bounds
<1>2. u \in Users
  BY <1>1, QueuedTypes, WorkTail DEF IInv
<1>3. next \in Nat /\ next <= written + 1 /\ \A i \in 1..Len(queue[u]) : queue[u][i].id < next
  BY Parts, <1>2, NextIdIsFresh DEF IInv, ClientInv, ClientType
<1>4. client' = RestartNetwork(c, queue[u])
  <2>1. c = IF u = client.user THEN client
            ELSE [client EXCEPT !.user = u, !.next = LoadNextBatchId]
    BY Parts DEF ClientType
  <2> QED
    BY <1>1, <2>1
<1> HIDE DEF next
<1>5. /\ c \in ClientType /\ c.user = u /\ c.next = next
      /\ c.stream = client.stream /\ c.call = client.call /\ c.asks = client.asks
  BY <1>2, <1>3, Parts DEF ClientType
<1> HIDE DEF c
<1>6. Sane(c)
  BY <1>5, Parts DEF Sane, StreamOK, AsksOld, IsStarted
<1>7. queue[u] \in Seq(Batch) /\ Sorted(queue[u]) /\ Owns(Own(u), queue[u])
  BY <1>2, QueueTypes DEF IInv, QueuesInv
<1>8. Steady(client', queue[u], Own(u)) /\ client'.user = u /\ client'.next = next
  BY <1>4, <1>5, <1>6, <1>7, Parts, RestartSteady DEF SameAccount
<1>9. QueuesInv' /\ Own(u)' = Own(u)
  BY <1>1, <1>2, QueuesKept DEF IInv
<1>10. ClientInv'
  <2>1. Steady(client', queue'[client'.user], Own(u)')
    BY <1>1, <1>8, <1>9
  <2>2. /\ client'.next <= written' + 1
        /\ \A i \in 1..Len(queue'[client'.user]) : queue'[client'.user][i].id < client'.next
    BY <1>1, <1>3, <1>8
  <2>3. provider' = provider /\ provider.counter \in Nat
    BY <1>1, Parts
  <2>4. Own(client.user)' = Own(u)'
    BY <1>8 DEF Own
  <2> QED
    BY <2>1, <2>2, <2>3, <2>4, ClientNext
<1>11. WorkInv'
  BY <1>1, <1>8, WorkDone DEF IInv, AuthInv
<1>12. CountersOld' /\ NoticesInv' /\ FreshTokens'
  BY <1>1 DEF IInv, AuthInv, CountersOld, NoticesInv, FreshTokens, NoNotice
<1>13. TypeOK'
  BY <1>1, <1>8, WorkTail
  DEF HandleCredentialChange, IInv, TypeOK, Steady, Sane, server, history, bounds
<1> QED
  BY <1>9, <1>10, <1>11, <1>12, <1>13 DEF IInv, AuthInv

\* A token reaches the stream that asked for it: WorkInv says it is the account's.
LEMMA CredentialsArriveKeeps ==
  ASSUME IInv, CredentialsArrive
  PROVE  IInv'
<1> DEFINE t == Head(workQueue)
           q == queue[client.user]
           own == Own(client.user)
<1>1. /\ workQueue # <<>> /\ workQueue' = Tail(workQueue) /\ t.kind # "change"
      /\ UNCHANGED <<queue, authUser, provider, fetching, mainQueue, author, written>>
      /\ client' = IF t.close = client.closes THEN Resume(client, t) ELSE client
  BY DEF CredentialsArrive, auth, history, bounds
<1>2. t.user = client.user
  BY <1>1, WorkTail DEF IInv, AuthInv, WorkInv, Before
<1> HIDE DEF t
<1>3. Steady(Resume(client, t), q, own) /\ SameAccount(client, Resume(client, t))
  BY <1>2, Parts, ResumeSteady
<1>4. Steady(client', q, own) /\ client'.user = client.user /\ client'.next = client.next
  BY <1>1, <1>3, Parts DEF SameAccount
<1>5. QueuesInv' /\ Own(client.user)' = Own(client.user)
  BY <1>1, <1>4, QueuesKept DEF IInv, Own
<1>6. ClientInv'
  <2>1. Steady(client', queue'[client'.user], Own(client.user)')
    BY <1>1, <1>4, <1>5
  <2>2. /\ client'.next <= written' + 1
        /\ \A i \in 1..Len(queue'[client'.user]) : queue'[client'.user][i].id < client'.next
    BY <1>1, <1>4 DEF IInv, ClientInv
  <2>3. provider' = provider /\ provider.counter \in Nat
    BY <1>1, Parts
  <2> QED
    BY <2>1, <2>2, <2>3, ClientNext
<1>7. WorkInv'
  BY <1>1, <1>2, <1>4, WorkDone DEF IInv, AuthInv, t
<1>8. CountersOld' /\ NoticesInv' /\ FreshTokens'
  BY <1>1 DEF IInv, AuthInv, CountersOld, NoticesInv, FreshTokens, NoNotice
<1>9. TypeOK'
  BY <1>1, <1>4, WorkTail
  DEF CredentialsArrive, IInv, TypeOK, Steady, Sane, server, history, bounds
<1> QED
  BY <1>5, <1>6, <1>7, <1>8, <1>9 DEF IInv, AuthInv

\* Empty queues: nothing is under way between FIRAuth, the provider and the client.
LEMMA NothingUnderWay ==
  ASSUME fetching = {}, mainQueue = <<>>, workQueue = <<>>,
         provider.user = authUser, client.user = authUser
  PROVE  AuthInv
<1>1. Len(mainQueue) = 0 /\ Len(workQueue) = 0
  OBVIOUS
<1> QED
  BY <1>1 DEF AuthInv, CountersOld, NoticesInv, FreshTokens, WorkInv, Before

\* A launch finds the queues as they were and starts over with everything else.
LEMMA RelaunchKeeps ==
  ASSUME IInv, Relaunch, NEW u, u = authUser
  PROVE  IInv'
<1> DEFINE next == LoadNextBatchId
<1>1. /\ client' = EnableNetwork(Fresh(u, next), queue[u])
      /\ provider' = [provider EXCEPT !.user = u]
      /\ fetching' = {} /\ mainQueue' = <<>> /\ workQueue' = <<>>
      /\ UNCHANGED <<queue, authUser, author, written>>
  BY DEF Relaunch, history
<1>2. u \in Users
  BY DEF IInv, TypeOK
<1>3. next \in Nat /\ next <= written + 1 /\ \A i \in 1..Len(queue[u]) : queue[u][i].id < next
  BY <1>2, NextIdIsFresh DEF IInv
<1>4. provider' \in [user : Users, counter : Nat] /\ provider'.user = u
      /\ provider'.counter = provider.counter
  BY <1>1, <1>2 DEF IInv, TypeOK
<1>5. queue[u] \in Seq(Batch) /\ Sorted(queue[u]) /\ Owns(Own(u), queue[u])
  BY <1>2, QueueTypes DEF IInv, QueuesInv
<1> HIDE DEF next
<1>6. Steady(client', queue[u], Own(u)) /\ client'.user = u /\ client'.next = next
  BY <1>1, <1>2, <1>3, <1>5, Parts, LaunchSteady
<1>7. QueuesInv' /\ Own(u)' = Own(u)
  BY <1>1, <1>2, QueuesKept DEF IInv, Own
<1>8. ClientInv'
  <2>1. Steady(client', queue'[client'.user], Own(u)')
    BY <1>1, <1>6, <1>7
  <2>2. /\ client'.next <= written' + 1
        /\ \A i \in 1..Len(queue'[client'.user]) : queue'[client'.user][i].id < client'.next
    BY <1>1, <1>3, <1>6
  <2>3. provider'.counter = provider.counter /\ provider.counter \in Nat
    BY <1>4, Parts
  <2>4. Own(client.user)' = Own(u)'
    BY <1>1, <1>6 DEF Own
  <2> QED
    BY <2>1, <2>2, <2>3, <2>4, ClientNext
<1>9. AuthInv'
  <2>1. Len(mainQueue') = 0 /\ Len(workQueue') = 0
    BY <1>1
  <2> QED
    BY <1>1, <1>4, <1>6, <2>1
    DEF AuthInv, CountersOld, NoticesInv, FreshTokens, WorkInv, Before
<1>10. TypeOK'
  <2>1. troubles' \in 0..MaxTroubles
    BY TroubleTyped DEF Relaunch, IInv
  <2>2. /\ mainQueue' \in Seq([kind : {"notice"}, user : Users]
                              \cup [kind : {"token", "noToken"}, user : Users,
                                    close : Nat, counter : Nat])
        /\ workQueue' \in Seq([kind : {"change"}, user : Users]
                              \cup [kind : {"token", "noToken"}, user : Users, close : Nat])
    BY <1>1
  <2>3. fetching' \in SUBSET [close : Nat, counter : Nat, user : Users]
    BY <1>1
  <2> QED
    BY <1>1, <1>4, <1>6, <2>1, <2>2, <2>3
    DEF Relaunch, IInv, TypeOK, Steady, Sane, server, history
<1> QED
  BY <1>7, <1>8, <1>9, <1>10 DEF IInv

LEMMA InitKeeps ==
  ASSUME Init
  PROVE  IInv
<1> DEFINE u == authUser
<1>1. /\ queue = [v \in Users |-> <<>>] /\ u \in Users
      /\ client = EnableNetwork(Fresh(u, 1), <<>>)
      /\ provider = [user |-> u, counter |-> 0]
      /\ fetching = {} /\ mainQueue = <<>> /\ workQueue = <<>> /\ written = 0
  BY DEF Init
<1>2. /\ <<>> \in Seq(Batch) /\ Sorted(<<>>) /\ Owns(Own(u), <<>>)
      /\ provider.counter \in Nat /\ provider.user = u
      /\ \A v \in Users : queue[v] = <<>> /\ Owns(Own(v), <<>>)
  <2>1. Len(<<>>) = 0
    OBVIOUS
  <2>2. \A v : Own(v) \subseteq Writes
    BY <1>1 DEF Own
  <2> QED
    BY <1>1, <2>1, <2>2 DEF Sorted, Owns
<1> HIDE DEF u
<1>3. Steady(client, <<>>, Own(u)) /\ client.user = u /\ client.next = 1
  <2>1. 1 \in Nat
    OBVIOUS
  <2>2. ASSUME NEW q \in Seq(Batch), q = <<>>, NEW next \in Nat, next = 1
        PROVE  Steady(client, q, Own(u)) /\ client.user = u /\ client.next = next
    <3>1. u \in Users /\ Sorted(q) /\ Owns(Own(u), q) /\ provider.counter \in Nat
      BY <1>1, <1>2, <2>2
    <3>2. client = EnableNetwork(Fresh(u, next), q)
      BY <1>1, <2>2
    <3>3. /\ Steady(EnableNetwork(Fresh(u, next), q), q, Own(u))
          /\ EnableNetwork(Fresh(u, next), q).user = u
          /\ EnableNetwork(Fresh(u, next), q).next = next
      BY <3>1, LaunchSteady
    <3> QED
      BY <3>2, <3>3
  <2> QED
    BY <1>2, <2>1, <2>2
<1>4. QueuesInv /\ ClientInv
  BY <1>1, <1>2, <1>3 DEF QueuesInv, ClientInv
<1>5. AuthInv
  BY <1>1, <1>2, <1>3, NothingUnderWay DEF u
<1>6. TypeOK
  <2>1. queue \in [Users -> Seq(Batch)]
    BY <1>1, <1>2
  <2>2. /\ mainQueue \in Seq([kind : {"notice"}, user : Users]
                             \cup [kind : {"token", "noToken"}, user : Users,
                                   close : Nat, counter : Nat])
        /\ workQueue \in Seq([kind : {"change"}, user : Users]
                             \cup [kind : {"token", "noToken"}, user : Users, close : Nat])
    BY <1>1
  <2>3. provider \in [user : Users, counter : Nat] /\ client \in ClientType
    BY <1>1, <1>3 DEF Steady, Sane
  <2>4. /\ author \in [Writes -> Users \cup {NoStream}]
        /\ told \in [Writes -> {"nothing", "ok", "failed"}]
    BY DEF Init
  <2>5. written \in 0..MaxWrites /\ troubles \in 0..MaxTroubles
    BY BoundsAssumption DEF Init
  <2> QED
    BY <1>1, <2>1, <2>2, <2>3, <2>4, <2>5 DEF Init, TypeOK
<1> QED
  BY <1>4, <1>5, <1>6 DEF IInv

LEMMA NextKeeps ==
  ASSUME IInv, [Next]_vars
  PROVE  IInv'
<1>1. CASE UNCHANGED vars
  <2>1. QueuesInv' /\ ClientInv'
    BY <1>1, Parts, ClientKept DEF vars, auth, history, bounds
  <2>2. AuthInv'
    BY <1>1, AuthKept DEF vars, IInv
  <2>3. TypeOK'
    BY <1>1 DEF vars, server, auth, history, bounds, IInv, TypeOK
  <2> QED
    BY <2>1, <2>2, <2>3 DEF IInv
<1>2. CASE Write
  BY <1>2, WriteKeeps, Parts
<1>3. CASE ServerStep
  BY <1>3, ServerKeeps
<1>4. CASE ClientStep
  BY <1>4, HandshakeKeeps, MutationResultKeeps, WriteErrorKeeps, TimersKeep DEF ClientStep
<1>5. CASE TokenFetched \/ TokenFails
  <2>1. troubles' \in 0..MaxTroubles
    BY <1>5, TroubleTyped DEF TokenFetched, TokenFails, IInv, TypeOK
  <2> QED
    BY <1>5, <2>1, TokenArrivesKeeps DEF TokenFetched, TokenFails
<1>6. CASE TokenStep
  BY <1>5, <1>6, AuthReadsKeeps, NoticeRunsKeeps, TokenCallbackKeeps,
     HandleCredentialChangeKeeps, CredentialsArriveKeeps DEF TokenStep
<1>7. CASE StreamBreaks \/ ConnectivityChanged
  BY <1>7, BreaksKeep
<1>8. ASSUME NEW u \in Users, AuthChange(u) PROVE IInv'
  BY <1>8, AuthChangeKeeps
<1>9. CASE Relaunch
  BY <1>9, RelaunchKeeps
<1> QED
  BY <1>1, <1>2, <1>3, <1>4, <1>5, <1>6, <1>7, <1>8, <1>9 DEF Next

-----------------------------------------------------------------------------
(* The theorems.                                                           *)

\* The strengthened invariant holds in every state.
THEOREM IInvariant == Spec => []IInv
<1>1. Init => IInv
  BY InitKeeps
<1>2. IInv /\ [Next]_vars => IInv'
  BY NextKeeps
<1> QED
  BY <1>1, <1>2, PTL DEF Spec

\* For every number of accounts, writes, troubles and pipeline places: the write
\* pipeline is the front of the queue of the account it works for, and batch ids
\* grow along every queue (FillWritePipeline, LocalStore and HandleCredentialChange).
THEOREM PipelineCorrect == Spec => []WritesInv
<1>1. IInv => WritesInv
  <2> SUFFICES ASSUME IInv PROVE PipelineInv
    BY DEF IInv, WritesInv
  <2> DEFINE q == queue[client.user]
             p == client.pipe
  <2>1. \A u \in Users : DOMAIN queue[u] = 1..Len(queue[u])
    BY QueueTypes DEF IInv
  <2>2. p \in Seq(Batch) /\ q \in Seq(Batch) /\ Front(p, q) /\ Len(p) <= kMaxPendingWrites
    BY Parts DEF Steady, PipeOK, ClientType
  <2>3. p = SubSeq(q, 1, Len(p))
    <3> HIDE DEF p, q
    <3>1. Len(p) \in Nat /\ Len(q) \in Nat /\ p = [i \in 1..Len(p) |-> p[i]]
      BY <2>2
    <3>2. SubSeq(q, 1, Len(p)) = [i \in 1..Len(p) |-> q[i]]
      <4>1. 1..(1 + Len(p) - 1) = 1..Len(p)
        BY <3>1
      <4> QED
        BY <2>2, <3>1 DEF Front
    <3> QED
      BY <2>2, <3>1, <3>2 DEF Front
  <2> QED
    BY <2>1, <2>2, <2>3 DEF IInv, QueuesInv, ClientInv, Sorted, PipelineInv
<1> QED
  BY <1>1, IInvariant, PTL

\* For every value of the constants: no write is sent under the token of another
\* account than its author's (FirebaseCredentialsProvider's token counter, Stream's
\* close count and HandleCredentialChange's restart together).
THEOREM WritesSentAsAuthor == Spec => []SentAsAuthor
<1>1. IInv => SentAsAuthor
  <2> SUFFICES ASSUME IInv, client.call # NoStream, NEW i \in DOMAIN client.call.requests,
                      client.call.requests[i] # Hello
               PROVE  author[client.call.requests[i]] = client.call.user
    BY DEF SentAsAuthor
  <2>1. client.call \in Call /\ CallOK(client, Own(client.user))
    BY Parts DEF ClientType, Steady
  <2>2. i \in 1..Len(client.call.requests)
    BY <2>1 DEF Call
  <2> QED
    BY <2>1, <2>2 DEF CallOK, Own
<1> QED
  BY <1>1, IInvariant, PTL

-----------------------------------------------------------------------------
(***************************************************************************)
(* Answers carry no name: proofs that each one is given to the write it is *)
(* about, that no assertion of the client fails on the way, that           *)
(* completions hear the truth, that no write is lost and that the client   *)
(* implements WriteQueue.                                                  *)
(***************************************************************************)

-----------------------------------------------------------------------------
(* What every method of the client keeps.                                  *)

Greeted(c) == c.stream = "Open" /\ c.shake

\* No assertion has failed; calls and timers go with the state of the stream; a
\* stream that has yet to greet the server has something to send.
Core(c) == /\ c.sound
           /\ c.call # NoStream <=> c.stream = "Open"
           /\ c.timer => c.stream = "Backoff"
           /\ c.idle => Greeted(c) /\ c.pipe = <<>>
           /\ IsStarted(c) /\ ~Greeted(c) => c.pipe # <<>>

\* Between two operations the handshake is also forgotten with its stream.
Tidy(c) == Core(c) /\ (c.shake => c.stream = "Open")

\* The answers to be read and the requests to be answered are ws, in order.
Carries(call, ws) ==
  /\ Len(call.answers) + Len(call.requests) = Len(ws)
  /\ \A i \in 1..Len(call.answers) : call.answers[i].w = ws[i]
  /\ \A i \in 1..Len(call.requests) : call.requests[i] = ws[Len(call.answers) + i]

Expected(c) == IF c.shake THEN Ws(c.pipe) ELSE <<Hello>>

Match(c) == c.call # NoStream => Carries(c.call, Expected(c))

\* No token is asked for; what was asked for stays void or wanted.
Quiet(c, d) == /\ d.asks = c.asks
               /\ d.closes >= c.closes
               /\ d.closes = c.closes /\ c.stream = "Starting" => d.stream = "Starting"

\* One token at most is asked for, by a stream that was not waiting for one.
Asked(c, d) ==
  \/ Quiet(c, d)
  \/ /\ d.asks = Append(c.asks, [close |-> d.closes, counter |-> provider.counter])
     /\ d.closes >= c.closes
     /\ d.stream = "Starting"
     /\ d.closes = c.closes => c.stream # "Starting"

LEMMA QuietThenAsked ==
  ASSUME NEW c \in ClientType, NEW d \in ClientType, NEW e \in ClientType,
         Quiet(c, d), Asked(d, e)
  PROVE  Asked(c, e)
BY DEF Quiet, Asked, ClientType

LEMMA QuietTwice ==
  ASSUME NEW c \in ClientType, NEW d \in ClientType, NEW e \in ClientType,
         Quiet(c, d), Quiet(d, e)
  PROVE  Quiet(c, e)
BY DEF Quiet, ClientType

\* Ws of a sequence of batches.
LEMMA WsProperties ==
  ASSUME NEW p \in Seq(Batch)
  PROVE  /\ Ws(p) \in Seq(Writes) /\ Len(Ws(p)) = Len(p)
         /\ \A i \in 1..Len(p) : Ws(p)[i] = p[i].w
<1>1. DOMAIN p = 1..Len(p) /\ Len(p) \in Nat
  OBVIOUS
<1>2. \A i \in 1..Len(p) : p[i].w \in Writes
  <2> TAKE i \in 1..Len(p)
  <2>1. p[i] \in Batch
    BY ElementOfSeq
  <2> QED
    BY <2>1 DEF Batch
<1>3. Ws(p) = [i \in 1..Len(p) |-> p[i].w]
  BY <1>1 DEF Ws
<1> QED
  BY <1>1, <1>2, <1>3

\* The parts of the client that a method of the stream leaves alone.
SameWork(c, d) == d.pipe = c.pipe /\ d.callbacks = c.callbacks /\ d.enabled = c.enabled

LEMMA StartCore ==
  ASSUME NEW c \in ClientType, Core(c), ~IsStarted(c), c.pipe # <<>>,
         provider.counter \in Nat
  PROVE  /\ Start(c) \in ClientType /\ Core(Start(c)) /\ Asked(c, Start(c))
         /\ SameWork(c, Start(c)) /\ Start(c).shake = c.shake
         /\ Start(c).stream \in {"Starting", "Backoff"} /\ Start(c).call = NoStream
<1>1. c.stream \in {"Initial", "Error"} /\ c.call = NoStream
  BY DEF Core, IsStarted, ClientType, State
<1>2. CASE c.stream = "Error"
  <2> DEFINE d == [c EXCEPT !.stream = "Backoff", !.timer = TRUE]
  <2>1. /\ d \in ClientType /\ SameWork(c, d) /\ d.shake = c.shake /\ d.stream = "Backoff"
        /\ d.call = c.call /\ d.asks = c.asks /\ d.closes = c.closes /\ d.idle = c.idle
        /\ d.sound = c.sound
    BY DEF ClientType, State, SameWork
  <2>2. Start(c) = d
    BY <1>2 DEF Start
  <2> HIDE DEF d
  <2>3. c.closes \in Nat
    BY DEF ClientType
  <2>4. Core(d)
    BY <1>1, <1>2, <2>1 DEF Core, Greeted, IsStarted, SameWork
  <2>5. Asked(c, d)
    BY <1>2, <2>1, <2>3 DEF Asked, Quiet
  <2> QED
    BY <1>1, <2>1, <2>2, <2>4, <2>5
<1>3. CASE c.stream = "Initial"
  <2> DEFINE r == [close |-> c.closes, counter |-> provider.counter]
             a == Append(c.asks, r)
             d == [c EXCEPT !.stream = "Starting", !.asks = a,
                            !.sound = @ /\ c.stream = "Initial"]
  <2>1. c.asks \in Seq(Request) /\ c.closes \in Nat /\ c.sound \in BOOLEAN
    BY DEF ClientType
  <2>2. r \in Request
    BY <2>1 DEF Request
  <2>3. a \in Seq(Request)
    BY <2>1, <2>2
  <2>4. Start(c) = d
    BY <1>3 DEF Start, RequestCredentials, ClientType
  <2> HIDE DEF a
  <2>5. /\ d \in ClientType /\ SameWork(c, d) /\ d.shake = c.shake /\ d.stream = "Starting"
        /\ d.call = c.call /\ d.asks = a /\ d.closes = c.closes /\ d.idle = c.idle
        /\ d.timer = c.timer /\ d.sound = c.sound
    BY <1>3, <2>3 DEF ClientType, State, SameWork
  <2> HIDE DEF d
  <2>6. Asked(c, d)
    BY <1>3, <2>1, <2>5 DEF Asked, a
  <2> QED
    BY <1>1, <1>3, <2>4, <2>5, <2>6 DEF Core, Greeted, IsStarted, SameWork
<1> QED
  BY <1>1, <1>2, <1>3

LEMMA CloseCore ==
  ASSUME NEW c \in ClientType, Core(c), IsStarted(c), NEW state \in {"Initial", "Error"}
  PROVE  /\ Close(c, state) \in ClientType /\ Core(Close(c, state))
         /\ Quiet(c, Close(c, state)) /\ SameWork(c, Close(c, state))
         /\ Close(c, state).shake = c.shake /\ Close(c, state).stream = state
         /\ Close(c, state).call = NoStream
<1> DEFINE d == Close(c, state)
<1>1. c.sound \in BOOLEAN /\ c.closes \in Nat /\ c.closes + 1 \in Nat
  BY DEF ClientType
<1>2. d = [c EXCEPT !.sound = @ /\ IsStarted(c), !.idle = FALSE, !.timer = FALSE,
                    !.closes = c.closes + 1, !.call = NoStream, !.stream = state]
  BY DEF Close, ClientType
<1>3. /\ d \in ClientType /\ SameWork(c, d) /\ d.shake = c.shake /\ d.stream = state
      /\ d.call = NoStream /\ d.asks = c.asks /\ d.closes = c.closes + 1
      /\ ~d.idle /\ ~d.timer /\ d.sound = c.sound
  BY <1>1, <1>2, ZenonT(40) DEF ClientType, State, SameWork, IsStarted
<1> HIDE DEF d
<1> QED
  BY <1>1, <1>3 DEF Core, Greeted, IsStarted, Quiet, d

LEMMA InhibitCore ==
  ASSUME NEW c \in ClientType, Core(c), ~IsStarted(c)
  PROVE  /\ InhibitBackoff(c) \in ClientType /\ Core(InhibitBackoff(c))
         /\ Quiet(c, InhibitBackoff(c)) /\ SameWork(c, InhibitBackoff(c))
         /\ InhibitBackoff(c).shake = c.shake /\ InhibitBackoff(c).stream = "Initial"
         /\ InhibitBackoff(c).call = NoStream
<1> DEFINE d == [c EXCEPT !.stream = "Initial", !.sound = @ /\ ~IsStarted(c)]
<1>1. /\ d \in ClientType /\ SameWork(c, d) /\ d.shake = c.shake /\ d.stream = "Initial"
      /\ d.call = c.call /\ d.asks = c.asks /\ d.closes = c.closes
      /\ d.idle = c.idle /\ d.timer = c.timer /\ d.sound = c.sound
  BY DEF ClientType, State, SameWork, IsStarted
<1>2. InhibitBackoff(c) = d
  BY DEF InhibitBackoff
<1>3. c.closes \in Nat /\ c.stream # "Starting" /\ c.stream # "Backoff" /\ c.call = NoStream
  BY DEF ClientType, IsStarted, Core
<1> HIDE DEF d
<1>4. Core(d)
  BY <1>1, <1>3 DEF Core, Greeted, IsStarted, SameWork
<1>5. Quiet(c, d)
  BY <1>1, <1>3 DEF Quiet
<1> QED
  BY <1>1, <1>2, <1>3, <1>4, <1>5

\* Stop finds no writes waiting, or the network disabled.
LEMMA StopCore ==
  ASSUME NEW c \in ClientType, Tidy(c), c.pipe = <<>> \/ ~c.enabled
  PROVE  /\ Stop(c) \in ClientType /\ Tidy(Stop(c)) /\ Quiet(c, Stop(c))
         /\ SameWork(c, Stop(c)) /\ ~IsStarted(Stop(c)) /\ Stop(c).call = NoStream
<1>1. CASE IsStarted(c)
  <2> DEFINE d == Close(c, "Initial")
             e == [d EXCEPT !.sound = @ /\ ~ShouldStartWriteStream(d), !.shake = FALSE]
  <2>1. /\ d \in ClientType /\ Core(d) /\ Quiet(c, d) /\ SameWork(c, d)
        /\ d.stream = "Initial" /\ d.call = NoStream
    BY <1>1, CloseCore DEF Tidy
  <2>2. ~ShouldStartWriteStream(d)
    BY <2>1 DEF ShouldStartWriteStream, SameWork
  <2>3. Stop(c) = e
    BY <1>1 DEF Stop
  <2> HIDE DEF d
  <2>4. /\ e \in ClientType /\ SameWork(d, e) /\ ~e.shake /\ e.stream = d.stream
        /\ e.call = d.call /\ e.asks = d.asks /\ e.closes = d.closes
        /\ e.idle = d.idle /\ e.timer = d.timer /\ e.sound = d.sound
    BY <2>1, <2>2, ZenonT(40) DEF ClientType, SameWork
  <2> HIDE DEF e
  <2> QED
    BY <2>1, <2>3, <2>4 DEF Tidy, Core, Greeted, IsStarted, Quiet, SameWork
<1>2. CASE ~IsStarted(c)
  <2>1. c.closes \in Nat /\ c.call = NoStream
    BY <1>2 DEF ClientType, Tidy, Core, IsStarted
  <2> QED
    BY <1>2, <2>1 DEF Stop, Quiet, SameWork
<1> QED
  BY <1>1, <1>2

LEMMA DisableCore ==
  ASSUME NEW c \in ClientType, Tidy(c)
  PROVE  /\ DisableNetworkInternal(c) \in ClientType /\ Tidy(DisableNetworkInternal(c))
         /\ Quiet(c, DisableNetworkInternal(c)) /\ ~IsStarted(DisableNetworkInternal(c))
         /\ DisableNetworkInternal(c).pipe = <<>>
         /\ DisableNetworkInternal(c).callbacks = c.callbacks
<1> DEFINE d == [c EXCEPT !.enabled = FALSE]
           e == Stop(d)
           f == [e EXCEPT !.pipe = <<>>]
<1>1. d \in ClientType /\ Tidy(d) /\ Quiet(c, d) /\ ~d.enabled /\ d.callbacks = c.callbacks
  <2>1. /\ d \in ClientType /\ ~d.enabled /\ d.callbacks = c.callbacks /\ d.pipe = c.pipe
        /\ d.shake = c.shake /\ d.stream = c.stream /\ d.call = c.call /\ d.asks = c.asks
        /\ d.closes = c.closes /\ d.idle = c.idle /\ d.timer = c.timer /\ d.sound = c.sound
    BY DEF ClientType
  <2>2. c.closes \in Nat
    BY DEF ClientType
  <2> HIDE DEF d
  <2> QED
    BY <2>1, <2>2 DEF Tidy, Core, Greeted, IsStarted, Quiet
<1>2. DisableNetworkInternal(c) = f
  BY DEF DisableNetworkInternal
<1> HIDE DEF d
<1>3. /\ e \in ClientType /\ Tidy(e) /\ Quiet(d, e) /\ SameWork(d, e) /\ ~IsStarted(e)
      /\ e.call = NoStream
  BY <1>1, StopCore
<1> HIDE DEF e
<1>4. <<>> \in Seq(Batch)
  OBVIOUS
<1>5. /\ f \in ClientType /\ f.pipe = <<>> /\ f.callbacks = e.callbacks /\ f.shake = e.shake
      /\ f.stream = e.stream /\ f.call = e.call /\ f.asks = e.asks /\ f.closes = e.closes
      /\ f.idle = e.idle /\ f.timer = e.timer /\ f.sound = e.sound
  BY <1>3, <1>4 DEF ClientType
<1> HIDE DEF f
<1>6. Tidy(f) /\ ~IsStarted(f)
  BY <1>3, <1>5 DEF Tidy, Core, Greeted, IsStarted
<1>7. Quiet(c, f)
  BY <1>1, <1>3, <1>5 DEF Quiet, ClientType
<1> QED
  BY <1>1, <1>2, <1>3, <1>5, <1>6, <1>7 DEF SameWork

-----------------------------------------------------------------------------
(* Sending and filling the pipeline.                                       *)

\* What is sent comes after what is being carried.
LEMMA CarriesMore ==
  ASSUME NEW call \in Call, NEW T, {Hello} \cup Writes \subseteq T, NEW e \in Seq(T),
         NEW ws \in Seq({Hello} \cup Writes), Carries(call, e)
  PROVE  Carries([call EXCEPT !.requests = @ \o ws], e \o ws)
<1>1. /\ call.requests \in Seq({Hello} \cup Writes) /\ call.answers \in Seq(Answer)
      /\ Len(call.answers) \in Nat
  BY DEF Call
<1>2. PICK rq : rq = call.requests
  OBVIOUS
<1>3. PICK an : an = call.answers
  OBVIOUS
<1> DEFINE rs == rq \o ws
           es == e \o ws
           next == [call EXCEPT !.requests = rs]
           n == Len(an)
<1>4. next.answers = an /\ next.requests = rs /\ n \in Nat
  BY <1>1, <1>3 DEF Call
<1>5. /\ Len(rs) = Len(rq) + Len(ws) /\ Len(rq) \in Nat /\ Len(ws) \in Nat
      /\ \A i \in 1..Len(rs) : rs[i] = IF i <= Len(rq) THEN rq[i] ELSE ws[i - Len(rq)]
  BY <1>1, <1>2, ConcatProperties
<1>6. ws \in Seq(T)
  <2>1. Seq({Hello} \cup Writes) \subseteq Seq(T)
    OBVIOUS
  <2> QED
    BY <2>1
<1>7. /\ Len(es) = Len(e) + Len(ws) /\ Len(e) \in Nat
      /\ \A i \in 1..Len(es) : es[i] = IF i <= Len(e) THEN e[i] ELSE ws[i - Len(e)]
  BY <1>6, ConcatProperties
<1>8. /\ n + Len(rq) = Len(e)
      /\ \A i \in 1..n : an[i].w = e[i]
      /\ \A i \in 1..Len(rq) : rq[i] = e[n + i]
  BY <1>2, <1>3 DEF Carries
<1> HIDE DEF rs, es, next, n
<1>9. /\ n \in Nat /\ Len(rq) \in Nat /\ Len(ws) \in Nat /\ Len(e) \in Nat
       /\ Len(e) = n + Len(rq) /\ Len(rs) = Len(rq) + Len(ws) /\ Len(es) = Len(e) + Len(ws)
  BY <1>4, <1>5, <1>7, <1>8
<1>10. \A i \in 1..n : an[i].w = es[i]
  BY <1>4, <1>5, <1>7, <1>8
<1>11. ASSUME NEW i \in 1..Len(rs) PROVE rs[i] = es[n + i]
  <2>1. CASE i <= Len(rq)
    <3>1. n + i \in 1..Len(es) /\ n + i <= Len(e) /\ i \in 1..Len(rq)
      BY <1>4, <1>5, <1>7, <1>8, <2>1
    <3> QED
      BY <1>5, <1>7, <1>8, <2>1, <3>1
  <2>2. CASE ~(i <= Len(rq))
    <3>1. n + i - Len(e) = i - Len(rq) /\ ~(n + i <= Len(e)) /\ n + i \in 1..Len(es)
      BY <1>9, <2>2
    <3>2. rs[i] = ws[i - Len(rq)]
      BY <1>5, <2>2
    <3>3. PICK k \in 1..Len(es) : k = n + i
      BY <3>1
    <3>4. ~(k <= Len(e)) /\ es[k] = ws[k - Len(e)]
      BY <1>7, <3>1, <3>3
    <3>5. k - Len(e) = i - Len(rq) /\ es[n + i] = es[k]
      BY <1>9, <3>1, <3>3
    <3> QED
      BY <3>2, <3>4, <3>5
  <2> QED
    BY <2>1, <2>2
<1>12. n + Len(rs) = Len(es)
  BY <1>9
<1>13. Carries(next, es)
  BY <1>4, <1>10, <1>11, <1>12 DEF Carries, n
<1>14. next = [call EXCEPT !.requests = @ \o ws]
  BY <1>2 DEF next, rs, Call
<1> QED
  BY <1>13, <1>14 DEF es

LEMMA SendCore ==
  ASSUME NEW c \in ClientType, c.sound, ~c.timer, c.stream = "Open", c.call # NoStream,
         c.shake \/ c.pipe # <<>>, NEW ws \in Seq({Hello} \cup Writes)
  PROVE  /\ Send(c, ws) \in ClientType /\ Core(Send(c, ws))
         /\ Quiet(c, Send(c, ws)) /\ SameWork(c, Send(c, ws))
         /\ Send(c, ws).shake = c.shake /\ Send(c, ws).stream = "Open"
         /\ Send(c, ws).call = [c.call EXCEPT !.requests = @ \o ws]
<1> DEFINE call == [c.call EXCEPT !.requests = @ \o ws]
           d == [c EXCEPT !.sound = @ /\ c.stream = "Open", !.idle = FALSE, !.call = call]
<1>1. c.call \in Call /\ c.closes \in Nat
  BY DEF ClientType
<1>2. call \in Call /\ call # NoStream
  <2>1. c.call.requests \o ws \in Seq({Hello} \cup Writes)
    BY <1>1 DEF Call
  <2>2. call \in Call
    BY <1>1, <2>1 DEF Call
  <2> QED
    BY <2>2, NoStreamAssumption
<1>3. Send(c, ws) = d
  BY <1>1 DEF Send, ClientType
<1> HIDE DEF call
<1>4. /\ d \in ClientType /\ SameWork(c, d) /\ d.shake = c.shake /\ d.stream = c.stream
      /\ d.call = call /\ d.asks = c.asks /\ d.closes = c.closes
      /\ ~d.idle /\ d.timer = c.timer /\ d.sound = c.sound
  BY <1>2 DEF ClientType, SameWork
<1> HIDE DEF d
<1>5. Core(d)
  BY <1>2, <1>4 DEF Core, Greeted, IsStarted, SameWork
<1>6. Quiet(c, d)
  BY <1>1, <1>4 DEF Quiet
<1> QED
  BY <1>3, <1>4, <1>5, <1>6 DEF call

\* Once the handshake is done, batches behind those that are carried are sent.
LEMMA WriteMutationsCore ==
  ASSUME NEW c \in ClientType, c.sound, ~c.timer, c.stream = "Open", c.call # NoStream, c.shake,
         NEW p \in Seq(Batch), Carries(c.call, Ws(p)), NEW batches \in Seq(Batch)
  PROVE  /\ WriteMutations(c, batches) \in ClientType /\ Core(WriteMutations(c, batches))
         /\ Quiet(c, WriteMutations(c, batches)) /\ SameWork(c, WriteMutations(c, batches))
         /\ WriteMutations(c, batches).shake /\ WriteMutations(c, batches).stream = "Open"
         /\ WriteMutations(c, batches).call.answers = c.call.answers
         /\ Carries(WriteMutations(c, batches).call, Ws(p \o batches))
<1> DEFINE d == [c EXCEPT !.sound = @ /\ c.shake]
           ws == Ws(batches)
           e == Send(d, ws)
<1>1. /\ d \in ClientType /\ d.sound /\ ~d.timer /\ d.stream = "Open" /\ d.call = c.call
      /\ d.shake /\ SameWork(c, d) /\ d.asks = c.asks /\ d.closes = c.closes
  BY DEF ClientType, SameWork
<1>2. ws \in Seq(Writes) /\ ws \in Seq({Hello} \cup Writes) /\ Ws(p) \in Seq(Writes)
  <2>1. ws \in Seq(Writes) /\ Ws(p) \in Seq(Writes)
    BY WsProperties
  <2>2. Seq(Writes) \subseteq Seq({Hello} \cup Writes)
    OBVIOUS
  <2> QED
    BY <2>1, <2>2
<1>3. WriteMutations(c, batches) = e
  BY DEF WriteMutations, Ws
<1> HIDE DEF d, ws
<1>4. /\ e \in ClientType /\ Core(e) /\ Quiet(d, e) /\ SameWork(d, e)
      /\ e.shake = d.shake /\ e.stream = "Open"
      /\ e.call = [d.call EXCEPT !.requests = @ \o ws]
  BY <1>1, <1>2, SendCore
<1> HIDE DEF e
<1>5. c.call \in Call
  BY DEF ClientType
<1>6. Carries(e.call, Ws(p) \o ws)
  <2>1. Ws(p) \in Seq({Hello} \cup Writes)
    <3>1. Seq(Writes) \subseteq Seq({Hello} \cup Writes)
      OBVIOUS
    <3> QED
      BY <1>2, <3>1
  <2>2. Carries([c.call EXCEPT !.requests = @ \o ws], Ws(p) \o ws)
    BY <1>2, <1>5, <2>1, CarriesMore
  <2> QED
    BY <1>1, <1>4, <2>2
<1>7. Ws(p) \o ws = Ws(p \o batches)
  <2> DEFINE r == p \o batches
  <2>1. /\ r \in Seq(Batch) /\ Len(r) = Len(p) + Len(batches)
        /\ Len(p) \in Nat /\ Len(batches) \in Nat
        /\ \A i \in 1..Len(r) : r[i] = IF i <= Len(p) THEN p[i] ELSE batches[i - Len(p)]
    BY ConcatProperties
  <2>2. /\ Ws(p) \o ws \in Seq(Writes) /\ Len(Ws(p) \o ws) = Len(Ws(p)) + Len(ws)
        /\ \A i \in 1..Len(Ws(p) \o ws) :
             (Ws(p) \o ws)[i] = IF i <= Len(Ws(p)) THEN Ws(p)[i] ELSE ws[i - Len(Ws(p))]
    BY <1>2, ConcatProperties
  <2>3. /\ Len(Ws(p)) = Len(p) /\ \A i \in 1..Len(p) : Ws(p)[i] = p[i].w
        /\ Len(ws) = Len(batches) /\ \A i \in 1..Len(batches) : ws[i] = batches[i].w
    BY WsProperties DEF ws
  <2> HIDE DEF r
  <2>4. /\ Ws(r) \in Seq(Writes) /\ Len(Ws(r)) = Len(r)
        /\ \A i \in 1..Len(r) : Ws(r)[i] = r[i].w
    BY <2>1, WsProperties
  <2> DEFINE x == Ws(p) \o ws
             y == Ws(r)
  <2>5. /\ Len(x) = Len(p) + Len(batches) /\ Len(y) = Len(p) + Len(batches)
        /\ \A i \in 1..Len(p) : x[i] = p[i].w /\ y[i] = p[i].w
    <3>1. \A i \in 1..Len(p) : i <= Len(p) /\ i \in 1..Len(r) /\ i \in 1..Len(Ws(p) \o ws)
      BY <2>1, <2>2, <2>3
    <3> QED
      BY <2>1, <2>2, <2>3, <2>4, <3>1
  <2>6. \A i \in (Len(p) + 1)..Len(r) :
           /\ x[i] = batches[i - Len(p)].w
           /\ y[i] = batches[i - Len(p)].w
    <3> TAKE i \in (Len(p) + 1)..Len(r)
    <3>1. /\ i - Len(p) \in 1..Len(batches) /\ i \in 1..Len(r) /\ ~(i <= Len(p))
          /\ i \in 1..Len(Ws(p) \o ws)
      BY <2>1, <2>2, <2>3
    <3>2. x[i] = ws[i - Len(p)]
      BY <2>2, <2>3, <3>1
    <3>3. y[i] = r[i].w /\ r[i] = batches[i - Len(p)]
      BY <2>1, <2>4, <3>1
    <3> QED
      BY <2>3, <3>1, <3>2, <3>3
  <2>7. Len(x) = Len(y)
    BY <2>1, <2>2, <2>3, <2>4
  <2> HIDE DEF x, y
  <2>8. ASSUME NEW i \in 1..Len(x) PROVE x[i] = y[i]
    <3>1. i \in 1..Len(p) \/ i \in (Len(p) + 1)..Len(r)
      BY <2>1, <2>5
    <3> QED
      BY <2>5, <2>6, <3>1
  <2>9. x \in Seq(Writes) /\ y \in Seq(Writes)
    BY <2>2, <2>4 DEF x, y
  <2>10. x = y
    BY <2>7, <2>8, <2>9, SeqEqual
  <2> QED
    BY <2>10 DEF x, y, r
<1>8. e.call.answers = c.call.answers
  BY <1>1, <1>4, <1>5 DEF Call
<1>9. Quiet(c, e)
  BY <1>1, <1>4 DEF Quiet
<1> QED
  BY <1>1, <1>3, <1>4, <1>6, <1>7, <1>8, <1>9 DEF SameWork

\* The batches FillWritePipeline reads.
ReadOn(c, q) ==
  NextBatches(q, IF c.pipe = <<>> THEN -1 ELSE c.pipe[Len(c.pipe)].id,
              IF c.enabled THEN kMaxPendingWrites - Len(c.pipe) ELSE 0)

LEMMA BatchesRead ==
  ASSUME NEW c \in ClientType, NEW q \in Seq(Batch), Sorted(q), PipeOK(c, q)
  PROVE  ReadOn(c, q) \in Seq(Batch)
<1> DEFINE n == Len(c.pipe)
           id == IF c.pipe = <<>> THEN -1 ELSE c.pipe[Len(c.pipe)].id
           room == IF c.enabled THEN kMaxPendingWrites - Len(c.pipe) ELSE 0
<1>1. c.pipe \in Seq(Batch) /\ n \in Nat /\ Len(q) \in Nat
  BY DEF ClientType
<1>2. n \in 0..Len(q) /\ \A i \in 1..n : c.pipe[i] = q[i]
  BY <1>1 DEF PipeOK, Front
<1>3. c.pipe = <<>> <=> n = 0
  BY <1>1
<1>4. (n = 0 => id = -1) /\ (n # 0 => id = q[n].id)
  BY <1>1, <1>2, <1>3
<1>5. room \in Nat
  BY <1>1, PipelineAssumption DEF PipeOK, ClientType
<1>6. ReadOn(c, q) = NextBatches(q, id, room)
  BY DEF ReadOn
<1> HIDE DEF id, room, n
<1> QED
  BY <1>2, <1>4, <1>5, <1>6, NextBatchesFollow

\* What FillWritePipeline makes of a client: the stream is as it was or is starting.
Filled(c, d) ==
  /\ d \in ClientType /\ Core(d) /\ Match(d) /\ Asked(c, d)
  /\ d.callbacks = c.callbacks /\ d.shake = c.shake
  /\ d.stream = "Open" <=> c.stream = "Open"
  /\ d.stream = "Open" => d.call.answers = c.call.answers
  /\ ~ShouldStartWriteStream(d)

LEMMA FillCore ==
  ASSUME NEW c \in ClientType, NEW q \in Seq(Batch), Sorted(q), PipeOK(c, q),
         Core(c), Match(c), provider.counter \in Nat
  PROVE  Filled(c, FillWritePipeline(c, q))
<1> DEFINE batches == ReadOn(c, q)
           p == c.pipe \o batches
           filled == [c EXCEPT !.pipe = p]
           send == c.stream = "Open" /\ c.shake /\ batches # <<>>
           d == IF send THEN WriteMutations(filled, batches)
                ELSE IF filled.pipe = <<>> THEN MarkIdle(filled) ELSE filled
<1>1. batches \in Seq(Batch) /\ c.pipe \in Seq(Batch) /\ c.closes \in Nat
  BY BatchesRead DEF ClientType
<1>2. FillWritePipeline(c, q) = StartIfNeeded(d)
  BY DEF FillWritePipeline, ReadOn, ClientType
<1> HIDE DEF batches
<1>3. p \in Seq(Batch) /\ (batches = <<>> => p = c.pipe) /\ (p = <<>> => batches = <<>>)
  <2>1. p \in Seq(Batch) /\ Len(p) = Len(c.pipe) + Len(batches)
    BY <1>1, ConcatProperties
  <2>2. batches = <<>> => p = c.pipe
    BY <1>1, ConcatEmptySeq
  <2> QED
    BY <1>1, <2>1, <2>2
<1> HIDE DEF p
<1>4. /\ filled \in ClientType /\ filled.pipe = p /\ filled.callbacks = c.callbacks
      /\ filled.enabled = c.enabled /\ filled.shake = c.shake /\ filled.stream = c.stream
      /\ filled.call = c.call /\ filled.asks = c.asks /\ filled.closes = c.closes
      /\ filled.idle = c.idle /\ filled.timer = c.timer /\ filled.sound = c.sound
      /\ (p = c.pipe => filled = c)
  BY <1>1, <1>3 DEF ClientType
<1>5. Quiet(c, filled)
  BY <1>1, <1>4 DEF Quiet
<1> HIDE DEF filled
<1>6. CASE send
  <2>1. d = WriteMutations(filled, batches)
    BY <1>6
  <2>2. Carries(c.call, Ws(c.pipe)) /\ c.call # NoStream /\ ~c.timer
    BY <1>6 DEF Core, Match, Expected
  <2>3. /\ d \in ClientType /\ Core(d) /\ Quiet(filled, d) /\ SameWork(filled, d)
        /\ d.shake /\ d.stream = "Open" /\ d.call.answers = filled.call.answers
        /\ Carries(d.call, Ws(c.pipe \o batches))
    <3>1. filled.sound
      BY <1>4 DEF Core
    <3> HIDE DEF d
    <3> QED
      BY <1>1, <1>4, <1>6, <2>1, <2>2, <3>1, WriteMutationsCore
  <2> HIDE DEF d
  <2>4. StartIfNeeded(d) = d /\ ~ShouldStartWriteStream(d)
    BY <2>3 DEF StartIfNeeded, ShouldStartWriteStream, IsStarted
  <2>5. Match(d)
    BY <1>4, <2>3 DEF Match, Expected, SameWork, p
  <2>6. Asked(c, d)
    BY <1>4, <1>5, <2>3, QuietTwice DEF Asked
  <2> QED
    BY <1>2, <1>4, <1>6, <2>3, <2>4, <2>5, <2>6 DEF Filled, SameWork
<1>7. CASE ~send /\ filled.pipe = <<>>
  <2>1. batches = <<>> /\ filled = c /\ c.pipe = <<>> /\ d = MarkIdle(c)
    BY <1>3, <1>4, <1>7
  <2> DEFINE e == [c EXCEPT !.idle = TRUE]
  <2>2. /\ e \in ClientType /\ SameWork(c, e) /\ e.shake = c.shake /\ e.stream = c.stream
        /\ e.call = c.call /\ e.asks = c.asks /\ e.closes = c.closes
        /\ e.timer = c.timer /\ e.sound = c.sound
    BY DEF ClientType, SameWork
  <2>3. d = IF c.stream = "Open" THEN e ELSE c
    BY <2>1 DEF MarkIdle
  <2> HIDE DEF d, e
  <2>4. c.stream = "Open" => c.shake
    BY <2>1 DEF Core, Greeted, IsStarted
  <2>5. /\ d \in ClientType /\ Core(d) /\ SameWork(c, d) /\ d.shake = c.shake
        /\ d.stream = c.stream /\ d.call = c.call /\ d.asks = c.asks /\ d.closes = c.closes
    <3>1. c.stream = "Open" => Core(e)
      BY <2>1, <2>2, <2>4 DEF Core, Greeted, IsStarted, SameWork
    <3> QED
      BY <2>2, <2>3, <3>1 DEF SameWork
  <2>6. StartIfNeeded(d) = d /\ ~ShouldStartWriteStream(d)
    BY <2>1, <2>5 DEF StartIfNeeded, ShouldStartWriteStream, SameWork
  <2>7. Match(d)
    BY <2>5 DEF Match, Expected, SameWork
  <2>8. Asked(c, d)
    BY <1>1, <2>5 DEF Asked, Quiet
  <2> QED
    BY <1>2, <2>5, <2>6, <2>7, <2>8 DEF Filled, SameWork
<1>8. CASE ~send /\ filled.pipe # <<>>
  <2>1. d = filled
    BY <1>8
  <2> HIDE DEF d
  <2>2. ~c.idle
    BY <1>3, <1>4, <1>8 DEF Core, Greeted
  <2>3. Core(filled)
    BY <1>4, <1>8, <2>2 DEF Core, Greeted, IsStarted
  <2>4. Match(filled)
    <3>1. c.call # NoStream /\ c.shake => p = c.pipe
      BY <1>3, <1>8 DEF Core
    <3> QED
      BY <1>4, <3>1 DEF Match, Expected
  <2>5. CASE ShouldStartWriteStream(filled)
    <3> DEFINE e == Start(filled)
    <3>1. StartIfNeeded(filled) = e /\ ~IsStarted(filled)
      BY <2>5 DEF StartIfNeeded, ShouldStartWriteStream
    <3>2. /\ e \in ClientType /\ Core(e) /\ Asked(filled, e) /\ SameWork(filled, e)
          /\ e.shake = filled.shake /\ e.stream \in {"Starting", "Backoff"}
          /\ e.call = NoStream
      BY <1>4, <1>8, <2>3, <3>1, StartCore
    <3> HIDE DEF e
    <3>3. Asked(c, e)
      BY <1>4, <1>5, <3>2, QuietThenAsked
    <3>4. ~ShouldStartWriteStream(e) /\ Match(e) /\ e.stream # "Open" /\ c.stream # "Open"
      BY <1>4, <3>1, <3>2 DEF ShouldStartWriteStream, IsStarted, Match
    <3> QED
      BY <1>2, <1>4, <2>1, <3>1, <3>2, <3>3, <3>4 DEF Filled, SameWork
  <2>6. CASE ~ShouldStartWriteStream(filled)
    <3>1. StartIfNeeded(filled) = filled
      BY <2>6 DEF StartIfNeeded
    <3> QED
      BY <1>2, <1>4, <1>5, <2>1, <2>3, <2>4, <2>6, <3>1 DEF Filled, Asked
  <2> QED
    BY <2>5, <2>6
<1> QED
  BY <1>6, <1>7, <1>8

-----------------------------------------------------------------------------
(* Restarting, closing and opening the stream.                             *)

\* What an operation that closes the call leaves behind.
Done(c, d) == /\ d \in ClientType /\ Tidy(d) /\ Match(d) /\ d.call = NoStream
              /\ Asked(c, d) /\ d.callbacks = c.callbacks

LEMMA RestartCore ==
  ASSUME NEW c \in ClientType, Tidy(c), NEW q \in Seq(Batch), Sorted(q), provider.counter \in Nat
  PROVE  Done(c, RestartNetwork(c, q))
<1> DEFINE d == DisableNetworkInternal(c)
           e == InhibitBackoff(d)
           f == [e EXCEPT !.enabled = TRUE]
           g == FillWritePipeline(f, q)
<1>1. /\ d \in ClientType /\ Tidy(d) /\ Quiet(c, d) /\ ~IsStarted(d) /\ d.pipe = <<>>
      /\ d.callbacks = c.callbacks
  BY DisableCore
<1>2. RestartNetwork(c, q) = g
  BY DEF RestartNetwork
<1> HIDE DEF d, g
<1>3. /\ e \in ClientType /\ Core(e) /\ Quiet(d, e) /\ SameWork(d, e) /\ e.shake = d.shake
      /\ e.stream = "Initial" /\ e.call = NoStream
  BY <1>1, InhibitCore DEF Tidy
<1> HIDE DEF e
<1>4. /\ f \in ClientType /\ f.pipe = <<>> /\ f.callbacks = e.callbacks /\ f.shake = e.shake
      /\ f.stream = e.stream /\ f.call = e.call /\ f.asks = e.asks /\ f.closes = e.closes
      /\ f.idle = e.idle /\ f.timer = e.timer /\ f.sound = e.sound
  BY <1>1, <1>3 DEF ClientType, SameWork
<1> HIDE DEF f
<1>5. Core(f) /\ Match(f) /\ ~f.shake
  <2>1. ~d.shake
    BY <1>1 DEF Tidy, IsStarted
  <2> QED
    BY <1>1, <1>3, <1>4, <2>1 DEF Core, Greeted, IsStarted, Match, SameWork
<1>6. PipeOK(f, q)
  <2>1. Len(q) \in Nat
    OBVIOUS
  <2> QED
    BY <1>4, <2>1, PipelineAssumption DEF PipeOK, Front
<1>7. Filled(f, g)
  BY <1>4, <1>5, <1>6, FillCore DEF g
<1>8. /\ g \in ClientType /\ Tidy(g) /\ Match(g) /\ Asked(f, g) /\ g.callbacks = f.callbacks
      /\ g.call = NoStream
  BY <1>3, <1>4, <1>5, <1>7 DEF Filled, Tidy, Core
<1>9. Quiet(c, f)
  <2>1. Quiet(c, e)
    BY <1>1, <1>3, QuietTwice
  <2> QED
    BY <1>4, <2>1 DEF Quiet
<1>10. Asked(c, g)
  BY <1>4, <1>8, <1>9, QuietThenAsked
<1> QED
  BY <1>1, <1>2, <1>3, <1>4, <1>8, <1>10 DEF Done, SameWork

\* The client of a process that has just started: one token is asked for, or none.
Launched(d) == /\ d \in ClientType /\ Tidy(d) /\ Match(d) /\ d.call = NoStream
               /\ d.callbacks = [v \in Users |-> {}]
               /\ \/ d.asks = <<>>
                  \/ /\ d.stream = "Starting"
                     /\ Len(d.asks) = 1
                     /\ d.asks[1].close = d.closes

LEMMA LaunchCore ==
  ASSUME NEW u \in Users, NEW next \in Nat, NEW q \in Seq(Batch), Sorted(q),
         provider.counter \in Nat, NEW d, d = EnableNetwork(Fresh(u, next), q)
  PROVE  Launched(d)
<1> DEFINE c == [Fresh(u, next) EXCEPT !.enabled = TRUE]
<1>1. <<>> \in Seq(Batch) /\ <<>> \in Seq(Request)
  OBVIOUS
<1>2. c \in ClientType
  BY <1>1 DEF Fresh, ClientType, State
<1>3. /\ c.call = NoStream /\ c.pipe = <<>> /\ c.stream = "Initial" /\ c.asks = <<>> /\ c.sound
      /\ ~c.shake /\ ~c.idle /\ ~c.timer /\ c.callbacks = [v \in Users |-> {}]
  BY DEF Fresh
<1>4. d = FillWritePipeline(c, q)
  BY DEF EnableNetwork
<1> HIDE DEF c
<1>5. Core(c) /\ Match(c)
  BY <1>3 DEF Core, IsStarted, Match
<1>6. PipeOK(c, q)
  <2>1. Len(q) \in Nat
    OBVIOUS
  <2> QED
    BY <1>3, <2>1, PipelineAssumption DEF PipeOK, Front
<1>7. Filled(c, d)
  BY <1>2, <1>4, <1>5, <1>6, FillCore
<1>8. /\ d \in ClientType /\ Tidy(d) /\ Match(d) /\ Asked(c, d) /\ d.callbacks = c.callbacks
      /\ d.call = NoStream
  BY <1>3, <1>7 DEF Filled, Tidy, Core
<1> DEFINE r == [close |-> d.closes, counter |-> provider.counter]
<1>9. d.asks = <<>> \/ (d.asks = Append(<<>>, r) /\ d.stream = "Starting")
  BY <1>3, <1>8 DEF Asked, Quiet
<1>10. Append(<<>>, r) = <<r>> /\ Len(<<r>>) = 1 /\ <<r>>[1] = r /\ r.close = d.closes
  OBVIOUS
<1> HIDE DEF r
<1>11. \/ d.asks = <<>>
       \/ d.stream = "Starting" /\ Len(d.asks) = 1 /\ d.asks[1].close = d.closes
  BY <1>9, <1>10
<1>12. d.callbacks = [v \in Users |-> {}]
  BY <1>3, <1>8
<1> QED
  BY <1>8, <1>11, <1>12 DEF Launched

LEMMA ClosedCore ==
  ASSUME NEW c \in ClientType, Core(c), ~IsStarted(c), provider.counter \in Nat
  PROVE  Done(c, Closed(c))
<1> DEFINE d == StartIfNeeded(c)
           e == [d EXCEPT !.shake = FALSE]
<1>1. c.closes \in Nat /\ c.call = NoStream
  BY DEF ClientType, Core, IsStarted
<1>2. /\ d \in ClientType /\ Core(d) /\ Asked(c, d) /\ d.callbacks = c.callbacks
      /\ d.stream # "Open" /\ d.call = NoStream
  <2>1. CASE ShouldStartWriteStream(c)
    <3>1. d = Start(c) /\ c.pipe # <<>>
      BY <2>1 DEF StartIfNeeded, ShouldStartWriteStream
    <3> HIDE DEF d
    <3> QED
      BY <3>1, StartCore DEF SameWork
  <2>2. CASE ~ShouldStartWriteStream(c)
    <3>1. d = c
      BY <2>2 DEF StartIfNeeded
    <3> HIDE DEF d
    <3> QED
      BY <1>1, <3>1 DEF Asked, Quiet, IsStarted
  <2> QED
    BY <2>1, <2>2
<1>3. Closed(c) = e
  BY DEF Closed
<1> HIDE DEF d
<1>4. /\ e \in ClientType /\ e.pipe = d.pipe /\ e.callbacks = d.callbacks /\ ~e.shake
      /\ e.stream = d.stream /\ e.call = d.call /\ e.asks = d.asks /\ e.closes = d.closes
      /\ e.idle = d.idle /\ e.timer = d.timer /\ e.sound = d.sound
  BY <1>2 DEF ClientType
<1> HIDE DEF e
<1>5. Tidy(e) /\ Match(e)
  BY <1>2, <1>4 DEF Tidy, Core, Greeted, IsStarted, Match
<1>6. Asked(c, e)
  BY <1>2, <1>4 DEF Asked, Quiet
<1> QED
  BY <1>2, <1>3, <1>4, <1>5, <1>6 DEF Done

\* An error closes a stream that was started.
LEMMA BrokenCore ==
  ASSUME NEW c \in ClientType, Core(c), IsStarted(c), provider.counter \in Nat
  PROVE  /\ Done(c, Closed(Close(c, "Error"))) /\ Closed(Close(c, "Error")).closes > c.closes
         /\ Quiet(c, Closed(Close(c, "Error")))
<1> DEFINE d == Close(c, "Error")
           e == Closed(d)
<1>1. /\ d \in ClientType /\ Core(d) /\ Quiet(c, d) /\ SameWork(c, d) /\ d.stream = "Error"
  BY CloseCore
<1>2. d.closes = c.closes + 1 /\ c.closes \in Nat
  BY DEF Close, ClientType
<1> HIDE DEF d
<1>6. e.asks = d.asks
  <2>1. PICK x : x = StartIfNeeded(d)
    OBVIOUS
  <2>2. x = d \/ x = [d EXCEPT !.stream = "Backoff", !.timer = TRUE]
    BY <1>1, <2>1 DEF StartIfNeeded, Start
  <2>3. x.asks = d.asks /\ x \in ClientType
    BY <1>1, <2>2 DEF ClientType, State
  <2>4. e = [x EXCEPT !.shake = FALSE]
    BY <2>1 DEF Closed
  <2> QED
    BY <2>3, <2>4 DEF ClientType
<1>3. Done(d, e)
  BY <1>1, ClosedCore DEF IsStarted
<1> HIDE DEF e
<1>4. Asked(c, e)
  BY <1>1, <1>3, QuietThenAsked DEF Done
<1>5. e.closes >= d.closes /\ e.closes \in Nat
  BY <1>3 DEF Done, Asked, Quiet, ClientType
<1>7. Quiet(c, e)
  BY <1>1, <1>2, <1>5, <1>6 DEF Quiet
<1> QED
  BY <1>1, <1>2, <1>3, <1>4, <1>5, <1>7 DEF Done, SameWork, d, e

\* A token opens the call of the stream that waits for it.
LEMMA ResumeCore ==
  ASSUME NEW c \in ClientType, Tidy(c), c.stream = "Starting", provider.counter \in Nat,
         NEW t, t.user \in Users
  PROVE  /\ Resume(c, t) \in ClientType /\ Tidy(Resume(c, t)) /\ Match(Resume(c, t))
         /\ Resume(c, t).callbacks = c.callbacks
         /\ Resume(c, t).call # NoStream => Resume(c, t).call.answers = <<>>
         /\ \/ Asked(c, Resume(c, t)) /\ Resume(c, t).closes > c.closes
            \/ Resume(c, t).asks = c.asks /\ Resume(c, t).closes = c.closes
<1> DEFINE d == [c EXCEPT !.sound = @ /\ c.stream = "Starting"]
           call == [user |-> t.user, requests |-> <<>>, answers |-> <<>>]
           e == [d EXCEPT !.stream = "Open", !.sound = @ /\ ~c.shake, !.call = call]
           f == Send(e, <<Hello>>)
<1>1. d = c
  BY DEF ClientType, Tidy, Core
<1>2. Resume(c, t) = IF t.kind = "noToken" THEN Closed(Close(d, "Error")) ELSE f
  BY DEF Resume
<1> HIDE DEF d, f
<1>3. CASE t.kind = "noToken"
  <2>1. Resume(c, t) = Closed(Close(c, "Error")) /\ IsStarted(c)
    BY <1>1, <1>2, <1>3 DEF IsStarted
  <2> QED
    BY <2>1, BrokenCore DEF Done, Tidy
<1>4. CASE t.kind # "noToken"
  <2>1. ~c.shake /\ c.pipe # <<>> /\ ~c.timer /\ c.sound
    BY DEF Tidy, Core, IsStarted, Greeted
  <2>2. <<>> \in Seq({Hello} \cup Writes) /\ <<>> \in Seq(Answer)
        /\ <<Hello>> \in Seq({Hello} \cup Writes)
    OBVIOUS
  <2>3. call \in Call /\ call # NoStream /\ call.requests = <<>> /\ call.answers = <<>>
    <3>1. call \in Call
      BY <2>2 DEF Call
    <3> QED
      BY <3>1, NoStreamAssumption
  <2> HIDE DEF call
  <2>4. /\ e \in ClientType /\ SameWork(c, e) /\ e.shake = c.shake /\ e.stream = "Open"
        /\ e.call = call /\ e.asks = c.asks /\ e.closes = c.closes
        /\ e.timer = c.timer /\ e.sound
    BY <1>1, <2>1, <2>3 DEF ClientType, State, SameWork
  <2> HIDE DEF e
  <2>5. /\ f \in ClientType /\ Core(f) /\ SameWork(e, f) /\ f.shake = e.shake
        /\ f.stream = "Open" /\ Quiet(e, f)
        /\ f.call = [e.call EXCEPT !.requests = @ \o <<Hello>>]
    BY <2>1, <2>2, <2>3, <2>4, SendCore DEF f, SameWork
  <2>6. f.closes = e.closes
    BY <2>4 DEF f, Send, ClientType
  <2>7. f.call.requests = <<Hello>> /\ f.call.answers = <<>>
    <3>1. <<>> \o <<Hello>> = <<Hello>>
      OBVIOUS
    <3> QED
      BY <2>3, <2>4, <2>5, <3>1 DEF Call
  <2>8. Carries(f.call, <<Hello>>)
    BY <2>7 DEF Carries
  <2>9. Tidy(f) /\ Match(f)
    BY <2>1, <2>4, <2>5, <2>8 DEF Tidy, Match, Expected
  <2> QED
    BY <1>2, <1>4, <2>4, <2>5, <2>6, <2>7, <2>9 DEF SameWork, Quiet
<1> QED
  BY <1>3, <1>4

-----------------------------------------------------------------------------
(* Answers.                                                                *)

\* The first answer is about the first write that is carried.
LEMMA CarriesRest ==
  ASSUME NEW call \in Call, NEW T, NEW e \in Seq(T), Carries(call, e), call.answers # <<>>
  PROVE  /\ e # <<>> /\ Head(call.answers).w = Head(e) /\ Head(call.answers) \in Answer
         /\ Head(call.answers) = call.answers[1] /\ 1 \in 1..Len(call.answers)
         /\ Carries([call EXCEPT !.answers = Tail(@)], Tail(e))
<1>1. call.answers \in Seq(Answer) /\ call.requests \in Seq({Hello} \cup Writes)
  BY DEF Call
<1>2. PICK an : an = call.answers
  OBVIOUS
<1>3. PICK rq : rq = call.requests
  OBVIOUS
<1> DEFINE next == [call EXCEPT !.answers = Tail(an)]
           n == Len(an)
<1>4. next.answers = Tail(an) /\ next.requests = rq
  BY <1>3 DEF Call
<1>5. /\ n \in Nat /\ n >= 1 /\ Len(Tail(an)) = n - 1 /\ Head(an) = an[1] /\ Head(an) \in Answer
      /\ \A i \in 1..(n - 1) : Tail(an)[i] = an[i + 1]
  <2>1. an \in Seq(Answer) /\ an # <<>>
    BY <1>1, <1>2
  <2> QED
    BY <2>1, HeadTailProperties, EmptySeq
<1>6. Len(rq) \in Nat /\ Len(e) \in Nat
  BY <1>1, <1>3
<1>7. /\ n + Len(rq) = Len(e)
      /\ \A i \in 1..n : an[i].w = e[i]
      /\ \A i \in 1..Len(rq) : rq[i] = e[n + i]
  BY <1>2, <1>3 DEF Carries
<1>8. e # <<>> /\ Len(e) >= 1
  BY <1>5, <1>6, <1>7
<1>9. /\ Len(Tail(e)) = Len(e) - 1 /\ Head(e) = e[1]
      /\ \A i \in 1..(Len(e) - 1) : Tail(e)[i] = e[i + 1]
  BY <1>8, HeadTailProperties
<1> HIDE DEF n, next
<1>10. Head(an).w = Head(e) /\ 1 \in 1..n
  BY <1>5, <1>7, <1>9
<1>11. n - 1 + Len(rq) = Len(Tail(e))
  BY <1>5, <1>6, <1>7, <1>9
<1>12. ASSUME NEW i \in 1..(n - 1) PROVE Tail(an)[i].w = Tail(e)[i]
  <2>1. i + 1 \in 1..n /\ i \in 1..(Len(e) - 1)
    BY <1>5, <1>6, <1>7
  <2> QED
    BY <1>5, <1>7, <1>9, <2>1
<1>13. ASSUME NEW i \in 1..Len(rq) PROVE rq[i] = Tail(e)[n - 1 + i]
  <2>1. PICK k \in 1..(Len(e) - 1) : k = n - 1 + i
    BY <1>5, <1>6, <1>7
  <2>2. k + 1 = n + i /\ Tail(e)[k] = e[k + 1]
    BY <1>5, <1>9, <2>1
  <2>3. rq[i] = e[k + 1]
    BY <1>7, <2>2
  <2> QED
    BY <1>5, <2>1, <2>2, <2>3
<1>14. Carries(next, Tail(e))
  BY <1>4, <1>5, <1>11, <1>12, <1>13, ZenonT(40) DEF Carries
<1>15. next = [call EXCEPT !.answers = Tail(@)]
  BY <1>2 DEF next, Call
<1> QED
  BY <1>2, <1>5, <1>8, <1>10, <1>14, <1>15 DEF n

\* The server takes the first request off and puts its answer behind the others.
LEMMA CarriesServed ==
  ASSUME NEW call \in Call, NEW T, NEW e \in Seq(T), Carries(call, e), call.requests # <<>>,
         NEW kind \in {"hello", "committed", "refused"}, NEW w, w = Head(call.requests),
         NEW a, a = [kind |-> kind, w |-> w]
  PROVE  /\ w = e[Len(call.answers) + 1] /\ Len(call.answers) + 1 \in 1..Len(e)
         /\ w \in {Hello} \cup Writes /\ a \in Answer
         /\ [call EXCEPT !.requests = Tail(@), !.answers = Append(@, a)] \in Call
         /\ Carries([call EXCEPT !.requests = Tail(@), !.answers = Append(@, a)], e)
<1>1. call.answers \in Seq(Answer) /\ call.requests \in Seq({Hello} \cup Writes)
  BY DEF Call
<1>2. PICK an : an = call.answers
  OBVIOUS
<1>3. PICK rq : rq = call.requests
  OBVIOUS
<1> DEFINE next == [call EXCEPT !.requests = Tail(rq), !.answers = Append(an, a)]
           n == Len(an)
<1>4. /\ Len(rq) \in Nat /\ Len(rq) >= 1 /\ Len(Tail(rq)) = Len(rq) - 1 /\ w = rq[1]
      /\ w \in {Hello} \cup Writes /\ Tail(rq) \in Seq({Hello} \cup Writes)
      /\ \A i \in 1..(Len(rq) - 1) : Tail(rq)[i] = rq[i + 1]
  <2>1. rq \in Seq({Hello} \cup Writes) /\ rq # <<>> /\ w = Head(rq)
    BY <1>1, <1>3
  <2> QED
    BY <2>1, HeadTailProperties, EmptySeq
<1>5. a \in Answer /\ a.w = w
  BY <1>4 DEF Answer
<1>6. /\ Append(an, a) \in Seq(Answer) /\ n \in Nat /\ Len(Append(an, a)) = n + 1
      /\ \A i \in 1..n : Append(an, a)[i] = an[i]
      /\ Append(an, a)[n + 1] = a
  <2>1. an \in Seq(Answer)
    BY <1>1, <1>2
  <2> QED
    BY <1>5, <2>1, AppendProperties
<1>7. Len(e) \in Nat
  OBVIOUS
<1>8. /\ n + Len(rq) = Len(e)
      /\ \A i \in 1..n : an[i].w = e[i]
      /\ \A i \in 1..Len(rq) : rq[i] = e[n + i]
  BY <1>2, <1>3 DEF Carries
<1>9. next.answers = Append(an, a) /\ next.requests = Tail(rq) /\ next \in Call
  BY <1>4, <1>6 DEF Call
<1> HIDE DEF n, next
<1>10. w = e[n + 1] /\ n + 1 \in 1..Len(e)
  <2>1. 1 \in 1..Len(rq)
    BY <1>4
  <2> QED
    BY <1>4, <1>6, <1>7, <1>8, <2>1
<1>11. n + 1 + (Len(rq) - 1) = Len(e)
  BY <1>4, <1>6, <1>7, <1>8
<1>12. ASSUME NEW i \in 1..(n + 1) PROVE Append(an, a)[i].w = e[i]
  <2>1. i \in 1..n \/ i = n + 1
    BY <1>6
  <2> QED
    BY <1>5, <1>6, <1>8, <1>10, <2>1
<1>13. ASSUME NEW i \in 1..(Len(rq) - 1) PROVE Tail(rq)[i] = e[n + 1 + i]
  <2>1. i + 1 \in 1..Len(rq) /\ n + (i + 1) = n + 1 + i
    BY <1>4, <1>6
  <2> QED
    BY <1>4, <1>8, <2>1
<1>14. Carries(next, e)
  <2>1. Len(next.answers) = n + 1 /\ Len(next.requests) = Len(rq) - 1
    BY <1>4, <1>6, <1>9
  <2>2. \A i \in 1..(n + 1) : next.answers[i].w = e[i]
    BY <1>9, <1>12
  <2>3. \A i \in 1..(Len(rq) - 1) : next.requests[i] = e[n + 1 + i]
    BY <1>9, <1>13
  <2> QED
    BY <1>11, <2>1, <2>2, <2>3 DEF Carries
<1>15. next = [call EXCEPT !.requests = Tail(@), !.answers = Append(@, a)]
  BY <1>2, <1>3 DEF next, Call
<1> QED
  BY <1>2, <1>4, <1>5, <1>9, <1>10, <1>14, <1>15 DEF n

\* The writes of the rest of a pipeline.
LEMMA WsTail ==
  ASSUME NEW p \in Seq(Batch), p # <<>>
  PROVE  Tail(p) \in Seq(Batch) /\ Ws(Tail(p)) = Tail(Ws(p)) /\ Head(Ws(p)) = Head(p).w
<1>1. /\ Tail(p) \in Seq(Batch) /\ Len(p) \in Nat /\ Len(p) >= 1 /\ Head(p) = p[1]
      /\ Len(Tail(p)) = Len(p) - 1 /\ \A i \in 1..(Len(p) - 1) : Tail(p)[i] = p[i + 1]
  BY HeadTailProperties, EmptySeq
<1>2. /\ Ws(p) \in Seq(Writes) /\ Len(Ws(p)) = Len(p) /\ \A i \in 1..Len(p) : Ws(p)[i] = p[i].w
  BY WsProperties
<1>3. /\ Ws(Tail(p)) \in Seq(Writes) /\ Len(Ws(Tail(p))) = Len(p) - 1
      /\ \A i \in 1..(Len(p) - 1) : Ws(Tail(p))[i] = Tail(p)[i].w
  BY <1>1, WsProperties
<1>4. Ws(p) # <<>>
  BY <1>1, <1>2
<1>5. /\ Tail(Ws(p)) \in Seq(Writes) /\ Len(Tail(Ws(p))) = Len(p) - 1 /\ Head(Ws(p)) = Ws(p)[1]
      /\ \A i \in 1..(Len(p) - 1) : Tail(Ws(p))[i] = Ws(p)[i + 1]
  BY <1>2, <1>4, HeadTailProperties
<1> DEFINE x == Ws(Tail(p))
           y == Tail(Ws(p))
<1>6. ASSUME NEW i \in 1..(Len(p) - 1) PROVE x[i] = y[i]
  <2>1. i + 1 \in 1..Len(p)
    BY <1>1
  <2> QED
    BY <1>1, <1>2, <1>3, <1>5, <2>1
<1> HIDE DEF x, y
<1>7. x = y
  <2>1. x \in Seq(Writes) /\ y \in Seq(Writes) /\ Len(x) = Len(p) - 1 /\ Len(y) = Len(p) - 1
    BY <1>3, <1>5 DEF x, y
  <2> QED
    BY <1>6, <2>1, SeqEqual
<1>8. 1 \in 1..Len(p)
  BY <1>1
<1> QED
  BY <1>1, <1>2, <1>5, <1>7, <1>8 DEF x, y

LEMMA ReadCore ==
  ASSUME NEW c \in ClientType, Core(c), c.call # NoStream, c.call.answers # <<>>
  PROVE  /\ Read(c) \in ClientType /\ Core(Read(c)) /\ Quiet(c, Read(c)) /\ SameWork(c, Read(c))
         /\ Read(c).shake = c.shake /\ Read(c).stream = "Open"
         /\ Read(c).user = c.user /\ Read(c).closes = c.closes
         /\ Read(c).call = [c.call EXCEPT !.answers = Tail(@)] /\ Read(c).call # NoStream
<1>1. c.call \in Call /\ c.closes \in Nat /\ c.stream = "Open"
  BY DEF ClientType, Core
<1> DEFINE call == [c.call EXCEPT !.answers = Tail(@)]
           d == [c EXCEPT !.call = call]
<1>2. Tail(c.call.answers) \in Seq(Answer)
  BY <1>1 DEF Call
<1>3. call \in Call
  BY <1>1, <1>2 DEF Call
<1>4. call # NoStream
  BY <1>3, NoStreamAssumption
<1>5. Read(c) = d
  BY <1>1 DEF Read, ClientType
<1> HIDE DEF call
<1>6. /\ d \in ClientType /\ SameWork(c, d) /\ d.shake = c.shake /\ d.stream = c.stream
      /\ d.call = call /\ d.asks = c.asks /\ d.closes = c.closes /\ d.user = c.user
      /\ d.idle = c.idle /\ d.timer = c.timer /\ d.sound = c.sound
  BY <1>3 DEF ClientType, SameWork
<1> HIDE DEF d
<1> QED
  BY <1>1, <1>4, <1>5, <1>6 DEF Core, Greeted, IsStarted, SameWork, Quiet, call

\* The front of the pipeline is resolved: the others move up.
LEMMA FrontResolvedCore ==
  ASSUME IInv, NEW c, Steady(c, queue[client.user], Own(client.user)), c.user = client.user,
         c.pipe # <<>>, Core(c), Greeted(c) \/ ~IsStarted(c),
         c.call # NoStream => Carries(c.call, Tail(Ws(c.pipe)))
  PROVE  /\ FrontResolved(c) \in ClientType /\ Core(FrontResolved(c)) /\ Match(FrontResolved(c))
         /\ Asked(c, FrontResolved(c)) /\ FrontResolved(c).shake = c.shake
         /\ FrontResolved(c).stream = "Open" <=> c.stream = "Open"
         /\ FrontResolved(c).stream = "Open" => FrontResolved(c).call.answers = c.call.answers
         /\ ~ShouldStartWriteStream(FrontResolved(c))
         /\ FrontResolved(c).callbacks =
              [c.callbacks EXCEPT ![c.user] = @ \ Notified(Head(c.pipe).id)]
<1> DEFINE q == queue[client.user]
           own == Own(client.user)
           id == Head(c.pipe).id
           cb == [c.callbacks EXCEPT ![c.user] = @ \ Notified(id)]
           d == [c EXCEPT !.pipe = Tail(c.pipe), !.callbacks = cb,
                          !.sound = @ /\ id \in Ids(queue[c.user])]
           e == FillWritePipeline(d, Tail(q))
<1>1. q \in Seq(Batch) /\ Sorted(q) /\ Owns(own, q) /\ provider.counter \in Nat
  BY Parts
<1>2. c \in ClientType /\ c.pipe \in Seq(Batch) /\ Front(c.pipe, q) /\ PipeOK(c, q)
  BY DEF Steady, Sane, PipeOK, ClientType
<1>3. q # <<>> /\ Remove(q, id) = Tail(q)
  BY FrontResolvedSteady
<1>4. id \in Ids(q)
  <2>1. Head(c.pipe) = q[1] /\ 1 \in DOMAIN q
    BY <1>1, <1>2, <1>3 DEF Front
  <2> QED
    BY <2>1 DEF Ids
<1>5. cb \in [Users -> SUBSET Batch] /\ c.sound /\ c.closes \in Nat
  BY <1>2 DEF ClientType, Core
<1>6. FrontResolved(c) = e
  BY <1>2, <1>3 DEF FrontResolved, ClientType
<1> HIDE DEF cb, id
<1>7. Tail(c.pipe) \in Seq(Batch) /\ Ws(Tail(c.pipe)) = Tail(Ws(c.pipe))
  BY <1>2, WsTail
<1>8. /\ d \in ClientType /\ d.pipe = Tail(c.pipe) /\ d.callbacks = cb /\ d.shake = c.shake
      /\ d.stream = c.stream /\ d.call = c.call /\ d.asks = c.asks /\ d.closes = c.closes
      /\ d.idle = c.idle /\ d.timer = c.timer /\ d.sound
  BY <1>2, <1>4, <1>5, <1>7 DEF ClientType
<1> HIDE DEF d
<1>9. Core(d)
  BY <1>8 DEF Core, Greeted, IsStarted
<1>10. Match(d)
  <2>1. c.call # NoStream => c.shake
    BY DEF Core, Greeted, IsStarted
  <2> QED
    BY <1>7, <1>8, <2>1 DEF Match, Expected
<1>11. Tail(q) \in Seq(Batch) /\ Sorted(Tail(q)) /\ PipeOK(d, Tail(q))
  <2>1. /\ Len(c.pipe) \in Nat /\ Len(Tail(c.pipe)) = Len(c.pipe) - 1
        /\ \A i \in 1..Len(Tail(c.pipe)) : Tail(c.pipe)[i] = c.pipe[i + 1]
    BY <1>2, HeadTailProperties, EmptySeq
  <2>2. /\ Len(q) \in Nat /\ Len(Tail(q)) = Len(q) - 1 /\ Tail(q) \in Seq(Batch)
        /\ \A i \in 1..Len(Tail(q)) : Tail(q)[i] = q[i + 1]
    BY <1>1, <1>3, HeadTailProperties, EmptySeq
  <2>3. Sorted(Tail(q))
    BY <1>1, <1>3, TailSorted
  <2>4. Len(c.pipe) <= kMaxPendingWrites
    BY <1>2 DEF PipeOK
  <2> HIDE DEF q
  <2>5. Front(Tail(c.pipe), Tail(q)) /\ Len(Tail(c.pipe)) <= kMaxPendingWrites
    BY <1>2, <2>1, <2>2, <2>4, PipelineAssumption DEF Front
  <2> QED
    BY <1>8, <2>2, <2>3, <2>5 DEF PipeOK
<1> HIDE DEF q, e
<1>12. Filled(d, e)
  BY <1>1, <1>8, <1>9, <1>10, <1>11, FillCore DEF e
<1>13. Quiet(c, d)
  BY <1>5, <1>8 DEF Quiet
<1>14. Asked(c, e)
  BY <1>2, <1>8, <1>12, <1>13, QuietThenAsked DEF Filled
<1> QED
  BY <1>6, <1>8, <1>12, <1>14 DEF Filled, cb, id

-----------------------------------------------------------------------------
(* The invariant: tokens.                                                  *)

AskAt(n) == {i \in 1..Len(client.asks) : client.asks[i].close = n}
FetchAt(n) == {r \in fetching : r.close = n}
MainAt(n) == {i \in 1..Len(mainQueue) : mainQueue[i].kind # "notice" /\ mainQueue[i].close = n}
WorkAt(n) == {i \in 1..Len(workQueue) : workQueue[i].kind # "change" /\ workQueue[i].close = n}

One(S) == \A x, y \in S : x = y

\* At most one token request that remembers n is under way, in one place.
OneToken(n) ==
  /\ One(AskAt(n)) /\ One(FetchAt(n)) /\ One(MainAt(n)) /\ One(WorkAt(n))
  /\ AskAt(n) # {} => FetchAt(n) = {} /\ MainAt(n) = {} /\ WorkAt(n) = {}
  /\ FetchAt(n) # {} => MainAt(n) = {} /\ WorkAt(n) = {}
  /\ MainAt(n) # {} => WorkAt(n) = {}

NoToken(n) == AskAt(n) = {} /\ FetchAt(n) = {} /\ MainAt(n) = {} /\ WorkAt(n) = {}

\* No request remembers a close_count_ that is still to come.
ClosesOld ==
  /\ \A i \in 1..Len(client.asks) : client.asks[i].close <= client.closes
  /\ \A r \in fetching : r.close <= client.closes
  /\ \A i \in 1..Len(mainQueue) :
       mainQueue[i].kind # "notice" => mainQueue[i].close <= client.closes
  /\ \A i \in 1..Len(workQueue) :
       workQueue[i].kind # "change" => workQueue[i].close <= client.closes

\* While the stream waits for a token one request is under way for it, otherwise none.
TokensInv ==
  /\ ClosesOld
  /\ OneToken(client.closes)
  /\ NoToken(client.closes) \/ client.stream = "Starting"

AnswersInv == IInv /\ Tidy(client) /\ Match(client) /\ TokensInv

\* The closes that requests remember are numbers.
LEMMA CloseTypes ==
  ASSUME IInv
  PROVE  /\ client.closes \in Nat /\ client.asks \in Seq(Request)
         /\ \A i \in 1..Len(client.asks) : client.asks[i].close \in Nat
         /\ \A r \in fetching : r.close \in Nat
         /\ \A i \in 1..Len(mainQueue) :
              mainQueue[i].kind # "notice" => mainQueue[i].close \in Nat
         /\ \A i \in 1..Len(workQueue) :
              workQueue[i].kind # "change" => workQueue[i].close \in Nat
<1>1. client.closes \in Nat /\ client.asks \in Seq(Request)
  BY Parts DEF ClientType
<1>2. \A i \in 1..Len(client.asks) : client.asks[i].close \in Nat
  <2> TAKE i \in 1..Len(client.asks)
  <2>1. client.asks[i] \in Request
    BY <1>1, ElementOfSeq
  <2> QED
    BY <2>1 DEF Request
<1>3. \A i \in 1..Len(workQueue) :
        workQueue[i] \in [kind : {"change"}, user : Users]
                         \cup [kind : {"token", "noToken"}, user : Users, close : Nat]
  BY ElementOfSeq DEF IInv, TypeOK
<1>4. \A r \in fetching : r.close \in Nat
  BY DEF IInv, TypeOK
<1> QED
  BY <1>1, <1>2, <1>3, <1>4, QueuedTypes DEF IInv

\* The invariant of the next state, said of the number its client remembers.
LEMMA TokensNext ==
  ASSUME NEW n, n = client'.closes, ClosesOld', OneToken(n)',
         NoToken(n)' \/ client'.stream = "Starting"
  PROVE  TokensInv'
<1>1. /\ AskAt(n)' = AskAt(client.closes)' /\ FetchAt(n)' = FetchAt(client.closes)'
      /\ MainAt(n)' = MainAt(client.closes)' /\ WorkAt(n)' = WorkAt(client.closes)'
  BY DEF AskAt, FetchAt, MainAt, WorkAt
<1> QED
  BY <1>1 DEF TokensInv, OneToken, NoToken

\* An operation of the client asks for one token at most; k is 1 when it took its turn
\* off the worker queue.
LEMMA AskedTokens ==
  ASSUME IInv, TokensInv, client' \in ClientType, Asked(client, client'),
         UNCHANGED <<fetching, mainQueue>>, NEW k \in {0, 1},
         \A i \in 1..Len(workQueue') : /\ i + k \in 1..Len(workQueue)
                                       /\ workQueue'[i] = workQueue[i + k]
  PROVE  TokensInv'
<1>0. PICK m, n : m = client.closes /\ n = client'.closes
  OBVIOUS
<1>1. m \in Nat /\ n \in Nat /\ m <= n
  BY <1>0, CloseTypes DEF Asked, Quiet, ClientType
<1>2. /\ FetchAt(n)' = {r \in fetching : r.close = n}
      /\ MainAt(n)' = MainAt(n)
  BY DEF FetchAt, MainAt
<1>3. ASSUME NEW i \in WorkAt(n)' PROVE i \in Int /\ i + k \in WorkAt(n)
  BY <1>3 DEF WorkAt
<1>4. One(WorkAt(n)) => One(WorkAt(n)')
  <2> SUFFICES ASSUME One(WorkAt(n)), NEW x \in WorkAt(n)', NEW y \in WorkAt(n)'
               PROVE  x = y
    BY DEF One
  <2>1. x + k = y + k /\ x \in Int /\ y \in Int
    BY <1>3 DEF One
  <2> QED
    BY <2>1
<1>5. n > m => FetchAt(n) = {} /\ MainAt(n) = {} /\ WorkAt(n) = {}
                 /\ \A i \in 1..Len(client.asks) : client.asks[i].close # n
  BY <1>0, <1>1, CloseTypes DEF TokensInv, ClosesOld, FetchAt, MainAt, WorkAt
<1>6. FetchAt(n)' = FetchAt(n)
  BY DEF FetchAt
<1>7. WorkAt(n) = {} => WorkAt(n)' = {}
  BY <1>3
<1>8. /\ \A r \in fetching' : r.close <= n
      /\ \A i \in 1..Len(mainQueue') : mainQueue'[i].kind # "notice" => mainQueue'[i].close <= n
      /\ \A i \in 1..Len(workQueue') : workQueue'[i].kind # "change" => workQueue'[i].close <= n
  BY <1>0, <1>1, CloseTypes DEF TokensInv, ClosesOld
<1>9. CASE Quiet(client, client')
  <2>1. AskAt(n)' = AskAt(n)
    BY <1>9 DEF AskAt, Quiet
  <2>2. \A i \in 1..Len(client'.asks) : client'.asks[i].close <= n
    BY <1>0, <1>1, <1>9, CloseTypes DEF TokensInv, ClosesOld, Quiet
  <2>3. CASE n > m
    <3>1. AskAt(n) = {}
      BY <1>5, <2>3 DEF AskAt
    <3>2. NoToken(n)'
      BY <1>2, <1>5, <1>6, <1>7, <2>1, <2>3, <3>1 DEF NoToken
    <3>3. OneToken(n)'
      BY <3>2 DEF NoToken, OneToken, One
    <3> QED
      BY <1>0, <1>8, <2>2, <3>2, <3>3, TokensNext DEF ClosesOld
  <2>4. CASE n = m
    <3>1. OneToken(n) /\ (NoToken(n) \/ client.stream = "Starting")
      BY <1>0, <2>4 DEF TokensInv
    <3>2. OneToken(n)'
      BY <1>2, <1>4, <1>6, <1>7, <2>1, <3>1 DEF OneToken
    <3>3. NoToken(n)' \/ client'.stream = "Starting"
      BY <1>0, <1>2, <1>6, <1>7, <1>9, <2>1, <2>4, <3>1 DEF NoToken, Quiet
    <3> QED
      BY <1>0, <1>8, <2>2, <3>2, <3>3, TokensNext DEF ClosesOld
  <2> QED
    BY <1>1, <2>3, <2>4
<1>10. CASE ~Quiet(client, client')
  <2> DEFINE r == [close |-> n, counter |-> provider.counter]
             l == Len(client.asks)
  <2>1. /\ client'.asks = Append(client.asks, r) /\ client'.stream = "Starting"
        /\ n = m => client.stream # "Starting"
    BY <1>0, <1>10 DEF Asked
  <2>2. /\ l \in Nat /\ Len(client'.asks) = l + 1 /\ client'.asks[l + 1] = r
        /\ \A i \in 1..l : client'.asks[i] = client.asks[i]
    BY <2>1, CloseTypes
  <2>3. r.close = n
    OBVIOUS
  <2> HIDE DEF r
  <2>4. /\ \A i \in 1..l : client.asks[i].close # n
        /\ FetchAt(n) = {} /\ MainAt(n) = {} /\ WorkAt(n) = {}
    <3>1. CASE n > m
      BY <1>5, <3>1
    <3>2. CASE n = m
      BY <1>0, <2>1, <3>2 DEF TokensInv, NoToken, AskAt
    <3> QED
      BY <1>1, <3>1, <3>2
  <2>5. One(AskAt(n)') /\ \A i \in 1..Len(client'.asks) : client'.asks[i].close <= n
    <3>1. ASSUME NEW i \in 1..Len(client'.asks) PROVE client'.asks[i].close <= n
      <4>1. i \in 1..l \/ i = l + 1
        BY <2>2
      <4>2. CASE i \in 1..l
        <5>1. client.asks[i].close \in Nat /\ client.asks[i].close <= m
          BY <1>0, <4>2, CloseTypes DEF TokensInv, ClosesOld
        <5>2. client.asks[i].close <= n
          BY <1>1, <5>1
        <5> QED
          BY <2>2, <4>2, <5>2
      <4>3. CASE i = l + 1
        BY <1>1, <2>2, <2>3, <4>3
      <4> QED
        BY <4>1, <4>2, <4>3
    <3>2. ASSUME NEW i \in AskAt(n)' PROVE i = l + 1
      <4>1. i \in 1..Len(client'.asks) /\ client'.asks[i].close = n
        BY <3>2 DEF AskAt
      <4>2. i \in 1..l \/ i = l + 1
        BY <2>2, <4>1
      <4> QED
        BY <2>2, <2>4, <4>1, <4>2
    <3> QED
      BY <3>1, <3>2 DEF One
  <2>6. FetchAt(n)' = {} /\ MainAt(n)' = {} /\ WorkAt(n)' = {}
    BY <1>2, <1>6, <1>7, <2>4
  <2>7. OneToken(n)'
    BY <2>5, <2>6 DEF OneToken, One
  <2> QED
    BY <1>0, <1>8, <2>1, <2>5, <2>7, TokensNext DEF ClosesOld
<1> QED
  BY <1>9, <1>10

-----------------------------------------------------------------------------
(* Steps of the client and the server.                                     *)

\* What AnswersInv says of the parts a step works with.
LEMMA AnswerParts ==
  ASSUME AnswersInv
  PROVE  /\ IInv /\ Tidy(client) /\ Core(client) /\ Match(client) /\ TokensInv
         /\ client \in ClientType /\ provider.counter \in Nat
         /\ queue[client.user] \in Seq(Batch) /\ Sorted(queue[client.user])
         /\ PipeOK(client, queue[client.user])
BY Parts DEF AnswersInv, Tidy, Steady

\* An operation of the client that leaves tokens and the worker queue alone.
LEMMA OperationDone ==
  ASSUME AnswersInv, IInv', Done(client, client') \/ (/\ client' \in ClientType /\ Tidy(client')
                                                     /\ Match(client')
                                                     /\ Asked(client, client')),
         UNCHANGED <<fetching, mainQueue, workQueue>>
  PROVE  AnswersInv'
<1>1. client' \in ClientType /\ Tidy(client') /\ Match(client') /\ Asked(client, client')
  BY DEF Done
<1>2. PICK k \in {0, 1} : k = 0
  OBVIOUS
<1>3. \A i \in 1..Len(workQueue') : i + k \in 1..Len(workQueue) /\ workQueue'[i] = workQueue[i + k]
  BY <1>2
<1>4. TokensInv'
  BY <1>1, <1>3, AskedTokens DEF AnswersInv
<1>5. Tidy(client)' /\ Match(client)'
  BY <1>1 DEF Tidy, Core, Greeted, IsStarted, Match, Carries, Expected, Ws
<1> QED
  BY <1>4, <1>5 DEF AnswersInv

LEMMA HandshakeAnswers ==
  ASSUME AnswersInv, IInv', HandshakeComplete
  PROVE  /\ AnswersInv' /\ client'.callbacks = client.callbacks
         /\ client'.call.answers = Tail(client.call.answers)
<1> DEFINE r == Read(client)
           c == [r EXCEPT !.shake = TRUE]
           call == [client.call EXCEPT !.answers = Tail(@)]
<1>1. /\ client.call # NoStream /\ client.call.answers # <<>> /\ ~client.shake
      /\ client' = IF c.pipe = <<>> THEN c ELSE WriteMutations(c, c.pipe)
      /\ UNCHANGED <<fetching, mainQueue, workQueue>>
  BY DEF HandshakeComplete, Answered, auth
<1>2. /\ r \in ClientType /\ Core(r) /\ Quiet(client, r) /\ SameWork(client, r)
      /\ ~r.shake /\ r.stream = "Open" /\ r.call = call /\ r.call # NoStream
  BY <1>1, AnswerParts, ReadCore
<1> HIDE DEF r
<1>3. Carries(call, <<>>)
  <2>1. client.call \in Call /\ Carries(client.call, <<Hello>>) /\ <<Hello>> \in Seq({Hello})
    BY <1>1, AnswerParts DEF ClientType, Match, Expected
  <2>2. Tail(<<Hello>>) = <<>>
    OBVIOUS
  <2> QED
    BY <1>1, <2>1, <2>2, CarriesRest
<1> HIDE DEF call
<1>4. /\ c \in ClientType /\ SameWork(r, c) /\ c.shake /\ c.stream = r.stream
      /\ c.call = r.call /\ c.asks = r.asks /\ c.closes = r.closes
      /\ c.idle = r.idle /\ c.timer = r.timer /\ c.sound = r.sound
  BY <1>2 DEF ClientType, SameWork
<1> HIDE DEF c
<1>5. Quiet(client, c)
  BY <1>2, <1>4 DEF Quiet
<1>6. Ws(<<>>) = <<>>
  BY DEF Ws
<1>7. c.call.answers = Tail(client.call.answers)
  BY <1>2, <1>4, AnswerParts DEF ClientType, Call, call
<1>8. CASE c.pipe = <<>>
  <2>1. ~r.idle
    BY <1>2 DEF Core, Greeted
  <2>2. Tidy(c) /\ Match(c)
    BY <1>2, <1>3, <1>4, <1>6, <1>8, <2>1 DEF Tidy, Core, Greeted, IsStarted, Match, Expected
  <2> QED
    BY <1>1, <1>2, <1>4, <1>5, <1>8, <1>7, <2>2, OperationDone DEF Asked, SameWork
<1>9. CASE c.pipe # <<>>
  <2> DEFINE d == WriteMutations(c, c.pipe)
  <2>1. c.pipe \in Seq(Batch) /\ <<>> \in Seq(Batch) /\ <<>> \o c.pipe = c.pipe
    BY <1>4, ConcatEmptySeq DEF ClientType
  <2>2. c.sound /\ ~c.timer /\ c.call # NoStream
    BY <1>2, <1>4 DEF Core
  <2>3. /\ d \in ClientType /\ Core(d) /\ Quiet(c, d) /\ SameWork(c, d) /\ d.shake
        /\ d.stream = "Open" /\ Carries(d.call, Ws(<<>> \o c.pipe))
        /\ d.call.answers = c.call.answers
    BY <1>2, <1>3, <1>4, <1>6, <2>1, <2>2, WriteMutationsCore
  <2> HIDE DEF d
  <2>4. Tidy(d) /\ Match(d)
    BY <2>1, <2>3 DEF Tidy, Match, Expected, SameWork
  <2>5. Asked(client, d)
    BY <1>4, <1>5, <2>3, AnswerParts, QuietTwice DEF Asked
  <2> QED
    BY <1>1, <1>2, <1>4, <1>9, <1>7, <2>3, <2>4, <2>5, OperationDone DEF d, SameWork
<1> QED
  BY <1>8, <1>9

\* The first answer of an open call after the handshake is about the front of the pipeline.
LEMMA FirstAnswer ==
  ASSUME AnswersInv, client.call # NoStream, client.call.answers # <<>>, client.shake
  PROVE  /\ client.pipe # <<>>
         /\ Head(client.call.answers).w = Head(client.pipe).w
         /\ Carries([client.call EXCEPT !.answers = Tail(@)], Tail(Ws(client.pipe)))
<1>1. client.call \in Call /\ client.pipe \in Seq(Batch) /\ Carries(client.call, Ws(client.pipe))
  BY AnswerParts DEF ClientType, Match, Expected
<1>2. Ws(client.pipe) \in Seq(Writes) /\ Len(Ws(client.pipe)) = Len(client.pipe)
  BY <1>1, WsProperties
<1>3. /\ Ws(client.pipe) # <<>> /\ Head(client.call.answers).w = Head(Ws(client.pipe))
      /\ Carries([client.call EXCEPT !.answers = Tail(@)], Tail(Ws(client.pipe)))
  BY <1>1, <1>2, CarriesRest
<1>4. client.pipe # <<>>
  BY <1>2, <1>3
<1> QED
  BY <1>1, <1>3, <1>4, WsTail

LEMMA MutationResultAnswers ==
  ASSUME AnswersInv, IInv', MutationResult
  PROVE  /\ AnswersInv' /\ ResolveFront(client, "ok") /\ client'.user = client.user
         /\ client'.callbacks = [client.callbacks EXCEPT ![client.user] =
                                   @ \ Notified(Head(client.pipe).id)]
         /\ client'.stream = "Open" /\ client'.call.answers = Tail(client.call.answers)
<1> DEFINE c == Read(client)
           d == FrontResolved(c)
<1>1. client.call # NoStream /\ client.call.answers # <<>> /\ client.shake
      /\ UNCHANGED <<fetching, mainQueue, workQueue>>
  BY DEF MutationResult, Answered, auth
<1>2. /\ client.pipe # <<>>
      /\ Carries([client.call EXCEPT !.answers = Tail(@)], Tail(Ws(client.pipe)))
  BY <1>1, FirstAnswer
<1>3. client' = d /\ ResolveFront(client, "ok")
  BY <1>2 DEF MutationResult
<1>4. /\ c \in ClientType /\ Core(c) /\ Quiet(client, c) /\ SameWork(client, c)
      /\ c.shake = client.shake /\ c.stream = "Open" /\ c.user = client.user
      /\ c.call = [client.call EXCEPT !.answers = Tail(@)]
  BY <1>1, AnswerParts, ReadCore
<1>5. Steady(c, queue[client.user], Own(client.user))
  BY <1>1, Parts, ReadSteady DEF AnswersInv
<1> HIDE DEF c
<1>6. /\ d \in ClientType /\ Core(d) /\ Match(d) /\ Asked(c, d) /\ d.shake = c.shake
      /\ d.stream = "Open" <=> c.stream = "Open"
      /\ d.stream = "Open" => d.call.answers = c.call.answers
      /\ d.callbacks = [c.callbacks EXCEPT ![c.user] = @ \ Notified(Head(c.pipe).id)]
  <2>1. c.pipe # <<>> /\ Greeted(c) /\ Carries(c.call, Tail(Ws(c.pipe)))
    BY <1>1, <1>2, <1>4 DEF Greeted, SameWork
  <2> QED
    BY <1>4, <1>5, <2>1, AnswerParts, FrontResolvedCore
<1>11. d.user = client.user
  <2>1. c.pipe # <<>>
    BY <1>2, <1>4 DEF SameWork
  <2> QED
    BY <1>4, <1>5, <2>1, AnswerParts, FrontResolvedSteady DEF SameAccount
<1> HIDE DEF d
<1>7. Tidy(d)
  BY <1>4, <1>6 DEF Tidy
<1>8. Asked(client, d)
  BY <1>4, <1>6, AnswerParts, QuietThenAsked
<1>9. AnswersInv'
  BY <1>1, <1>3, <1>6, <1>7, <1>8, OperationDone
<1>10. c.call.answers = Tail(client.call.answers)
  BY <1>1, <1>4, AnswerParts DEF ClientType, Call
<1> QED
  BY <1>3, <1>4, <1>6, <1>9, <1>10, <1>11 DEF SameWork

\* A refused write is the front of the pipeline: it is given up and its completion told.
LEMMA WriteErrorAnswers ==
  ASSUME AnswersInv, IInv', WriteError
  PROVE  /\ AnswersInv' /\ client'.call = NoStream
         /\ \/ client'.callbacks = client.callbacks /\ UNCHANGED <<queue, told>>
            \/ /\ client.shake /\ ResolveFront(client, "failed") /\ client'.user = client.user
               /\ client'.callbacks = [client.callbacks EXCEPT ![client.user] =
                                         @ \ Notified(Head(client.pipe).id)]
<1> DEFINE q == queue[client.user]
           own == Own(client.user)
           c == Close(client, "Error")
           d == InhibitBackoff(c)
           e == FrontResolved(d)
           f == Closed(e)
<1>1. client.call # NoStream /\ UNCHANGED <<fetching, mainQueue, workQueue>>
  BY DEF WriteError, EndsRefused, auth
<1>2. IsStarted(client)
  BY <1>1, AnswerParts DEF Core, IsStarted
<1>3. /\ c \in ClientType /\ Core(c) /\ Quiet(client, c) /\ SameWork(client, c)
      /\ c.shake = client.shake /\ c.stream = "Error" /\ c.call = NoStream
  BY <1>2, AnswerParts, CloseCore
<1>4. Steady(c, q, own) /\ SameAccount(client, c)
  BY Parts, CloseSteady DEF AnswersInv
<1>5. /\ c.pipe = <<>> \/ ~c.shake => client' = Closed(c) /\ UNCHANGED <<queue, told>>
      /\ ~(c.pipe = <<>> \/ ~c.shake) => client' = f /\ ResolveFront(c, "failed")
  BY DEF WriteError
<1> HIDE DEF c
<1>6. CASE c.pipe = <<>> \/ ~c.shake
  <2>1. Done(c, Closed(c))
    BY <1>3, AnswerParts, ClosedCore DEF IsStarted
  <2>2. Asked(client, Closed(c))
    BY <1>3, <2>1, AnswerParts, QuietThenAsked DEF Done
  <2> QED
    BY <1>1, <1>3, <1>5, <1>6, <2>1, <2>2, OperationDone DEF Done, SameWork
<1>7. CASE ~(c.pipe = <<>> \/ ~c.shake)
  <2>1. client' = f /\ ResolveFront(c, "failed")
    BY <1>5, <1>7
  <2>2. /\ d \in ClientType /\ Core(d) /\ Quiet(c, d) /\ SameWork(c, d)
        /\ d.shake = c.shake /\ d.stream = "Initial" /\ d.call = NoStream
    BY <1>3, InhibitCore DEF IsStarted
  <2>3. Sane(d) /\ SameAccount(c, d)
    BY <1>3, <1>4, InhibitSane DEF Steady
  <2> HIDE DEF d
  <2>4. Steady(d, q, own) /\ d.user = client.user
    BY <1>4, <2>2, <2>3 DEF Steady, CallOK, PipeOK, SameWork, SameAccount
  <2>5. /\ e \in ClientType /\ Core(e) /\ Asked(d, e)
        /\ e.stream = "Open" <=> d.stream = "Open"
        /\ ~ShouldStartWriteStream(e)
        /\ e.callbacks = [d.callbacks EXCEPT ![d.user] = @ \ Notified(Head(d.pipe).id)]
    <3>1. d.pipe # <<>> /\ ~IsStarted(d)
      BY <1>7, <2>2 DEF SameWork, IsStarted
    <3> QED
      BY <2>2, <2>4, <3>1, AnswerParts, FrontResolvedCore
  <2>15. e.user = client.user
    <3>1. d.pipe # <<>>
      BY <1>7, <2>2 DEF SameWork
    <3> QED
      BY <2>4, <3>1, AnswerParts, FrontResolvedSteady DEF SameAccount
  <2> HIDE DEF e
  <2>6. f = [e EXCEPT !.shake = FALSE]
    BY <2>5 DEF Closed, StartIfNeeded
  <2>7. e.call = NoStream /\ e.stream # "Open"
    BY <2>2, <2>5 DEF Core
  <2> HIDE DEF f
  <2>8. /\ f \in ClientType /\ f.pipe = e.pipe /\ f.callbacks = e.callbacks /\ ~f.shake
        /\ f.user = e.user
        /\ f.stream = e.stream /\ f.call = e.call /\ f.asks = e.asks /\ f.closes = e.closes
        /\ f.idle = e.idle /\ f.timer = e.timer /\ f.sound = e.sound
    BY <2>5, <2>6 DEF ClientType
  <2>9. Tidy(f) /\ Match(f)
    BY <2>5, <2>7, <2>8 DEF Tidy, Core, Greeted, IsStarted, Match
  <2>10. Asked(client, f)
    <3>1. Quiet(client, d)
      BY <1>3, <2>2, AnswerParts, QuietTwice
    <3>2. Asked(client, e)
      BY <2>2, <2>5, <3>1, AnswerParts, QuietThenAsked
    <3> QED
      BY <2>8, <3>2 DEF Asked, Quiet
  <2>11. AnswersInv'
    BY <1>1, <2>1, <2>8, <2>9, <2>10, OperationDone
  <2>12. c.user = client.user /\ Head(d.pipe) = Head(client.pipe) /\ c.pipe = client.pipe
    BY <1>3, <1>4, <2>2 DEF SameAccount, SameWork
  <2>13. ResolveFront(client, "failed")
    BY <2>1, <2>12 DEF ResolveFront
  <2>14. d.callbacks = client.callbacks
    BY <1>3, <2>2 DEF SameWork
  <2> QED
    BY <1>3, <1>7, <2>1, <2>4, <2>5, <2>7, <2>8, <2>11, <2>12, <2>13, <2>14, <2>15
<1> QED
  BY <1>6, <1>7

\* Timers, broken streams and networks: no answer is read and no queue changes.
LEMMA TimersAnswers ==
  ASSUME AnswersInv, IInv', BackoffElapsed \/ IdleTimeout \/ StreamBreaks \/ ConnectivityChanged
  PROVE  AnswersInv' /\ client'.callbacks = client.callbacks /\ client'.call = NoStream
<1>1. UNCHANGED <<fetching, mainQueue, workQueue>>
  BY DEF BackoffElapsed, IdleTimeout, StreamBreaks, ConnectivityChanged, auth
<1>2. CASE BackoffElapsed
  <2> DEFINE d == [client EXCEPT !.timer = FALSE, !.sound = @ /\ client.stream = "Backoff",
                                 !.stream = "Initial"]
             e == Start(d)
  <2>1. client.timer /\ client' = e
    BY <1>2 DEF BackoffElapsed
  <2>2. /\ client.stream = "Backoff" /\ ~client.shake /\ client.pipe # <<>> /\ ~client.idle
        /\ client.call = NoStream /\ client.sound /\ client.closes \in Nat
    BY <2>1, AnswerParts DEF Tidy, Core, Greeted, IsStarted, ClientType
  <2>3. /\ d \in ClientType /\ d.pipe = client.pipe /\ d.callbacks = client.callbacks
        /\ d.shake = client.shake /\ d.stream = "Initial" /\ d.call = client.call
        /\ d.asks = client.asks /\ d.closes = client.closes /\ d.idle = client.idle
        /\ ~d.timer /\ d.sound
    BY <2>2, AnswerParts DEF ClientType, State
  <2> HIDE DEF d, e
  <2>4. Core(d) /\ ~IsStarted(d)
    BY <2>2, <2>3 DEF Core, IsStarted
  <2>5. /\ e \in ClientType /\ Core(e) /\ Asked(d, e) /\ SameWork(d, e)
        /\ e.shake = d.shake /\ e.call = NoStream
    BY <2>2, <2>3, <2>4, AnswerParts, StartCore DEF e
  <2>6. Tidy(e) /\ Match(e)
    BY <2>2, <2>3, <2>5 DEF Tidy, Match
  <2>7. Asked(client, e)
    <3>1. Quiet(client, d)
      BY <2>2, <2>3 DEF Quiet
    <3> QED
      BY <2>3, <2>5, <3>1, AnswerParts, QuietThenAsked
  <2> QED
    BY <1>1, <2>1, <2>3, <2>5, <2>6, <2>7, OperationDone DEF SameWork
<1>3. CASE IdleTimeout
  <2> DEFINE d == Stop(client)
  <2>1. client.idle /\ client' = d
    BY <1>3 DEF IdleTimeout
  <2>2. client.pipe = <<>>
    BY <2>1, AnswerParts DEF Core
  <2>3. /\ d \in ClientType /\ Tidy(d) /\ Quiet(client, d) /\ SameWork(client, d)
        /\ d.call = NoStream
    BY <2>2, AnswerParts, StopCore
  <2> HIDE DEF d
  <2>4. Match(d) /\ Asked(client, d)
    BY <2>3 DEF Match, Asked
  <2> QED
    BY <1>1, <2>1, <2>3, <2>4, OperationDone DEF SameWork
<1>4. CASE StreamBreaks
  <2>1. client' = Closed(Close(client, "Error")) /\ IsStarted(client)
    BY <1>4, AnswerParts DEF StreamBreaks, Core, IsStarted
  <2>2. Done(client, client')
    BY <2>1, AnswerParts, BrokenCore
  <2> QED
    BY <1>1, <2>2, OperationDone DEF Done
<1>5. CASE ConnectivityChanged /\ client.call = NoStream
  <2>1. Done(client, client')
    BY <1>5, AnswerParts, RestartCore DEF ConnectivityChanged
  <2> QED
    BY <1>1, <2>1, OperationDone DEF Done
<1>6. CASE ConnectivityChanged /\ client.call # NoStream
  <2> DEFINE q == queue[client.user]
  <2>1. PICK d : d = Closed(Close(client, "Error"))
    OBVIOUS
  <2>2. client' = RestartNetwork(d, q) /\ IsStarted(client)
    BY <1>6, <2>1, AnswerParts DEF ConnectivityChanged, Core, IsStarted
  <2>3. Done(client, d) /\ Quiet(client, d)
    BY <2>1, <2>2, AnswerParts, BrokenCore
  <2>4. Done(d, client')
    BY <2>2, <2>3, AnswerParts, RestartCore DEF Done
  <2>5. Asked(client, client')
    BY <2>3, <2>4, AnswerParts, QuietThenAsked DEF Done
  <2>6. Done(client, client')
    BY <2>3, <2>4, <2>5 DEF Done
  <2> QED
    BY <1>1, <2>6, OperationDone DEF Done
<1> QED
  BY <1>2, <1>3, <1>4, <1>5, <1>6

\* What the client expects to hear about is a sequence of requests.
LEMMA ExpectedType ==
  ASSUME NEW c \in ClientType
  PROVE  Expected(c) \in Seq({Hello} \cup Writes)
<1>1. Ws(c.pipe) \in Seq(Writes)
  BY WsProperties DEF ClientType
<1>2. Seq(Writes) \subseteq Seq({Hello} \cup Writes) /\ <<Hello>> \in Seq({Hello} \cup Writes)
  OBVIOUS
<1> QED
  BY <1>1, <1>2 DEF Expected

\* The server answers the first request it has not read.
LEMMA ServerReadsAnswers ==
  ASSUME AnswersInv, IInv', NEW kind \in {"hello", "committed", "refused"},
         NEW w \in {Hello} \cup Writes, ServerReads(kind, w)
  PROVE  /\ AnswersInv' /\ client'.callbacks = client.callbacks
         /\ w = Expected(client)[Len(client.call.answers) + 1]
         /\ Len(client.call.answers) + 1 \in 1..Len(Expected(client))
         /\ client.call # NoStream
         /\ client'.call.answers = Append(client.call.answers, [kind |-> kind, w |-> w])
<1> DEFINE a == [kind |-> kind, w |-> w]
           call == [client.call EXCEPT !.requests = Tail(@), !.answers = Append(@, a)]
           d == [client EXCEPT !.call = call]
           e == Expected(client)
<1>1. /\ client.call # NoStream /\ client.call.requests # <<>> /\ w = Head(client.call.requests)
      /\ UNCHANGED <<fetching, mainQueue, workQueue>>
  BY DEF ServerReads, auth
<1>2. client.call \in Call /\ e \in Seq({Hello} \cup Writes) /\ Carries(client.call, e)
  BY <1>1, AnswerParts, ExpectedType DEF ClientType, Match
<1> HIDE DEF e
<1>3. /\ w = e[Len(client.call.answers) + 1] /\ Len(client.call.answers) + 1 \in 1..Len(e)
      /\ call \in Call /\ Carries(call, e)
  BY <1>1, <1>2, CarriesServed, ZenonT(40)
<1>4. client' = d
  BY <1>1, <1>2, AnswerParts DEF ServerReads, ClientType
<1>5. call.answers = Append(client.call.answers, a) /\ call # NoStream
  BY <1>2, <1>3, NoStreamAssumption DEF Call
<1> HIDE DEF call, a
<1>6. /\ d \in ClientType /\ d.pipe = client.pipe /\ d.callbacks = client.callbacks
      /\ d.enabled = client.enabled /\ d.shake = client.shake /\ d.stream = client.stream
      /\ d.call = call /\ d.asks = client.asks /\ d.closes = client.closes
      /\ d.idle = client.idle /\ d.timer = client.timer /\ d.sound = client.sound
  BY <1>3, AnswerParts DEF ClientType
<1> HIDE DEF d
<1>7. Tidy(d) /\ Match(d)
  BY <1>1, <1>3, <1>5, <1>6, AnswerParts
  DEF Tidy, Core, Greeted, IsStarted, Match, Expected, e
<1>8. client.closes \in Nat
  BY AnswerParts DEF ClientType
<1>9. Asked(client, d)
  BY <1>6, <1>8 DEF Asked, Quiet
<1>10. AnswersInv'
  BY <1>1, <1>4, <1>6, <1>7, <1>9, OperationDone
<1> QED
  BY <1>1, <1>3, <1>4, <1>5, <1>6, <1>10 DEF e, a

\* A new write goes to the end of its account's queue and, when there is room, of the pipeline.
LEMMA WriteAnswers ==
  ASSUME AnswersInv, IInv', Write
  PROVE  /\ AnswersInv' /\ client'.user = client.user
         /\ client'.callbacks = [client.callbacks EXCEPT ![client.user] =
                                   @ \cup {[id |-> client.next, w |-> written + 1]}]
         /\ client'.stream = "Open" <=> client.stream = "Open"
         /\ client'.stream = "Open" => client'.call.answers = client.call.answers
<1> DEFINE q == queue[client.user]
           u == client.user
           batch == [id |-> client.next, w |-> written + 1]
           cb == [client.callbacks EXCEPT ![u] = @ \cup {batch}]
           r == Append(q, batch)
           c == [client EXCEPT !.next = client.next + 1, !.callbacks = cb]
           d == FillWritePipeline(c, r)
<1>1. /\ client.next \in Nat /\ client.next + 1 \in Nat
      /\ u \in Users /\ client.callbacks \in [Users -> SUBSET Batch]
      /\ client.closes \in Nat /\ client.pipe \in Seq(Batch)
  BY AnswerParts DEF ClientType
<1>2. written + 1 \in Writes
  BY Parts, BoundsAssumption DEF Write, Writes, AnswersInv
<1>3. batch \in Batch
  BY <1>1, <1>2 DEF Batch
<1>4. cb \in [Users -> SUBSET Batch]
  BY <1>1, <1>3
<1>5. q \in Seq(Batch) /\ queue \in [Users -> Seq(Batch)]
  BY AnswerParts DEF IInv, TypeOK
<1>6. queue' = [queue EXCEPT ![u] = r] /\ UNCHANGED <<fetching, mainQueue, workQueue>>
  BY DEF Write, auth
<1>7. queue'[u] = r
  BY <1>1, <1>5, <1>6
<1>8. client' = d
  <2>1. client' = FillWritePipeline([client EXCEPT !.next = @ + 1,
                                                   !.callbacks[u] = @ \cup {batch}], queue'[u])
    BY DEF Write
  <2>2. c = [client EXCEPT !.next = @ + 1, !.callbacks[u] = @ \cup {batch}]
    BY <1>1, AnswerParts DEF ClientType
  <2> QED
    BY <1>7, <2>1, <2>2
<1>9. /\ Sorted(r) /\ r \in Seq(Batch) /\ Len(q) \in Nat /\ Len(r) = Len(q) + 1
      /\ \A i \in 1..Len(q) : r[i] = q[i]
  <2>1. queue'[u] \in Seq(Batch) /\ Sorted(queue'[u])
    BY <1>1 DEF IInv, TypeOK, QueuesInv
  <2> QED
    BY <1>3, <1>5, <1>7, <2>1, AppendProperties
<1>10. PipeOK(client, q)
  BY AnswerParts
<1> HIDE DEF q, r, cb, batch
<1>11. /\ c \in ClientType /\ c.pipe = client.pipe /\ c.callbacks = cb
       /\ c.enabled = client.enabled /\ c.shake = client.shake /\ c.stream = client.stream
       /\ c.call = client.call /\ c.asks = client.asks /\ c.closes = client.closes
       /\ c.idle = client.idle /\ c.timer = client.timer /\ c.sound = client.sound
  BY <1>1, <1>4, AnswerParts DEF ClientType
<1> HIDE DEF c
<1>12. PipeOK(c, r)
  <2>1. Len(client.pipe) \in Nat /\ Len(client.pipe) <= Len(q)
    BY <1>1, <1>10 DEF PipeOK, Front
  <2> QED
    BY <1>9, <1>10, <1>11, <2>1 DEF PipeOK, Front
<1>13. Core(c) /\ Match(c) /\ (c.shake => c.stream = "Open") /\ Quiet(client, c)
  BY <1>1, <1>11, AnswerParts DEF Tidy, Core, Greeted, IsStarted, Match, Expected, Quiet
<1>14. Filled(c, d)
  BY <1>9, <1>11, <1>12, <1>13, AnswerParts, FillCore
<1>18. d.user = u
  <2>1. c.user = u
    BY AnswerParts DEF c, ClientType
  <2> DEFINE own == Own(u) \cup {written + 1}
  <2>2. Steady(client, q, Own(u)) /\ Owns(Own(u), q)
    BY Parts DEF AnswersInv, q
  <2>3. Steady(c, r, own)
    BY <1>11, <1>12, <2>1, <2>2 DEF Steady, Sane, StreamOK, AsksOld, IsStarted, CallOK
  <2>4. Owns(own, r)
    <3>1. batch.w = written + 1 /\ r[Len(q) + 1] = batch
      BY <1>3, <1>5, AppendProperties DEF batch, r, q
    <3>2. \A i \in 1..Len(r) : i \in 1..Len(q) \/ i = Len(q) + 1
      BY <1>9
    <3> HIDE DEF own
    <3>3. own \subseteq Writes /\ Own(u) \subseteq own /\ written + 1 \in own
      BY <1>2, <2>2 DEF Owns, own
    <3> QED
      BY <1>9, <2>2, <3>1, <3>2, <3>3 DEF Owns
  <2> HIDE DEF own
  <2>5. SameAccount(c, d)
    BY <1>9, <2>3, <2>4, AnswerParts, FillSteady
  <2> QED
    BY <2>1, <2>5 DEF SameAccount
<1> HIDE DEF d
<1>15. Tidy(d) /\ Match(d) /\ d \in ClientType
  BY <1>13, <1>14 DEF Filled, Tidy
<1>16. Asked(client, d)
  BY <1>11, <1>13, <1>14, AnswerParts, QuietThenAsked DEF Filled
<1>17. AnswersInv'
  BY <1>6, <1>8, <1>15, <1>16, OperationDone
<1> QED
  BY <1>8, <1>11, <1>14, <1>17, <1>18 DEF Filled, cb, batch

-----------------------------------------------------------------------------
(* Steps that move a token request.                                        *)

\* Only the token requests of the client change.
LEMMA AsksChange ==
  ASSUME AnswersInv, NEW a \in Seq(Request), client' = [client EXCEPT !.asks = a]
  PROVE  /\ client' \in ClientType /\ Tidy(client)' /\ Match(client)' /\ client'.asks = a
         /\ client'.closes = client.closes /\ client'.stream = client.stream
         /\ client'.callbacks = client.callbacks /\ client'.call = client.call
<1> DEFINE d == [client EXCEPT !.asks = a]
<1>1. /\ d \in ClientType /\ d.pipe = client.pipe /\ d.callbacks = client.callbacks
      /\ d.enabled = client.enabled /\ d.shake = client.shake /\ d.stream = client.stream
      /\ d.call = client.call /\ d.asks = a /\ d.closes = client.closes
      /\ d.idle = client.idle /\ d.timer = client.timer /\ d.sound = client.sound
  BY AnswerParts DEF ClientType
<1>2. client' = d
  OBVIOUS
<1> HIDE DEF d
<1>3. Tidy(d) /\ Match(d)
  BY <1>1, AnswerParts DEF Tidy, Core, Greeted, IsStarted, Match, Expected
<1>4. Tidy(client') /\ Match(client')
  BY <1>2, <1>3
<1>5. Tidy(client)' /\ Match(client)'
  BY <1>4 DEF Tidy, Core, Greeted, IsStarted, Match, Carries, Expected, Ws
<1> QED
  BY <1>1, <1>2, <1>5

\* Where nothing moves nothing changes.
LEMMA ClientSame ==
  ASSUME AnswersInv, UNCHANGED client
  PROVE  Tidy(client)' /\ Match(client)'
<1>1. client' = client
  OBVIOUS
<1>2. Tidy(client) /\ Match(client)
  BY DEF AnswersInv
<1>3. Tidy(client)'
  BY <1>1, <1>2 DEF Tidy, Core, Greeted, IsStarted
<1>4. Match(client)'
  BY <1>1, <1>2, Zenon DEF Match, Carries, Expected, Ws
<1> QED
  BY <1>3, <1>4

\* The user changes: a notice, which is no token, goes to the main queue.
LEMMA AuthChangeAnswers ==
  ASSUME AnswersInv, IInv', NEW u \in Users, AuthChange(u)
  PROVE  AnswersInv' /\ UNCHANGED client
<1> DEFINE x == [kind |-> "notice", user |-> u]
           l == Len(mainQueue)
<1>1. /\ mainQueue' = Append(mainQueue, x) /\ UNCHANGED <<client, fetching, workQueue>>
  BY DEF AuthChange
<1>2. /\ l \in Nat /\ Len(mainQueue') = l + 1 /\ mainQueue'[l + 1] = x
      /\ \A i \in 1..l : mainQueue'[i] = mainQueue[i]
  BY <1>1, SMTT(30) DEF AnswersInv, IInv, TypeOK
<1>3. x.kind = "notice"
  OBVIOUS
<1> HIDE DEF x
<1>4. PICK n : n = client.closes
  OBVIOUS
<1>5. \A i \in 1..Len(mainQueue') : mainQueue'[i].kind # "notice" =>
         i \in 1..l /\ mainQueue'[i] = mainQueue[i]
  BY <1>2, <1>3
<1>6. MainAt(n)' = MainAt(n)
  <2>1. \A i : i \in MainAt(n)' => i \in MainAt(n)
    BY <1>5 DEF MainAt
  <2>2. \A i : i \in MainAt(n) => i \in MainAt(n)'
    BY <1>2 DEF MainAt
  <2> QED
    BY <2>1, <2>2
<1>7. AskAt(n)' = AskAt(n) /\ FetchAt(n)' = FetchAt(n) /\ WorkAt(n)' = WorkAt(n)
  BY <1>1 DEF AskAt, FetchAt, WorkAt
<1>8. ClosesOld'
  BY <1>1, <1>5 DEF AnswersInv, TokensInv, ClosesOld
<1>9. OneToken(n)' /\ (NoToken(n)' \/ client'.stream = "Starting")
  BY <1>1, <1>4, <1>6, <1>7 DEF AnswersInv, TokensInv, OneToken, NoToken
<1>10. TokensInv'
  BY <1>1, <1>4, <1>8, <1>9, TokensNext
<1> QED
  BY <1>1, <1>10, ClientSame DEF AnswersInv

\* FIRAuth reads a request: it goes from the client to FIRAuth.
LEMMA AuthReadsAnswers ==
  ASSUME AnswersInv, IInv', AuthReads
  PROVE  /\ AnswersInv' /\ client'.callbacks = client.callbacks /\ client'.call = client.call
         /\ client'.stream = client.stream
<1> DEFINE r == Head(client.asks)
           f == [close |-> r.close, counter |-> r.counter, user |-> authUser]
           l == Len(client.asks)
<1>1. /\ client.asks # <<>> /\ client' = [client EXCEPT !.asks = Tail(client.asks)]
      /\ fetching' = fetching \cup {f} /\ UNCHANGED <<mainQueue, workQueue>>
  BY AnswerParts DEF AuthReads, ClientType
<1>2. client.asks \in Seq(Request)
  BY AnswerParts DEF ClientType
<1>3. /\ Tail(client.asks) \in Seq(Request) /\ l \in Nat /\ l >= 1 /\ r = client.asks[1]
      /\ Len(Tail(client.asks)) = l - 1
      /\ \A i \in 1..(l - 1) : Tail(client.asks)[i] = client.asks[i + 1]
  BY <1>1, <1>2, HeadTailProperties, EmptySeq
<1>4. /\ Tidy(client)' /\ Match(client)' /\ client'.asks = Tail(client.asks)
      /\ client'.closes = client.closes /\ client'.stream = client.stream
      /\ client'.callbacks = client.callbacks /\ client'.call = client.call
  BY <1>1, <1>3, AsksChange
<1>5. f.close = client.asks[1].close
  BY <1>3
<1> HIDE DEF r, f
<1>6. PICK n : n = client.closes
  OBVIOUS
<1>7. OneToken(n) /\ (NoToken(n) \/ client.stream = "Starting")
  BY <1>6 DEF AnswersInv, TokensInv
<1>8. \A i \in 1..Len(client'.asks) : i \in Int /\ i + 1 \in 2..l
                                      /\ client'.asks[i] = client.asks[i + 1]
  BY <1>3, <1>4
<1>9. \A i \in AskAt(n)' : i \in Int /\ i + 1 # 1 /\ i + 1 \in AskAt(n)
  BY <1>3, <1>8 DEF AskAt
<1>10. MainAt(n)' = MainAt(n) /\ WorkAt(n)' = WorkAt(n)
  BY <1>1 DEF MainAt, WorkAt
<1>11. ClosesOld'
  <2>1. f.close <= client.closes
    BY <1>3, <1>5 DEF AnswersInv, TokensInv, ClosesOld
  <2>2. \A i \in 1..Len(client'.asks) : client'.asks[i].close <= client.closes
    BY <1>3, <1>8 DEF AnswersInv, TokensInv, ClosesOld
  <2> QED
    BY <1>1, <1>4, <2>1, <2>2 DEF AnswersInv, TokensInv, ClosesOld
<1>12. CASE client.asks[1].close = n
  <2>1. 1 \in AskAt(n)
    BY <1>3, <1>12 DEF AskAt
  <2>2. AskAt(n)' = {}
    BY <1>7, <1>9, <2>1 DEF OneToken, One
  <2>3. FetchAt(n) = {} /\ MainAt(n) = {} /\ WorkAt(n) = {} /\ client.stream = "Starting"
    BY <1>7, <2>1 DEF OneToken, NoToken
  <2>4. One(FetchAt(n)')
    <3>1. \A x \in FetchAt(n)' : x = f
      BY <1>1, <2>3 DEF FetchAt
    <3> QED
      BY <3>1 DEF One
  <2>5. OneToken(n)'
    BY <1>10, <2>2, <2>3, <2>4 DEF OneToken, One
  <2> QED
    BY <1>4, <1>6, <1>11, <2>3, <2>5, TokensNext DEF AnswersInv
<1>13. CASE client.asks[1].close # n
  <2>1. FetchAt(n)' = FetchAt(n)
    BY <1>1, <1>5, <1>13 DEF FetchAt
  <2>2. One(AskAt(n)') /\ (AskAt(n) = {} => AskAt(n)' = {})
    <3>1. ASSUME NEW x \in AskAt(n)', NEW y \in AskAt(n)' PROVE x = y
      <4>1. x \in Int /\ y \in Int /\ x + 1 = y + 1
        BY <1>7, <1>9 DEF OneToken, One
      <4> QED
        BY <4>1
    <3> QED
      BY <1>9, <3>1 DEF One
  <2>3. OneToken(n)' /\ (NoToken(n)' \/ client'.stream = "Starting")
    BY <1>4, <1>7, <1>10, <2>1, <2>2 DEF OneToken, NoToken
  <2> QED
    BY <1>4, <1>6, <1>11, <2>3, TokensNext DEF AnswersInv
<1> QED
  BY <1>4, <1>12, <1>13

\* A token arrives, or does not: its request goes to the main queue.
LEMMA TokenArrivesAnswers ==
  ASSUME AnswersInv, IInv', NEW kind \in {"token", "noToken"}, TokenArrives(kind)
  PROVE  AnswersInv' /\ UNCHANGED client
<1>1. PICK r \in fetching :
        /\ fetching' = fetching \ {r}
        /\ mainQueue' = Append(mainQueue, [kind |-> kind, user |-> r.user,
                                           close |-> r.close, counter |-> r.counter])
  BY DEF TokenArrives
<1>0. PICK x : x = [kind |-> kind, user |-> r.user, close |-> r.close, counter |-> r.counter]
  OBVIOUS
<1> DEFINE l == Len(mainQueue)
<1>2. UNCHANGED <<client, workQueue>>
  BY DEF TokenArrives
<1>3. /\ l \in Nat /\ Len(mainQueue') = l + 1 /\ mainQueue'[l + 1] = x
      /\ \A i \in 1..l : mainQueue'[i] = mainQueue[i]
  <2>1. mainQueue' = Append(mainQueue, x)
    BY <1>0, <1>1
  <2>2. mainQueue \in Seq([kind : {"notice"}, user : Users]
                          \cup [kind : {"token", "noToken"}, user : Users,
                                close : Nat, counter : Nat])
    BY DEF AnswersInv, IInv, TypeOK
  <2> QED
    BY <2>1, <2>2
<1>4. x.kind # "notice" /\ x.close = r.close
  BY <1>0
<1>5. PICK n : n = client.closes
  OBVIOUS
<1>6. OneToken(n) /\ (NoToken(n) \/ client.stream = "Starting")
  BY <1>5 DEF AnswersInv, TokensInv
<1>7. AskAt(n)' = AskAt(n) /\ WorkAt(n)' = WorkAt(n)
  BY <1>2 DEF AskAt, WorkAt
<1>8. \A i \in 1..Len(mainQueue') :
        (i = l + 1 /\ mainQueue'[i] = x) \/ (i \in 1..l /\ mainQueue'[i] = mainQueue[i])
  BY <1>3
<1>9. ClosesOld'
  BY <1>1, <1>2, <1>4, <1>8 DEF AnswersInv, TokensInv, ClosesOld
<1>10. CASE r.close = n
  <2>1. r \in FetchAt(n)
    BY <1>10 DEF FetchAt
  <2>2. FetchAt(n)' = {}
    BY <1>1, <1>6, <2>1 DEF OneToken, One, FetchAt
  <2>3. MainAt(n) = {} /\ WorkAt(n) = {} /\ AskAt(n) = {} /\ client.stream = "Starting"
    BY <1>6, <2>1 DEF OneToken, NoToken
  <2>4. One(MainAt(n)')
    <3>1. \A i \in MainAt(n)' : i = l + 1
      BY <1>8, <2>3 DEF MainAt
    <3> QED
      BY <3>1 DEF One
  <2>5. OneToken(n)'
    BY <1>7, <2>2, <2>3, <2>4 DEF OneToken, One
  <2> QED
    BY <1>2, <1>5, <1>9, <2>3, <2>5, TokensNext, ClientSame DEF AnswersInv
<1>11. CASE r.close # n
  <2>1. FetchAt(n)' = FetchAt(n)
    BY <1>1, <1>11 DEF FetchAt
  <2>2. MainAt(n)' = MainAt(n)
    <3>1. \A i : i \in MainAt(n)' => i \in MainAt(n)
      BY <1>4, <1>8, <1>11 DEF MainAt
    <3>2. \A i : i \in MainAt(n) => i \in MainAt(n)'
      BY <1>3 DEF MainAt
    <3> QED
      BY <3>1, <3>2
  <2>3. OneToken(n)' /\ (NoToken(n)' \/ client'.stream = "Starting")
    BY <1>2, <1>6, <1>7, <2>1, <2>2 DEF OneToken, NoToken
  <2> QED
    BY <1>2, <1>5, <1>9, <2>3, TokensNext, ClientSame DEF AnswersInv
<1> QED
  BY <1>2, <1>10, <1>11

\* The provider hears of the user: a change, which is no token, goes to the worker queue.
LEMMA NoticeRunsAnswers ==
  ASSUME AnswersInv, IInv', NoticeRuns
  PROVE  AnswersInv' /\ UNCHANGED client
<1>1. PICK x : x = [kind |-> "change", user |-> Head(mainQueue).user]
  OBVIOUS
<1>2. /\ mainQueue # <<>> /\ Head(mainQueue).kind = "notice" /\ mainQueue' = Tail(mainQueue)
      /\ workQueue' = Append(workQueue, x) /\ UNCHANGED <<client, fetching>>
  BY <1>1 DEF NoticeRuns
<1>3. TypeOK
  BY DEF AnswersInv, IInv
<1>4. /\ Len(mainQueue) \in Nat /\ Head(mainQueue) = mainQueue[1]
      /\ \A i \in 1..Len(mainQueue') : /\ i + 1 \in 1..Len(mainQueue)
                                       /\ mainQueue'[i] = mainQueue[i + 1]
  BY <1>2, <1>3, MainTail
<1> DEFINE l == Len(workQueue)
<1>5. /\ l \in Nat /\ Len(workQueue') = l + 1 /\ workQueue'[l + 1] = x
      /\ \A i \in 1..l : workQueue'[i] = workQueue[i]
  BY <1>2, <1>3 DEF TypeOK
<1>6. x.kind = "change"
  BY <1>1
<1>7. \A i \in 1..Len(workQueue') : workQueue'[i].kind # "change" =>
         i \in 1..l /\ workQueue'[i] = workQueue[i]
  BY <1>5, <1>6
<1>8. PICK n : n = client.closes
  OBVIOUS
<1>9. WorkAt(n)' = WorkAt(n)
  <2>1. \A i : i \in WorkAt(n)' => i \in WorkAt(n)
    BY <1>7 DEF WorkAt
  <2>2. \A i : i \in WorkAt(n) => i \in WorkAt(n)'
    BY <1>5 DEF WorkAt
  <2> QED
    BY <2>1, <2>2
<1>10. AskAt(n)' = AskAt(n) /\ FetchAt(n)' = FetchAt(n)
  BY <1>2 DEF AskAt, FetchAt
<1>11. OneToken(n) /\ (NoToken(n) \/ client.stream = "Starting")
  BY <1>8 DEF AnswersInv, TokensInv
<1>12. One(MainAt(n)') /\ (MainAt(n) = {} => MainAt(n)' = {})
  <2>1. \A i \in MainAt(n)' : i \in Int /\ i + 1 \in MainAt(n)
    BY <1>4 DEF MainAt
  <2>2. ASSUME NEW i \in MainAt(n)', NEW j \in MainAt(n)' PROVE i = j
    <3>1. i \in Int /\ j \in Int /\ i + 1 = j + 1
      BY <1>11, <2>1 DEF OneToken, One
    <3> QED
      BY <3>1
  <2> QED
    BY <2>1, <2>2 DEF One
<1>13. ClosesOld'
  BY <1>2, <1>4, <1>7 DEF AnswersInv, TokensInv, ClosesOld
<1>14. OneToken(n)' /\ (NoToken(n)' \/ client'.stream = "Starting")
  BY <1>2, <1>9, <1>10, <1>11, <1>12 DEF OneToken, NoToken
<1> QED
  BY <1>2, <1>8, <1>13, <1>14, TokensNext, ClientSame DEF AnswersInv

\* A token is passed on to the worker queue, or asked for again.
LEMMA TokenCallbackAnswers ==
  ASSUME AnswersInv, IInv', TokenCallback
  PROVE  /\ AnswersInv' /\ client'.callbacks = client.callbacks /\ client'.call = client.call
         /\ client'.stream = client.stream
<1>1. PICK t : t = Head(mainQueue)
  OBVIOUS
<1>2. PICK x : x = [kind |-> t.kind, user |-> t.user, close |-> t.close]
  OBVIOUS
<1>3. PICK r : r = [close |-> t.close, counter |-> provider.counter]
  OBVIOUS
<1>4. /\ mainQueue # <<>> /\ t.kind # "notice" /\ mainQueue' = Tail(mainQueue)
      /\ UNCHANGED fetching
      /\ \/ client' = [client EXCEPT !.asks = Append(@, r)] /\ UNCHANGED workQueue
         \/ workQueue' = Append(workQueue, x) /\ UNCHANGED client
  BY <1>1, <1>2, <1>3 DEF TokenCallback
<1>5. TypeOK /\ IInv
  BY DEF AnswersInv, IInv
<1>6. /\ Len(mainQueue) \in Nat /\ t = mainQueue[1] /\ 1 \in 1..Len(mainQueue)
      /\ \A i \in 1..Len(mainQueue') : /\ i + 1 \in 1..Len(mainQueue)
                                       /\ mainQueue'[i] = mainQueue[i + 1]
  BY <1>1, <1>4, <1>5, MainTail
<1>7. PICK n : n = client.closes
  OBVIOUS
<1>8. OneToken(n) /\ (NoToken(n) \/ client.stream = "Starting")
  BY <1>7 DEF AnswersInv, TokensInv
<1>9. \A i \in MainAt(n)' : i \in Int /\ i + 1 # 1 /\ i + 1 \in MainAt(n)
  BY <1>6 DEF MainAt
<1>10. FetchAt(n)' = FetchAt(n)
  BY <1>4 DEF FetchAt
<1>11. \A i \in 1..Len(mainQueue') :
         mainQueue'[i].kind # "notice" => mainQueue'[i].close <= client.closes
  BY <1>6 DEF AnswersInv, TokensInv, ClosesOld
<1>12. t.close <= client.closes /\ t.close \in Nat
  BY <1>4, <1>5, <1>6, CloseTypes DEF AnswersInv, TokensInv, ClosesOld
<1>13. t.close # n => One(MainAt(n)') /\ (MainAt(n) = {} => MainAt(n)' = {})
  <2>1. ASSUME NEW i \in MainAt(n)', NEW j \in MainAt(n)' PROVE i = j
    <3>1. i \in Int /\ j \in Int /\ i + 1 = j + 1
      BY <1>8, <1>9 DEF OneToken, One
    <3> QED
      BY <3>1
  <2> QED
    BY <1>9, <2>1 DEF One
<1>14. t.close = n => /\ MainAt(n)' = {} /\ AskAt(n) = {} /\ FetchAt(n) = {} /\ WorkAt(n) = {}
                      /\ client.stream = "Starting"
  <2> SUFFICES ASSUME t.close = n
               PROVE  /\ MainAt(n)' = {} /\ AskAt(n) = {} /\ FetchAt(n) = {} /\ WorkAt(n) = {}
                      /\ client.stream = "Starting"
    OBVIOUS
  <2>1. 1 \in MainAt(n)
    BY <1>4, <1>6 DEF MainAt
  <2>2. MainAt(n)' = {}
    BY <1>8, <1>9, <2>1 DEF OneToken, One
  <2> QED
    BY <1>8, <2>1, <2>2 DEF OneToken, NoToken
<1>15. CASE client' = [client EXCEPT !.asks = Append(@, r)] /\ UNCHANGED workQueue
  <2> DEFINE a == Append(client.asks, r)
             l == Len(client.asks)
  <2>1. client.asks \in Seq(Request) /\ r \in Request
    BY <1>3, <1>5, <1>12, Parts DEF Request, ClientType
  <2>2. /\ a \in Seq(Request) /\ l \in Nat /\ Len(a) = l + 1 /\ a[l + 1] = r
        /\ \A i \in 1..l : a[i] = client.asks[i]
    BY <2>1, AppendProperties
  <2>3. client' = [client EXCEPT !.asks = a]
    BY <1>5, <1>15, Parts DEF ClientType
  <2> HIDE DEF a
  <2>4. /\ Tidy(client)' /\ Match(client)' /\ client'.asks = a
        /\ client'.closes = client.closes /\ client'.stream = client.stream
        /\ client'.callbacks = client.callbacks /\ client'.call = client.call
    BY <2>2, <2>3, AsksChange
  <2>5. r.close = t.close
    BY <1>3
  <2>6. \A i \in 1..Len(client'.asks) :
          (i = l + 1 /\ client'.asks[i] = r) \/ (i \in 1..l /\ client'.asks[i] = client.asks[i])
    BY <2>2, <2>4
  <2>7. WorkAt(n)' = WorkAt(n)
    BY <1>15 DEF WorkAt
  <2>8. ClosesOld'
    BY <1>4, <1>11, <1>12, <1>15, <2>4, <2>5, <2>6 DEF AnswersInv, TokensInv, ClosesOld
  <2>9. CASE t.close = n
    <3>1. \A i \in AskAt(n)' : i = l + 1
      BY <1>14, <2>6, <2>9 DEF AskAt
    <3>2. OneToken(n)'
      BY <1>10, <1>14, <2>7, <2>9, <3>1 DEF OneToken, One
    <3> QED
      BY <1>7, <1>14, <2>4, <2>8, <2>9, <3>2, TokensNext DEF AnswersInv
  <2>10. CASE t.close # n
    <3>1. AskAt(n)' = AskAt(n)
      <4>1. \A i : i \in AskAt(n)' => i \in AskAt(n)
        BY <2>5, <2>6, <2>10 DEF AskAt
      <4>2. \A i : i \in AskAt(n) => i \in AskAt(n)'
        BY <2>2, <2>4 DEF AskAt
      <4> QED
        BY <4>1, <4>2
    <3>2. OneToken(n)' /\ (NoToken(n)' \/ client'.stream = "Starting")
      BY <1>8, <1>10, <1>13, <2>4, <2>7, <2>10, <3>1 DEF OneToken, NoToken
    <3> QED
      BY <1>7, <2>4, <2>8, <3>2, TokensNext DEF AnswersInv
  <2> QED
    BY <2>4, <2>9, <2>10
<1>16. CASE workQueue' = Append(workQueue, x) /\ UNCHANGED client
  <2> DEFINE l == Len(workQueue)
  <2>1. /\ l \in Nat /\ Len(workQueue') = l + 1 /\ workQueue'[l + 1] = x
        /\ \A i \in 1..l : workQueue'[i] = workQueue[i]
    <3>1. workQueue \in Seq([kind : {"change"}, user : Users]
                            \cup [kind : {"token", "noToken"}, user : Users, close : Nat])
      BY <1>5 DEF TypeOK
    <3> QED
      BY <1>16, <3>1
  <2>2. x.close = t.close
    BY <1>2
  <2>3. \A i \in 1..Len(workQueue') :
          (i = l + 1 /\ workQueue'[i] = x) \/ (i \in 1..l /\ workQueue'[i] = workQueue[i])
    BY <2>1
  <2>4. AskAt(n)' = AskAt(n)
    BY <1>16 DEF AskAt
  <2>5. ClosesOld'
    BY <1>4, <1>11, <1>12, <1>16, <2>2, <2>3 DEF AnswersInv, TokensInv, ClosesOld
  <2>6. CASE t.close = n
    <3>1. \A i \in WorkAt(n)' : i = l + 1
      BY <1>14, <2>3, <2>6 DEF WorkAt
    <3>2. OneToken(n)'
      BY <1>10, <1>14, <2>4, <2>6, <3>1 DEF OneToken, One
    <3> QED
      BY <1>7, <1>14, <1>16, <2>5, <2>6, <3>2, TokensNext, ClientSame DEF AnswersInv
  <2>7. CASE t.close # n
    <3>1. WorkAt(n)' = WorkAt(n)
      <4>1. \A i : i \in WorkAt(n)' => i \in WorkAt(n)
        BY <2>2, <2>3, <2>7 DEF WorkAt
      <4>2. \A i : i \in WorkAt(n) => i \in WorkAt(n)'
        BY <2>1 DEF WorkAt
      <4> QED
        BY <4>1, <4>2
    <3>2. OneToken(n)' /\ (NoToken(n)' \/ client'.stream = "Starting")
      BY <1>8, <1>10, <1>13, <1>16, <2>4, <2>7, <3>1 DEF OneToken, NoToken
    <3> QED
      BY <1>7, <1>16, <2>5, <3>2, TokensNext, ClientSame DEF AnswersInv
  <2> QED
    BY <1>16, <2>6, <2>7
<1> QED
  BY <1>4, <1>15, <1>16

\* An operation that took its turn on the worker queue.
LEMMA TurnDone ==
  ASSUME AnswersInv, IInv', client' \in ClientType, Tidy(client'), Match(client'),
         Asked(client, client'), workQueue # <<>>, workQueue' = Tail(workQueue),
         UNCHANGED <<fetching, mainQueue>>
  PROVE  AnswersInv'
<1>1. PICK k \in {0, 1} : k = 1
  OBVIOUS
<1>2. \A i \in 1..Len(workQueue') : i + k \in 1..Len(workQueue) /\ workQueue'[i] = workQueue[i + k]
  BY <1>1, WorkTail DEF AnswersInv, IInv
<1>3. TokensInv'
  BY <1>2, AskedTokens DEF AnswersInv
<1>4. Tidy(client)' /\ Match(client)'
  BY DEF Tidy, Core, Greeted, IsStarted, Match, Carries, Expected, Ws
<1> QED
  BY <1>3, <1>4 DEF AnswersInv

\* The streams start again for the account that was told of.
LEMMA HandleCredentialChangeAnswers ==
  ASSUME AnswersInv, IInv', HandleCredentialChange
  PROVE  AnswersInv' /\ client'.callbacks = client.callbacks /\ client'.call = NoStream
<1> DEFINE u == Head(workQueue).user
           next == IF u = client.user THEN client.next ELSE LoadNextBatchId
           c == [client EXCEPT !.user = u, !.next = next]
<1>1. /\ workQueue # <<>> /\ workQueue' = Tail(workQueue) /\ UNCHANGED <<fetching, mainQueue>>
      /\ client' = RestartNetwork(IF u = client.user THEN client
                                  ELSE [client EXCEPT !.user = u, !.next = LoadNextBatchId],
                                  queue[u])
  BY DEF HandleCredentialChange, auth
<1>2. u \in Users
  <2>1. workQueue \in Seq([kind : {"change"}, user : Users]
                          \cup [kind : {"token", "noToken"}, user : Users, close : Nat])
    BY DEF AnswersInv, IInv, TypeOK
  <2>2. 1 \in 1..Len(workQueue) /\ Head(workQueue) = workQueue[1]
    BY <1>1, <2>1
  <2> QED
    BY <2>2, QueuedTypes DEF AnswersInv, IInv
<1>3. client.next \in Nat /\ client.closes \in Nat /\ LoadNextBatchId \in Nat
  BY AnswerParts, NextIdIsFresh DEF ClientType, IInv
<1>4. client' = RestartNetwork(c, queue[u])
  <2>1. u = client.user => c = client
    BY AnswerParts DEF ClientType
  <2> QED
    BY <1>1, <2>1
<1>5. queue[u] \in Seq(Batch) /\ Sorted(queue[u])
  BY <1>2 DEF AnswersInv, IInv, TypeOK, QueuesInv
<1> HIDE DEF u
<1>6. next \in Nat
  BY <1>3
<1> HIDE DEF next
<1>7. /\ c \in ClientType /\ c.pipe = client.pipe /\ c.callbacks = client.callbacks
      /\ c.enabled = client.enabled /\ c.shake = client.shake /\ c.stream = client.stream
      /\ c.call = client.call /\ c.asks = client.asks /\ c.closes = client.closes
      /\ c.idle = client.idle /\ c.timer = client.timer /\ c.sound = client.sound
  BY <1>2, <1>6, AnswerParts DEF ClientType
<1> HIDE DEF c
<1>8. Tidy(c) /\ Quiet(client, c)
  BY <1>3, <1>7, AnswerParts DEF Tidy, Core, Greeted, IsStarted, Quiet
<1>9. Done(c, client')
  BY <1>4, <1>5, <1>7, <1>8, AnswerParts, RestartCore
<1>10. Asked(client, client')
  BY <1>7, <1>8, <1>9, AnswerParts, QuietThenAsked DEF Done
<1> QED
  BY <1>1, <1>7, <1>9, <1>10, TurnDone DEF Done

\* A token that is still wanted finds the stream waiting for it, and is the only one.
LEMMA CredentialsArriveAnswers ==
  ASSUME AnswersInv, IInv', CredentialsArrive
  PROVE  /\ AnswersInv' /\ client'.callbacks = client.callbacks
         /\ \/ UNCHANGED client
            \/ client'.call # NoStream => client'.call.answers = <<>>
<1>1. PICK t : t = Head(workQueue)
  OBVIOUS
<1>2. /\ workQueue # <<>> /\ t.kind # "change" /\ workQueue' = Tail(workQueue)
      /\ UNCHANGED <<fetching, mainQueue>>
      /\ client' = IF t.close = client.closes THEN Resume(client, t) ELSE client
  BY <1>1 DEF CredentialsArrive, auth
<1>3. TypeOK /\ client.closes \in Nat
  BY AnswerParts DEF IInv, ClientType
<1>4. /\ t = workQueue[1] /\ 1 \in 1..Len(workQueue) /\ t.user \in Users
      /\ \A i \in 1..Len(workQueue') : /\ i \in Int /\ i + 1 # 1 /\ i + 1 \in 1..Len(workQueue)
                                       /\ workQueue'[i] = workQueue[i + 1]
  <2>1. /\ t = workQueue[1] /\ 1 \in 1..Len(workQueue)
        /\ \A i \in 1..Len(workQueue') : /\ i + 1 \in 1..Len(workQueue)
                                         /\ workQueue'[i] = workQueue[i + 1]
    BY <1>1, <1>2, <1>3, WorkTail
  <2> QED
    BY <1>3, <2>1, QueuedTypes
<1>5. CASE t.close # client.closes
  <2>1. UNCHANGED client
    BY <1>2, <1>5
  <2>2. client' \in ClientType /\ Tidy(client') /\ Match(client') /\ Asked(client, client')
    BY <1>3, <2>1, AnswerParts DEF Asked, Quiet
  <2> QED
    BY <1>2, <2>1, <2>2, TurnDone
<1>6. CASE t.close = client.closes
  <2>1. PICK n : n = client.closes
    OBVIOUS
  <2>2. OneToken(n) /\ (NoToken(n) \/ client.stream = "Starting")
    BY <2>1 DEF AnswersInv, TokensInv
  <2>3. 1 \in WorkAt(n)
    BY <1>2, <1>4, <1>6, <2>1 DEF WorkAt
  <2>4. /\ client.stream = "Starting" /\ AskAt(n) = {} /\ FetchAt(n) = {} /\ MainAt(n) = {}
        /\ \A i \in WorkAt(n) : i = 1
    BY <2>2, <2>3 DEF OneToken, NoToken, One
  <2>5. client' = Resume(client, t)
    BY <1>2, <1>6
  <2>6. /\ client' \in ClientType /\ Tidy(client') /\ Match(client')
        /\ client'.callbacks = client.callbacks
        /\ client'.call # NoStream => client'.call.answers = <<>>
        /\ \/ Asked(client, client')
           \/ client'.asks = client.asks /\ client'.closes = client.closes
    BY <1>4, <2>4, <2>5, AnswerParts, ResumeCore
  <2>7. CASE Asked(client, client')
    BY <1>2, <2>6, <2>7, TurnDone
  <2>8. CASE client'.asks = client.asks /\ client'.closes = client.closes
    <3>1. WorkAt(n)' = {}
      BY <1>4, <2>4 DEF WorkAt
    <3>2. AskAt(n)' = {} /\ FetchAt(n)' = {} /\ MainAt(n)' = {}
      BY <1>2, <2>4, <2>8 DEF AskAt, FetchAt, MainAt
    <3>3. OneToken(n)' /\ NoToken(n)'
      BY <3>1, <3>2 DEF OneToken, NoToken, One
    <3>4. ClosesOld'
      BY <1>2, <1>4, <2>8 DEF AnswersInv, TokensInv, ClosesOld
    <3>5. TokensInv'
      BY <2>1, <2>8, <3>3, <3>4, TokensNext
    <3>6. Tidy(client)' /\ Match(client)'
      BY <2>6 DEF Tidy, Core, Greeted, IsStarted, Match, Carries, Expected, Ws
    <3> QED
      BY <2>6, <3>5, <3>6 DEF AnswersInv
  <2> QED
    BY <2>6, <2>7, <2>8
<1> QED
  BY <1>5, <1>6

-----------------------------------------------------------------------------
(* Launches.                                                               *)

\* Nothing but the launch's own request is under way.
LEMMA LaunchTokens ==
  ASSUME Launched(client), fetching = {}, mainQueue = <<>>, workQueue = <<>>
  PROVE  TokensInv
<1>1. PICK n : n = client.closes
  OBVIOUS
<1>2. FetchAt(n) = {} /\ MainAt(n) = {} /\ WorkAt(n) = {} /\ n \in Nat
  BY <1>1 DEF FetchAt, MainAt, WorkAt, ClientType, Launched
<1>3. \A i \in 1..Len(client.asks) : i = 1 /\ client.asks[i].close = n
  <2>1. CASE client.asks = <<>>
    BY <2>1
  <2>2. CASE Len(client.asks) = 1 /\ client.asks[1].close = n
    BY <2>2
  <2> QED
    BY <1>1, <2>1, <2>2 DEF Launched
<1>4. client.asks = <<>> \/ client.stream = "Starting"
  BY DEF Launched
<1>5. One(AskAt(n)) /\ ClosesOld
  BY <1>1, <1>2, <1>3 DEF AskAt, One, ClosesOld
<1>6. OneToken(n) /\ (NoToken(n) \/ client.stream = "Starting")
  BY <1>2, <1>3, <1>4, <1>5 DEF OneToken, NoToken, One, AskAt
<1> QED
  BY <1>1, <1>5, <1>6 DEF TokensInv

LEMMA LaunchTokensNext ==
  ASSUME Launched(client'), fetching' = {}, mainQueue' = <<>>, workQueue' = <<>>
  PROVE  TokensInv'
<1>1. PICK n : n = client'.closes
  OBVIOUS
<1>2. FetchAt(n)' = {} /\ MainAt(n)' = {} /\ WorkAt(n)' = {} /\ n \in Nat
  BY <1>1 DEF FetchAt, MainAt, WorkAt, ClientType, Launched
<1>3. \A i \in 1..Len(client'.asks) : i = 1 /\ client'.asks[i].close = n
  <2>1. CASE client'.asks = <<>>
    BY <2>1
  <2>2. CASE Len(client'.asks) = 1 /\ client'.asks[1].close = n
    BY <2>2
  <2> QED
    BY <1>1, <2>1, <2>2 DEF Launched
<1>4. client'.asks = <<>> \/ client'.stream = "Starting"
  BY DEF Launched
<1>5. One(AskAt(n)') /\ ClosesOld'
  BY <1>1, <1>2, <1>3 DEF AskAt, One, ClosesOld
<1>6. OneToken(n)' /\ (NoToken(n)' \/ client'.stream = "Starting")
  BY <1>2, <1>3, <1>4, <1>5 DEF OneToken, NoToken, One, AskAt
<1> QED
  BY <1>1, <1>5, <1>6, TokensNext

LEMMA RelaunchAnswers ==
  ASSUME AnswersInv, IInv', Relaunch
  PROVE  AnswersInv' /\ Launched(client')
<1>1. PICK u, next, q, d : /\ u = authUser /\ next = LoadNextBatchId
                           /\ q = queue[authUser] /\ d = client'
  OBVIOUS
<1>2. /\ d = EnableNetwork(Fresh(u, next), q)
      /\ fetching' = {} /\ mainQueue' = <<>> /\ workQueue' = <<>>
  BY <1>1 DEF Relaunch
<1>3. u \in Users /\ next \in Nat /\ q \in Seq(Batch) /\ Sorted(q) /\ provider.counter \in Nat
  BY <1>1, NextIdIsFresh, Parts DEF AnswersInv, IInv, TypeOK, QueuesInv
<1>4. Launched(d)
  BY <1>2, <1>3, LaunchCore
<1>5. Launched(client')
  BY <1>1, <1>4
<1>6. TokensInv'
  BY <1>2, <1>5, LaunchTokensNext
<1>7. Tidy(client)' /\ Match(client)'
  BY <1>5 DEF Launched, Tidy, Core, Greeted, IsStarted, Match, Carries, Expected, Ws
<1> QED
  BY <1>5, <1>6, <1>7 DEF AnswersInv

LEMMA InitAnswers ==
  ASSUME Init
  PROVE  AnswersInv /\ Launched(client)
<1>1. IInv
  BY InitKeeps
<1>2. PICK u, next, q, d : u = authUser /\ next = 1 /\ q = <<>> /\ d = client
  OBVIOUS
<1>3. u \in Users /\ next \in Nat /\ q \in Seq(Batch) /\ Sorted(q) /\ provider.counter \in Nat
  BY <1>2 DEF Init, Sorted
<1>4. d = EnableNetwork(Fresh(u, next), q)
  BY <1>2 DEF Init
<1>5. Launched(d)
  BY <1>3, <1>4, LaunchCore
<1>6. Launched(client)
  BY <1>2, <1>5
<1>7. TokensInv
  BY <1>6, LaunchTokens DEF Init
<1> QED
  BY <1>1, <1>6, <1>7 DEF AnswersInv, Launched

-----------------------------------------------------------------------------
(* Every step.                                                             *)

LEMMA AnswersNext ==
  ASSUME AnswersInv, [Next]_vars
  PROVE  AnswersInv'
<1>1. IInv'
  BY NextKeeps DEF AnswersInv
<1>2. CASE UNCHANGED vars
  <2>1. client' \in ClientType /\ Tidy(client') /\ Match(client') /\ Asked(client, client')
    <3>1. client' = client /\ client.closes \in Nat
      BY <1>2, AnswerParts DEF vars, ClientType
    <3> QED
      BY <3>1, AnswerParts DEF Asked, Quiet
  <2> QED
    BY <1>1, <1>2, <2>1, OperationDone DEF vars, auth
<1>3. CASE Write
  BY <1>1, <1>3, WriteAnswers
<1>4. CASE ServerStep
  <2>1. PICK kind \in {"hello", "committed", "refused"}, w \in {Hello} \cup Writes :
          ServerReads(kind, w)
    BY <1>4 DEF ServerStep, ServerGreets, ServerCommits, ServerRefuses
  <2> QED
    BY <1>1, <2>1, ServerReadsAnswers
<1>5. CASE ClientStep
  BY <1>1, <1>5, HandshakeAnswers, MutationResultAnswers, WriteErrorAnswers, TimersAnswers
  DEF ClientStep
<1>6. CASE TokenFetched \/ TokenFails
  BY <1>1, <1>6, TokenArrivesAnswers DEF TokenFetched, TokenFails
<1>7. CASE TokenStep
  BY <1>1, <1>6, <1>7, AuthReadsAnswers, NoticeRunsAnswers, TokenCallbackAnswers,
     HandleCredentialChangeAnswers, CredentialsArriveAnswers DEF TokenStep
<1>8. CASE StreamBreaks \/ ConnectivityChanged
  BY <1>1, <1>8, TimersAnswers
<1>9. ASSUME NEW u \in Users, AuthChange(u) PROVE AnswersInv'
  BY <1>1, <1>9, AuthChangeAnswers
<1>10. CASE Relaunch
  BY <1>1, <1>10, RelaunchAnswers
<1> QED
  BY <1>2, <1>3, <1>4, <1>5, <1>6, <1>7, <1>8, <1>9, <1>10 DEF Next

\* The strengthened invariant holds in every state.
THEOREM AnswersInvariant == Spec => []AnswersInv
<1>1. Init => AnswersInv
  BY InitAnswers
<1>2. AnswersInv /\ [Next]_vars => AnswersInv'
  BY AnswersNext
<1> QED
  BY <1>1, <1>2, PTL DEF Spec

\* For every number of accounts, writes, troubles and pipeline places: no HARD_ASSERT of
\* the write stream, the pipeline or the mutation queue fails (Stream, WriteStream,
\* RemoteStore, LevelDbMutationQueue).
THEOREM NoAssertionFails == Spec => []AssertionsHold
<1>1. AnswersInv => AssertionsHold
  BY DEF AnswersInv, Tidy, Core, AssertionsHold
<1> QED
  BY <1>1, AnswersInvariant, PTL

\* For every value of the constants: what was answered and what is still to be read is
\* the pipeline, so that OnWriteStreamMutationResult gives each nameless answer to the
\* write it is about, and no write is sent before the handshake.
THEOREM AnswersAreForTheFront == Spec => []AnswersMatchPipeline
<1>1. AnswersInv => AnswersMatchPipeline
  <2> SUFFICES ASSUME AnswersInv, client.call # NoStream
               PROVE  Ws(client.call.answers) \o client.call.requests = Expected(client)
    BY DEF AnswersMatchPipeline, Expected
  <2>1. /\ client.call.answers \in Seq(Answer) /\ Expected(client) \in Seq({Hello} \cup Writes)
        /\ client.call.requests \in Seq({Hello} \cup Writes)
        /\ Carries(client.call, Expected(client))
    BY AnswerParts, ExpectedType DEF ClientType, Call, Match
  <2>2. PICK an, rq, e : /\ an = client.call.answers /\ rq = client.call.requests
                         /\ e = Expected(client)
    OBVIOUS
  <2>3. /\ an \in Seq(Answer) /\ rq \in Seq({Hello} \cup Writes)
        /\ e \in Seq({Hello} \cup Writes)
        /\ Len(an) + Len(rq) = Len(e)
        /\ \A i \in 1..Len(an) : an[i].w = e[i]
        /\ \A i \in 1..Len(rq) : rq[i] = e[Len(an) + i]
    BY <2>1, <2>2 DEF Carries
  <2>4. Ws(an) = [i \in 1..Len(an) |-> an[i].w] /\ \A i \in 1..Len(an) : an[i] \in Answer
    <3>1. DOMAIN an = 1..Len(an)
      BY <2>3
    <3> QED
      BY <2>3, <3>1, ElementOfSeq DEF Ws
  <2>5. /\ Ws(an) \in Seq({Hello} \cup Writes) /\ Len(Ws(an)) = Len(an)
        /\ \A i \in 1..Len(an) : Ws(an)[i] = an[i].w
    BY <2>3, <2>4 DEF Answer
  <2> DEFINE s == Ws(an)
             x == s \o rq
  <2> HIDE DEF s
  <2>6. /\ x \in Seq({Hello} \cup Writes) /\ Len(x) = Len(e) /\ Len(s) = Len(an)
        /\ \A i \in 1..Len(x) : x[i] = IF i <= Len(s) THEN s[i] ELSE rq[i - Len(s)]
    BY <2>3, <2>5, ConcatProperties DEF s
  <2> HIDE DEF x
  <2>7. ASSUME NEW i \in 1..Len(x) PROVE x[i] = e[i]
    <3>1. Len(an) \in Nat /\ Len(rq) \in Nat /\ Len(e) \in Nat
      BY <2>3
    <3>2. CASE i <= Len(an)
      <4>1. i \in 1..Len(an)
        BY <3>1, <3>2
      <4> QED
        BY <2>3, <2>5, <2>6, <4>1, <3>2 DEF s
    <3>3. CASE ~(i <= Len(an))
      <4>1. PICK k \in 1..Len(rq) : k = i - Len(an)
        BY <2>3, <2>6, <3>1, <3>3
      <4>2. Len(an) + k = i
        BY <3>1, <4>1
      <4> QED
        BY <2>3, <2>6, <3>3, <4>1, <4>2
    <3> QED
      BY <3>2, <3>3
  <2>8. x = e
    BY <2>3, <2>6, <2>7, SeqEqual
  <2> QED
    BY <2>2, <2>8 DEF x, s
<1> QED
  BY <1>1, AnswersInvariant, PTL

-----------------------------------------------------------------------------
(* What completions hear, and that no write is lost.                       *)

Settled == committed \cup refused

\* An answer the client has not read says what the server did.
TrueAnswer(a) == /\ a.kind = "hello" => a.w = Hello
                 /\ a.kind = "committed" => a.w \in committed
                 /\ a.kind = "refused" => a.w \in refused

TrueAnswers == client.call # NoStream =>
                 \A i \in 1..Len(client.call.answers) : TrueAnswer(client.call.answers[i])

InOrder(q) == \A i, j \in 1..Len(q) : i < j => q[i].w < q[j].w

\* What was filed, and what has become of it.
Filed == /\ \A w \in Writes : author[w] # NoStream <=> w <= written
         /\ Settled \subseteq 1..written
         /\ \A w \in 1..written : w \in Settled \/
              \E i \in 1..Len(queue[author[w]]) : queue[author[w]][i].w = w
         /\ \A w \in Settled : \A v \in 1..w : author[v] = author[w] => v \in Settled

\* A completion that has not run is that of a queued batch.
Waiting == \A u \in Users : \A b \in client.callbacks[u] :
             \E i \in 1..Len(queue[u]) : queue[u][i] = b

Ordered == \A u \in Users : InOrder(queue[u])

TruthInv == AnswersInv /\ TrueAnswers /\ Ordered /\ Filed /\ Waiting /\ CompletionsTellTruth

\* Steps that settle nothing and lose no completion of a queued batch.
LEMMA QuietTruth ==
  ASSUME TruthInv, AnswersInv', UNCHANGED <<queue, committed, refused, author, told, written>>,
         \A u \in Users : client'.callbacks[u] \subseteq client.callbacks[u],
         client'.call # NoStream =>
           \A i \in 1..Len(client'.call.answers) :
             /\ client.call # NoStream
             /\ \E j \in 1..Len(client.call.answers) :
                  client'.call.answers[i] = client.call.answers[j]
  PROVE  TruthInv'
<1>1. TrueAnswers'
  BY DEF TruthInv, TrueAnswers, TrueAnswer
<1>2. Ordered'
  BY DEF TruthInv, Ordered, InOrder
<1>3. Filed'
  BY DEF TruthInv, Filed, Settled
<1>4. Waiting'
  BY DEF TruthInv, Waiting
<1>5. CompletionsTellTruth'
  BY DEF TruthInv, CompletionsTellTruth, Overtaken
<1> QED
  BY <1>1, <1>2, <1>3, <1>4, <1>5 DEF TruthInv

\* The rest of a sequence of answers.
LEMMA RestOfAnswers ==
  ASSUME NEW s \in Seq(Answer), s # <<>>
  PROVE  \A i \in 1..Len(Tail(s)) : i + 1 \in 1..Len(s) /\ Tail(s)[i] = s[i + 1]
BY HeadTailProperties, EmptySeq

\* Steps of the client alone, other than those that resolve a write.
LEMMA ClientTruth ==
  ASSUME TruthInv, AnswersInv',
         \/ HandshakeComplete
         \/ BackoffElapsed \/ IdleTimeout \/ StreamBreaks \/ ConnectivityChanged
  PROVE  TruthInv'
<1>1. UNCHANGED <<queue, committed, refused, author, told, written>>
  BY DEF HandshakeComplete, BackoffElapsed, IdleTimeout, StreamBreaks, ConnectivityChanged,
         server, history, bounds
<1>2. AnswersInv /\ IInv'
  BY DEF TruthInv, AnswersInv
<1>3. CASE HandshakeComplete
  <2>1. /\ client'.callbacks = client.callbacks /\ client.call # NoStream
        /\ client'.call.answers = Tail(client.call.answers) /\ client.call.answers # <<>>
    BY <1>2, <1>3, HandshakeAnswers DEF HandshakeComplete, Answered
  <2>2. client.call.answers \in Seq(Answer)
    BY <1>2, <2>1, AnswerParts DEF ClientType, Call
  <2>3. \A i \in 1..Len(client'.call.answers) :
          \E j \in 1..Len(client.call.answers) :
            client'.call.answers[i] = client.call.answers[j]
    BY <2>1, <2>2, RestOfAnswers
  <2> QED
    BY <1>1, <2>1, <2>3, QuietTruth
<1>4. CASE BackoffElapsed \/ IdleTimeout \/ StreamBreaks \/ ConnectivityChanged
  <2>1. client'.callbacks = client.callbacks /\ client'.call = NoStream
    BY <1>2, <1>4, TimersAnswers
  <2> QED
    BY <1>1, <2>1, QuietTruth
<1> QED
  BY <1>3, <1>4

\* Steps that move tokens.
LEMMA TokensTruth ==
  ASSUME TruthInv, AnswersInv',
         \/ AuthReads \/ TokenFetched \/ TokenFails \/ NoticeRuns \/ TokenCallback
         \/ HandleCredentialChange \/ CredentialsArrive
         \/ \E u \in Users : AuthChange(u)
  PROVE  TruthInv'
<1>1. UNCHANGED <<queue, committed, refused, author, told, written>>
  BY DEF AuthReads, TokenFetched, TokenFails, TokenArrives, NoticeRuns, TokenCallback,
         HandleCredentialChange, CredentialsArrive, AuthChange, server, history, bounds
<1>2. AnswersInv /\ IInv'
  BY DEF TruthInv, AnswersInv
<1>3. /\ client'.callbacks = client.callbacks
      /\ \/ client'.call = client.call
         \/ client'.call # NoStream => client'.call.answers = <<>>
  <2>1. CASE AuthReads \/ TokenCallback
    BY <1>2, <2>1, AuthReadsAnswers, TokenCallbackAnswers
  <2>2. CASE TokenFetched \/ TokenFails \/ NoticeRuns \/ \E u \in Users : AuthChange(u)
    <3>1. UNCHANGED client
      BY <2>2 DEF TokenFetched, TokenFails, TokenArrives, NoticeRuns, AuthChange
    <3> QED
      BY <3>1
  <2>3. CASE HandleCredentialChange
    BY <1>2, <2>3, HandleCredentialChangeAnswers
  <2>4. CASE CredentialsArrive
    BY <1>2, <2>4, CredentialsArriveAnswers
  <2> QED
    BY <2>1, <2>2, <2>3, <2>4
<1>4. client'.call # NoStream =>
        \A i \in 1..Len(client'.call.answers) :
          /\ client.call # NoStream
          /\ \E j \in 1..Len(client.call.answers) :
               client'.call.answers[i] = client.call.answers[j]
  BY <1>3
<1> QED
  BY <1>1, <1>3, <1>4, QuietTruth

\* A launch forgets every completion.
LEMMA RelaunchTruth ==
  ASSUME TruthInv, AnswersInv', Relaunch
  PROVE  TruthInv'
<1>1. UNCHANGED <<queue, committed, refused, author, told, written>>
  BY DEF Relaunch, server, history
<1>2. Launched(client')
  BY RelaunchAnswers DEF TruthInv, AnswersInv
<1>3. client'.call = NoStream /\ \A u \in Users : client'.callbacks[u] = {}
  BY <1>2 DEF Launched
<1> QED
  BY <1>1, <1>3, QuietTruth

\* An account's queue holds writes that were made, and each of them has an author.
LEMMA QueuesInvOwns ==
  ASSUME AnswersInv, NEW u \in Users
  PROVE  \A i \in 1..Len(queue[u]) : queue[u][i].w \in 1..written /\ author[queue[u][i].w] = u
BY DEF AnswersInv, IInv, QueuesInv, Owns, Own

\* The server settles the write behind those it has answered: the earlier writes of
\* the account are settled already.
LEMMA ServerTruth ==
  ASSUME TruthInv, AnswersInv', ServerStep
  PROVE  TruthInv'
<1>1. PICK kind \in {"hello", "committed", "refused"}, w \in {Hello} \cup Writes :
        /\ ServerReads(kind, w)
        /\ kind = "hello" => w = Hello /\ UNCHANGED <<committed, refused>>
        /\ kind = "committed" => w \in Writes /\ committed' = committed \cup {w}
                                 /\ UNCHANGED refused
        /\ kind = "refused" => w \in Writes /\ refused' = refused \cup {w}
                               /\ UNCHANGED committed
  BY DEF ServerStep, ServerGreets, ServerCommits, ServerRefuses, server
<1>2. UNCHANGED <<queue, author, told, written>>
  BY <1>1 DEF ServerReads, history, bounds
<1>3. AnswersInv /\ IInv /\ IInv' /\ written \in Nat /\ client.user \in Users
  BY Parts DEF TruthInv, AnswersInv
<1> DEFINE an == client.call.answers
           a == [kind |-> kind, w |-> w]
           k == Len(an) + 1
           q == queue[client.user]
<1>4. /\ client'.callbacks = client.callbacks /\ client.call # NoStream
      /\ w = Expected(client)[k] /\ k \in 1..Len(Expected(client))
      /\ client'.call.answers = Append(an, a)
  BY <1>1, <1>3, ServerReadsAnswers
<1>5. an \in Seq(Answer) /\ Len(an) \in Nat /\ TrueAnswer(a)'
  <2>1. an \in Seq(Answer)
    BY <1>3, <1>4, AnswerParts DEF ClientType, Call
  <2> QED
    BY <1>1, <2>1 DEF TrueAnswer
<1> HIDE DEF a
<1>6. committed \subseteq committed' /\ refused \subseteq refused'
  BY <1>1
<1>7. TrueAnswers'
  <2>1. ASSUME NEW i \in 1..Len(client'.call.answers), NEW x, x = client'.call.answers[i]
        PROVE  TrueAnswer(x)'
    <3>1. (i \in 1..Len(an) /\ x = an[i]) \/ (i = Len(an) + 1 /\ x = a)
      BY <1>4, <1>5, <2>1
    <3>2. CASE i \in 1..Len(an) /\ x = an[i]
      BY <1>4, <1>6, <3>2 DEF TruthInv, TrueAnswers, TrueAnswer
    <3>3. CASE x = a
      BY <1>5, <3>3 DEF TrueAnswer
    <3> QED
      BY <3>1, <3>2, <3>3
  <2> QED
    BY <2>1 DEF TrueAnswers, TrueAnswer
<1>8. Filed'
  <2>1. CASE kind = "hello"
    BY <1>1, <1>2, <2>1 DEF TruthInv, Filed, Settled
  <2>2. CASE kind # "hello"
    <3>1. w \in Writes /\ w # Hello /\ Settled' = Settled \cup {w}
      BY <1>1, <2>2, BoundsAssumption DEF Settled, Writes, Hello
    <3>2. client.shake
      <4>1. ~client.shake => w = Hello
        BY <1>4 DEF Expected
      <4> QED
        BY <3>1, <4>1
    <3>3. /\ client.pipe \in Seq(Batch) /\ Expected(client) = Ws(client.pipe)
          /\ Carries(client.call, Ws(client.pipe)) /\ Front(client.pipe, q)
          /\ q \in Seq(Batch) /\ Owns(Own(client.user), q)
      BY <1>3, <1>4, <3>2, AnswerParts, Parts
      DEF Expected, Match, PipeOK, ClientType
    <3>4. /\ Len(Ws(client.pipe)) = Len(client.pipe) /\ Len(client.pipe) \in Nat
          /\ Len(q) \in Nat
          /\ \A i \in 1..Len(client.pipe) : Ws(client.pipe)[i] = client.pipe[i].w
      BY <3>3, WsProperties
    <3>5. k \in 1..Len(client.pipe) /\ k \in 1..Len(q) /\ w = q[k].w
      <4>1. k \in 1..Len(client.pipe) /\ w = client.pipe[k].w
        BY <1>4, <3>3, <3>4
      <4>2. Len(client.pipe) <= Len(q) /\ client.pipe[k] = q[k]
        BY <3>3, <4>1 DEF Front
      <4>3. k \in 1..Len(q)
        BY <3>4, <4>1, <4>2
      <4> QED
        BY <4>1, <4>2, <4>3
    <3>6. w \in 1..written /\ author[w] = client.user
      BY <3>3, <3>5 DEF Owns, Own
    <3>7. ASSUME NEW v \in 1..w, author[v] = author[w] PROVE v \in Settled \cup {w}
      <4>0. v \in 1..written /\ v \in Int /\ w \in Int
        BY <1>3, <3>6
      <4>1. CASE v \in Settled
        BY <4>1
      <4>2. CASE v # w /\ v \notin Settled
        <5>1. PICK j \in 1..Len(q) : q[j].w = v
          BY <3>6, <3>7, <4>0, <4>2 DEF TruthInv, Filed
        <5>2. v < w
          BY <4>0, <4>2
        <5>3. j < k
          <6>1. InOrder(q)
            BY <1>3 DEF TruthInv, Ordered
          <6>2. k < j => w < v
            BY <3>5, <5>1, <6>1 DEF InOrder
          <6>3. j # k
            BY <3>5, <5>1, <5>2, <4>0
          <6>4. ~(w < v)
            BY <4>0, <5>2
          <6>5. k \in Int /\ j \in Int
            BY <3>5, <5>1
          <6> QED
            BY <6>2, <6>3, <6>4, <6>5
        <5>4. j \in 1..Len(an) /\ j \in 1..Len(client.pipe)
          BY <1>5, <3>4, <3>5, <5>1, <5>3
        <5>5. an[j].w = v
          BY <3>3, <3>4, <5>1, <5>4 DEF Carries, Front
        <5>6. TrueAnswer(an[j]) /\ an[j] \in Answer
          BY <1>4, <1>5, <5>4, ElementOfSeq DEF TruthInv, TrueAnswers
        <5>7. v # Hello
          BY <4>0 DEF Hello
        <5> QED
          BY <4>2, <5>5, <5>6, <5>7 DEF TrueAnswer, Settled, Answer
      <4> QED
        BY <4>1, <4>2
    <3>8. /\ \A v \in Writes : author'[v] # NoStream <=> v <= written'
          /\ Settled' \subseteq 1..written'
          /\ \A v \in 1..written' : v \in Settled' \/
               \E i \in 1..Len(queue'[author'[v]]) : queue'[author'[v]][i].w = v
      BY <1>2, <3>1, <3>6 DEF TruthInv, Filed
    <3>9. \A x \in Settled' : \A v \in 1..x : author'[v] = author'[x] => v \in Settled'
      BY <1>2, <3>1, <3>7 DEF TruthInv, Filed
    <3> QED
      BY <3>8, <3>9 DEF Filed
  <2> QED
    BY <2>1, <2>2
<1>9. Ordered' /\ Waiting'
  BY <1>2, <1>4 DEF TruthInv, Ordered, InOrder, Waiting
<1>10. CompletionsTellTruth'
  BY <1>2, <1>6 DEF TruthInv, CompletionsTellTruth, Overtaken
<1> QED
  BY <1>7, <1>8, <1>9, <1>10 DEF TruthInv

\* A new write is filed at the end of its account's queue.
LEMMA WriteTruth ==
  ASSUME TruthInv, AnswersInv', Write
  PROVE  TruthInv'
<1>1. AnswersInv /\ IInv'
  BY DEF TruthInv, AnswersInv
<1>2. PICK u, w, batch : /\ u = client.user /\ w = written + 1
                         /\ batch = [id |-> client.next, w |-> w]
  OBVIOUS
<1>3. /\ queue' = [queue EXCEPT ![u] = Append(@, batch)]
      /\ author' = [author EXCEPT ![w] = u] /\ written' = w
      /\ UNCHANGED <<committed, refused, told>>
  BY <1>2 DEF Write, server
<1>4. /\ client'.callbacks = [client.callbacks EXCEPT ![u] = @ \cup {batch}]
      /\ client'.stream = "Open" <=> client.stream = "Open"
      /\ client'.stream = "Open" => client'.call.answers = client.call.answers
  BY <1>1, <1>2, WriteAnswers
<1>5. /\ u \in Users /\ written \in Nat /\ w \in Writes /\ w \in Nat /\ w > written
      /\ client.callbacks \in [Users -> SUBSET Batch] /\ client.next \in Nat
      /\ queue \in [Users -> Seq(Batch)] /\ author \in [Writes -> Users \cup {NoStream}]
      /\ 1..written \subseteq Writes
  <2>1. u \in Users /\ written \in Nat /\ 1..written \subseteq Writes
    BY <1>1, <1>2, Parts DEF AnswersInv
  <2>2. w \in Writes /\ w \in Nat /\ w > written
    BY <1>2, <2>1, BoundsAssumption DEF Write, Writes
  <2>3. client.callbacks \in [Users -> SUBSET Batch] /\ client.next \in Nat
    BY <1>1, AnswerParts DEF ClientType
  <2> QED
    BY <1>1, <2>1, <2>2, <2>3 DEF AnswersInv, IInv, TypeOK
<1>6. batch \in Batch /\ batch.w = w
  BY <1>2, <1>5 DEF Batch
<1> DEFINE q == queue[u]
           r == queue'[u]
<1>7. /\ Len(q) \in Nat /\ Len(r) = Len(q) + 1 /\ r[Len(q) + 1] = batch
      /\ \A i \in 1..Len(q) : r[i] = q[i] /\ i \in 1..Len(r)
      /\ \A v \in Users \ {u} : queue'[v] = queue[v]
  <2>1. r = Append(q, batch) /\ q \in Seq(Batch)
    BY <1>3, <1>5
  <2>2. \A v \in Users \ {u} : queue'[v] = queue[v]
    BY <1>3, <1>5
  <2> QED
    BY <1>6, <2>1, <2>2, AppendProperties
<1>8. author'[w] = u /\ \A v \in Writes \ {w} : author'[v] = author[v]
  BY <1>3, <1>5
<1> HIDE DEF q, r
<1>9. TrueAnswers'
  <2>1. client'.call # NoStream =>
          client.call # NoStream /\ client'.call.answers = client.call.answers
    BY <1>1, <1>4, AnswerParts DEF AnswersInv, Tidy, Core
  <2> QED
    BY <1>3, <2>1 DEF TruthInv, TrueAnswers, TrueAnswer
<1>10. Ordered'
  <2>1. \A i \in 1..Len(q) : q[i].w \in 1..written
    BY <1>1, <1>5, QueuesInvOwns DEF q
  <2>2. InOrder(q)
    BY <1>5 DEF TruthInv, Ordered, q
  <2>3. InOrder(r)
    <3> SUFFICES ASSUME NEW i \in 1..Len(r), NEW j \in 1..Len(r), i < j PROVE r[i].w < r[j].w
      BY DEF InOrder
    <3>1. i \in 1..Len(q) /\ (j \in 1..Len(q) \/ j = Len(q) + 1)
      BY <1>7
    <3>2. CASE j \in 1..Len(q)
      BY <1>7, <2>2, <3>1, <3>2 DEF InOrder
    <3>3. CASE j = Len(q) + 1
      BY <1>5, <1>6, <1>7, <2>1, <3>1, <3>3
    <3> QED
      BY <3>1, <3>2, <3>3
  <2> QED
    BY <1>7, <2>3 DEF TruthInv, Ordered, InOrder, r
<1>11. Filed'
  <2>1. ASSUME NEW v \in Writes PROVE author'[v] # NoStream <=> v <= w
    <3>1. v \in Int
      BY DEF Writes
    <3>2. CASE v # w
      <4>1. author'[v] = author[v] /\ (v <= w <=> v <= written)
        BY <1>2, <1>5, <1>8, <3>1, <3>2
      <4> QED
        BY <4>1 DEF TruthInv, Filed
    <3>3. CASE v = w
      BY <1>5, <1>8, <3>3, NoStreamAssumption
    <3> QED
      BY <3>2, <3>3
  <2>2. Settled' = Settled /\ Settled \subseteq 1..written /\ 1..written \subseteq 1..w /\ w \notin Settled
    BY <1>3, <1>5 DEF TruthInv, Filed, Settled
  <2>3. ASSUME NEW v \in 1..w, v \notin Settled
        PROVE  \E i \in 1..Len(queue'[author'[v]]) : queue'[author'[v]][i].w = v
    <3>1. CASE v = w
      <4>1. Len(q) + 1 \in 1..Len(r) /\ r[Len(q) + 1].w = v
        BY <1>6, <1>7, <3>1
      <4> QED
        BY <1>8, <3>1, <4>1 DEF r
    <3>2. CASE v # w
      <4>1. v \in 1..written
        BY <1>2, <1>5, <3>2
      <4>2. PICK i \in 1..Len(queue[author[v]]) : queue[author[v]][i].w = v
        BY <2>3, <4>1 DEF TruthInv, Filed
      <4>3. author'[v] = author[v] /\ v \in Writes
        BY <1>5, <1>8, <3>2, <4>1
      <4>4. CASE author[v] = u
        <5>1. i \in 1..Len(r) /\ r[i].w = v
          BY <1>7, <4>2, <4>4 DEF q
        <5> QED
          BY <4>3, <4>4, <5>1 DEF r
      <4>5. CASE author[v] # u
        <5>1. author[v] \in Users
          BY <1>5, <4>1, <4>3 DEF TruthInv, Filed
        <5> QED
          BY <1>7, <4>2, <4>3, <4>5, <5>1
      <4> QED
        BY <4>4, <4>5
    <3> QED
      BY <3>1, <3>2
  <2>4. \A x \in Settled : \A v \in 1..x : author'[v] = author'[x] => v \in Settled
    <3> SUFFICES ASSUME NEW x \in Settled, NEW v \in 1..x, author'[v] = author'[x]
                 PROVE  v \in Settled
      OBVIOUS
    <3>1. x \in 1..written /\ v \in 1..written /\ x # w /\ v # w
      BY <1>5, <2>2
    <3>2. author'[v] = author[v] /\ author'[x] = author[x]
      BY <1>5, <1>8, <3>1
    <3> QED
      BY <3>2 DEF TruthInv, Filed
  <2> QED
    BY <1>3, <2>1, <2>2, <2>3, <2>4 DEF Filed
<1>12. Waiting'
  <2>1. ASSUME NEW v \in Users, NEW b \in client'.callbacks[v]
        PROVE  \E i \in 1..Len(queue'[v]) : queue'[v][i] = b
    <3>1. CASE v # u
      <4>1. client'.callbacks[v] = client.callbacks[v] /\ queue'[v] = queue[v]
        BY <1>4, <1>5, <1>7, <3>1
      <4> QED
        BY <2>1, <4>1 DEF TruthInv, Waiting
    <3>2. CASE v = u /\ b = batch
      <4>1. Len(q) + 1 \in 1..Len(r) /\ r[Len(q) + 1] = b
        BY <1>7, <3>2
      <4> QED
        BY <3>2, <4>1 DEF r
    <3>3. CASE v = u /\ b # batch
      <4>1. b \in client.callbacks[u]
        BY <1>4, <1>5, <2>1, <3>3
      <4>2. PICK i \in 1..Len(q) : q[i] = b
        BY <1>5, <4>1 DEF TruthInv, Waiting, q
      <4>3. i \in 1..Len(r) /\ r[i] = b
        BY <1>7, <4>2
      <4> QED
        BY <3>3, <4>3 DEF r
    <3> QED
      BY <3>1, <3>2, <3>3
  <2> QED
    BY <2>1 DEF Waiting
<1>13. CompletionsTellTruth'
  <2>1. \A v \in committed \cup refused : v \in Writes /\ v # w
    BY <1>5 DEF TruthInv, Filed, Settled
  <2>2. ASSUME NEW v \in Writes, Overtaken(v) PROVE Overtaken(v)'
    <3>1. PICK x \in refused : v < x /\ author[x] = author[v]
      BY <2>2 DEF Overtaken
    <3>2. v \in committed
      BY <2>2 DEF Overtaken
    <3>3. author'[x] = author[x] /\ author'[v] = author[v]
      BY <1>8, <2>1, <3>1, <3>2
    <3> QED
      BY <1>3, <3>1, <3>2, <3>3 DEF Overtaken
  <2> QED
    BY <1>3, <2>2 DEF TruthInv, CompletionsTellTruth
<1> QED
  BY <1>9, <1>10, <1>11, <1>12, <1>13 DEF TruthInv

\* What a completion may be told of a write.
Deserved(w, verdict) == IF verdict = "ok" THEN w \in committed ELSE w \in refused \/ Overtaken(w)

\* The write at the front is settled: its batch leaves the queue, and its completion, if
\* it has one, is the only one told.
LEMMA ResolvedTruth ==
  ASSUME TruthInv, AnswersInv', NEW verdict \in {"ok", "failed"},
         client.pipe # <<>>, ResolveFront(client, verdict),
         Deserved(Head(client.pipe).w, verdict),
         client'.callbacks = [client.callbacks EXCEPT ![client.user] =
                                @ \ Notified(Head(client.pipe).id)],
         UNCHANGED <<server, author, written>>,
         client'.call # NoStream =>
           /\ client.call # NoStream
           /\ client.call.answers # <<>>
           /\ client'.call.answers = Tail(client.call.answers)
  PROVE  TruthInv'
<1> DEFINE u == client.user
           q == queue[u]
           front == Head(client.pipe)
           id == front.id
<1>1. /\ AnswersInv /\ IInv /\ client \in ClientType /\ u \in Users
      /\ queue \in [Users -> Seq(Batch)] /\ client.callbacks \in [Users -> SUBSET Batch]
      /\ told \in [Writes -> {"nothing", "ok", "failed"}]
  BY Parts DEF TruthInv, AnswersInv, IInv, TypeOK, ClientType
<1>2. Steady(client, q, Own(u)) /\ q \in Seq(Batch) /\ Sorted(q)
  BY <1>1, Parts
<1>3. q # <<>> /\ Remove(q, id) = Tail(q)
  BY <1>1, <1>2, FrontResolvedSteady
<1>4. front = q[1] /\ 1 \in 1..Len(q) /\ front \in Batch
  <2>1. Front(client.pipe, q) /\ client.pipe \in Seq(Batch)
    BY <1>1, <1>2 DEF Steady, PipeOK, ClientType
  <2>2. /\ Len(client.pipe) \in Nat /\ Len(client.pipe) >= 1 /\ Head(client.pipe) = client.pipe[1]
        /\ Head(client.pipe) \in Batch
    BY <2>1, HeadTailProperties, EmptySeq
  <2>3. Len(q) \in Nat
    BY <1>2
  <2> QED
    BY <2>1, <2>2, <2>3 DEF Front
<1>5. /\ queue' = [queue EXCEPT ![u] = Remove(@, id)]
      /\ told' = [w \in Writes |-> IF \E b \in Notified(id) : b.w = w THEN verdict ELSE told[w]]
  BY DEF ResolveFront, NotifyUser
<1>6. /\ queue'[u] = Tail(q) /\ \A v \in Users \ {u} : queue'[v] = queue[v]
  BY <1>1, <1>3, <1>5
<1>7. /\ Len(q) \in Nat /\ Len(Tail(q)) = Len(q) - 1
      /\ \A i \in 1..Len(Tail(q)) : i \in Int /\ i + 1 \in 1..Len(q) /\ Tail(q)[i] = q[i + 1]
  BY <1>2, <1>3, HeadTailProperties, EmptySeq
<1>8. \A i \in 1..Len(q) : i # 1 => i - 1 \in 1..Len(Tail(q)) /\ Tail(q)[i - 1] = q[i]
  <2> SUFFICES ASSUME NEW i \in 1..Len(q), i # 1
               PROVE  i - 1 \in 1..Len(Tail(q)) /\ Tail(q)[i - 1] = q[i]
    OBVIOUS
  <2>1. PICK k \in 1..Len(Tail(q)) : k = i - 1
    BY <1>7
  <2>2. k + 1 = i
    BY <2>1
  <2> QED
    BY <1>7, <2>1, <2>2
<1>9. UNCHANGED <<committed, refused, author, written>> /\ front.w \in Settled
  BY DEF server, Settled, Deserved, Overtaken
<1>10. \A b \in Notified(id) : b = front
  <2> SUFFICES ASSUME NEW b \in Notified(id) PROVE b = front
    OBVIOUS
  <2>1. b \in client.callbacks[u] /\ b.id = id
    BY DEF Notified
  <2>2. PICK i \in 1..Len(q) : q[i] = b
    BY <1>1, <2>1 DEF TruthInv, Waiting
  <2>3. \A j \in 1..Len(q) : q[j].id \in Nat
    BY <1>1, QueueTypes DEF IInv
  <2>4. 1 < i => q[1].id < q[i].id
    BY <1>2, <1>4 DEF Sorted
  <2>5. i = 1
    BY <1>4, <2>1, <2>2, <2>3, <2>4
  <2> QED
    BY <1>4, <2>2, <2>5
<1> HIDE DEF q, front, id
<1>11. TrueAnswers'
  <2>1. ASSUME client'.call # NoStream
        PROVE  \A i \in 1..Len(client'.call.answers) :
                 \E j \in 1..Len(client.call.answers) :
                   client'.call.answers[i] = client.call.answers[j]
    <3>1. client.call # NoStream /\ client'.call.answers = Tail(client.call.answers)
          /\ client.call.answers # <<>>
      BY <2>1
    <3>2. client.call.answers \in Seq(Answer)
      BY <1>1, <3>1 DEF ClientType, Call
    <3> QED
      BY <3>1, <3>2, RestOfAnswers
  <2> QED
    BY <1>9, <2>1, SMTT(30) DEF TruthInv, TrueAnswers, TrueAnswer
<1>12. Ordered'
  <2>1. InOrder(q)
    BY <1>1 DEF TruthInv, Ordered, q
  <2>2. InOrder(Tail(q))
    <3> SUFFICES ASSUME NEW i \in 1..Len(Tail(q)), NEW j \in 1..Len(Tail(q)), i < j
                 PROVE  Tail(q)[i].w < Tail(q)[j].w
      BY DEF InOrder
    <3>1. i + 1 < j + 1
      BY <1>7
    <3> QED
      BY <1>7, <2>1, <3>1 DEF InOrder
  <2> QED
    BY <1>6, <2>2 DEF TruthInv, Ordered, InOrder
<1>13. Filed'
  <2>1. ASSUME NEW w \in 1..written, w \notin Settled
        PROVE  \E i \in 1..Len(queue'[author[w]]) : queue'[author[w]][i].w = w
    <3>1. PICK i \in 1..Len(queue[author[w]]) : queue[author[w]][i].w = w
      BY <2>1 DEF TruthInv, Filed
    <3>2. author[w] \in Users
      <4>1. written \in Nat /\ 1..written \subseteq Writes
        BY <1>1, Parts
      <4>2. author[w] # NoStream
        BY <4>1 DEF TruthInv, Filed
      <4> QED
        BY <1>1, <4>1, <4>2 DEF IInv, TypeOK
    <3>3. CASE author[w] # u
      BY <1>6, <3>1, <3>2, <3>3
    <3>4. CASE author[w] = u
      <4>1. i \in 1..Len(q) /\ q[i].w = w
        BY <3>1, <3>4 DEF q
      <4>2. i # 1
        BY <1>4, <1>9, <2>1, <4>1
      <4>3. i - 1 \in 1..Len(Tail(q)) /\ Tail(q)[i - 1].w = w
        BY <1>8, <4>1, <4>2
      <4> QED
        BY <1>6, <3>4, <4>3
    <3> QED
      BY <3>3, <3>4
  <2> QED
    BY <1>9, <2>1 DEF TruthInv, Filed, Settled
<1>14. Waiting'
  <2>1. ASSUME NEW v \in Users, NEW b \in client'.callbacks[v]
        PROVE  \E i \in 1..Len(queue'[v]) : queue'[v][i] = b
    <3>1. CASE v # u
      <4>1. client'.callbacks[v] = client.callbacks[v] /\ queue'[v] = queue[v]
        BY <1>1, <1>6, <3>1
      <4> QED
        BY <2>1, <4>1 DEF TruthInv, Waiting
    <3>2. CASE v = u
      <4>1. b \in client.callbacks[u] /\ b \notin Notified(id)
        BY <1>1, <2>1, <3>2 DEF id, front
      <4>2. b.id # id
        BY <4>1 DEF Notified
      <4>3. PICK i \in 1..Len(q) : q[i] = b
        BY <1>1, <4>1 DEF TruthInv, Waiting, q
      <4>4. i # 1
        BY <1>4, <4>2, <4>3 DEF id
      <4> QED
        BY <1>6, <1>8, <3>2, <4>3, <4>4, ZenonT(40)
    <3> QED
      BY <3>1, <3>2
  <2> QED
    BY <2>1 DEF Waiting
<1>15. CompletionsTellTruth'
  <2>1. ASSUME NEW w \in Writes
        PROVE  told'[w] = told[w] \/ (told'[w] = verdict /\ w = front.w)
    BY <1>5, <1>10
  <2>2. Deserved(front.w, verdict)
    BY DEF front
  <2>3. \A w \in Writes : Overtaken(w)' <=> Overtaken(w)
    BY <1>9 DEF Overtaken
  <2> QED
    BY <1>9, <2>1, <2>2, <2>3 DEF TruthInv, CompletionsTellTruth, Deserved
<1> QED
  BY <1>11, <1>12, <1>13, <1>14, <1>15 DEF TruthInv

\* The write that a refusal is laid to was refused, or it was committed and a later
\* write of its account was refused.
LEMMA RefusalMeetsFront ==
  ASSUME TruthInv, WriteError, client.shake
  PROVE  Deserved(Head(client.pipe).w, "failed")
<1> DEFINE an == client.call.answers
           u == client.user
           q == queue[u]
<1>1. AnswersInv /\ u \in Users /\ client.call # NoStream
  BY Parts DEF TruthInv, AnswersInv, WriteError, EndsRefused
<1>2. an \in Seq(Answer) /\ client.pipe \in Seq(Batch)
  BY <1>1, AnswerParts DEF ClientType, Call
<1>3. PICK i \in DOMAIN an : an[i].kind = "refused"
  BY DEF WriteError, EndsRefused
<1>4. /\ Len(an) \in Nat /\ DOMAIN an = 1..Len(an) /\ i \in 1..Len(an) /\ 1 \in 1..Len(an)
      /\ an # <<>> /\ an[i] \in Answer /\ an[1] \in Answer /\ Head(an) = an[1]
  <2>1. Len(an) \in Nat /\ DOMAIN an = 1..Len(an) /\ i \in 1..Len(an)
    BY <1>2, <1>3
  <2>2. 1 \in 1..Len(an)
    BY <2>1
  <2> QED
    BY <1>2, <2>1, <2>2, ElementOfSeq, EmptySeq
<1>5. TrueAnswer(an[i]) /\ TrueAnswer(an[1])
  BY <1>1, <1>4 DEF TruthInv, TrueAnswers
<1>6. /\ Carries(client.call, Ws(client.pipe)) /\ Front(client.pipe, q)
      /\ q \in Seq(Batch) /\ Owns(Own(u), q) /\ Len(q) \in Nat /\ Len(client.pipe) \in Nat
      /\ Len(client.call.requests) \in Nat
  BY <1>1, <1>2, AnswerParts, Parts DEF Expected, Match, PipeOK, ClientType, Call, AnswersInv
<1>7. /\ Len(Ws(client.pipe)) = Len(client.pipe)
      /\ \A j \in 1..Len(client.pipe) : Ws(client.pipe)[j] = client.pipe[j].w
  BY <1>2, WsProperties
<1>8. i \in 1..Len(client.pipe) /\ 1 \in 1..Len(client.pipe)
  <2>1. Len(an) + Len(client.call.requests) = Len(client.pipe)
    BY <1>6, <1>7 DEF Carries
  <2>2. PICK m, n, k : m = Len(an) /\ n = Len(client.call.requests) /\ k = Len(client.pipe)
    OBVIOUS
  <2>3. m \in Nat /\ n \in Nat /\ k \in Nat /\ m + n = k /\ i \in 1..m
    BY <1>4, <1>6, <2>1, <2>2
  <2>4. i \in 1..k /\ 1 \in 1..k
    BY <2>3
  <2> QED
    BY <2>2, <2>4
<1>9. /\ an[i].w = q[i].w /\ an[1].w = q[1].w /\ Head(client.pipe).w = q[1].w
      /\ i \in 1..Len(q) /\ 1 \in 1..Len(q)
  <2>1. an[i].w = client.pipe[i].w /\ an[1].w = client.pipe[1].w
    BY <1>4, <1>6, <1>7, <1>8 DEF Carries
  <2>2. client.pipe[i] = q[i] /\ client.pipe[1] = q[1] /\ Len(client.pipe) <= Len(q)
    BY <1>6, <1>8 DEF Front
  <2>3. Head(client.pipe) = client.pipe[1]
    BY <1>2, <1>8, HeadTailProperties, EmptySeq
  <2> QED
    BY <1>6, <1>8, <2>1, <2>2, <2>3
<1>10. /\ q[i].w \in Own(u) /\ q[1].w \in Own(u)
  BY <1>6, <1>9 DEF Owns
<1>11. q[i].w \in refused
  BY <1>3, <1>5, <1>9 DEF TrueAnswer
<1>12. CASE i = 1
  BY <1>9, <1>11, <1>12 DEF Deserved
<1>13. CASE i # 1
  <2>1. q[1].w < q[i].w
    <3>1. 1 < i
      BY <1>4, <1>13
    <3> QED
      BY <1>1, <1>9, <3>1 DEF TruthInv, Ordered, InOrder
  <2>2. q[1].w \in committed \cup refused
    <3>1. q[1].w # Hello
      BY <1>10 DEF Own, Hello
    <3> QED
      BY <1>4, <1>5, <1>9, <3>1 DEF TrueAnswer, Answer
  <2>3. author[q[i].w] = author[q[1].w]
    BY <1>10 DEF Own
  <2> QED
    BY <1>9, <1>11, <2>1, <2>2, <2>3 DEF Deserved, Overtaken
<1> QED
  BY <1>12, <1>13

\* An answer about a write is about the write at the front.
LEMMA AnswersTruth ==
  ASSUME TruthInv, AnswersInv', MutationResult \/ WriteError
  PROVE  TruthInv'
<1>1. AnswersInv /\ IInv'
  BY DEF TruthInv, AnswersInv
<1>2. /\ client.call # NoStream /\ client.call.answers # <<>>
      /\ UNCHANGED <<server, author, written>>
  <2>1. CASE MutationResult
    BY <2>1 DEF MutationResult, Answered, bounds
  <2>2. CASE WriteError
    <3>1. client.call # NoStream /\ UNCHANGED <<server, author, written>>
      BY <2>2 DEF WriteError, EndsRefused, bounds
    <3>2. PICK i \in DOMAIN client.call.answers : TRUE
      BY <2>2 DEF WriteError, EndsRefused
    <3>3. client.call.answers \in Seq(Answer)
      BY <1>1, <3>1, AnswerParts DEF ClientType, Call
    <3> QED
      BY <3>1, <3>2, <3>3, EmptySeq
  <2> QED
    BY <2>1, <2>2
<1> DEFINE a == Head(client.call.answers)
<1>3. a \in Answer /\ TrueAnswer(a)
  <2>1. client.call.answers \in Seq(Answer)
    BY <1>1, <1>2, AnswerParts DEF ClientType, Call
  <2>2. a = client.call.answers[1] /\ a \in Answer /\ 1 \in 1..Len(client.call.answers)
    BY <1>2, <2>1, HeadTailProperties, EmptySeq
  <2> QED
    BY <1>2, <2>2 DEF TruthInv, TrueAnswers
<1>4. client.shake => client.pipe # <<>> /\ a.w = Head(client.pipe).w /\ a.w # Hello
  <2> SUFFICES ASSUME client.shake
               PROVE  client.pipe # <<>> /\ a.w = Head(client.pipe).w /\ a.w # Hello
    OBVIOUS
  <2>1. client.pipe # <<>> /\ a.w = Head(client.pipe).w
    BY <1>1, <1>2, FirstAnswer
  <2>2. client.pipe \in Seq(Batch)
    BY <1>1, AnswerParts DEF ClientType
  <2>3. Head(client.pipe) \in Batch
    BY <2>1, <2>2, HeadTailProperties
  <2>4. a.w \in Writes
    BY <2>1, <2>3 DEF Batch
  <2> QED
    BY <2>1, <2>4, BoundsAssumption DEF Writes, Hello
<1> HIDE DEF a
<1>5. CASE MutationResult
  <2>1. client.shake /\ a.kind \in {"hello", "committed"}
    BY <1>5 DEF MutationResult, Answered, a
  <2>2. a.kind = "committed" /\ Head(client.pipe).w \in committed
    BY <1>3, <1>4, <2>1 DEF TrueAnswer
  <2>3. /\ ResolveFront(client, "ok")
        /\ client'.callbacks = [client.callbacks EXCEPT ![client.user] =
                                  @ \ Notified(Head(client.pipe).id)]
        /\ client'.call.answers = Tail(client.call.answers)
    BY <1>1, <1>5, MutationResultAnswers
  <2> QED
    BY <1>2, <1>4, <2>1, <2>2, <2>3, ResolvedTruth DEF Deserved
<1>6. CASE WriteError
  <2>2. client.shake => Deserved(Head(client.pipe).w, "failed")
    BY <1>1, <1>6, RefusalMeetsFront
  <2>3. /\ client'.call = NoStream
        /\ \/ client'.callbacks = client.callbacks /\ UNCHANGED <<queue, told>>
           \/ /\ client.shake /\ ResolveFront(client, "failed")
              /\ client'.callbacks = [client.callbacks EXCEPT ![client.user] =
                                        @ \ Notified(Head(client.pipe).id)]
    BY <1>1, <1>6, WriteErrorAnswers
  <2>4. CASE client'.callbacks = client.callbacks /\ UNCHANGED <<queue, told>>
    BY <1>2, <2>3, <2>4, QuietTruth DEF server
  <2>5. CASE /\ client.shake /\ ResolveFront(client, "failed")
             /\ client'.callbacks = [client.callbacks EXCEPT ![client.user] =
                                       @ \ Notified(Head(client.pipe).id)]
    BY <1>2, <1>4, <2>2, <2>3, <2>5, ResolvedTruth
  <2> QED
    BY <2>3, <2>4, <2>5
<1> QED
  BY <1>5, <1>6

LEMMA TruthNext ==
  ASSUME TruthInv, [Next]_vars
  PROVE  TruthInv'
<1>1. AnswersInv'
  BY AnswersNext DEF TruthInv
<1>2. CASE UNCHANGED vars
  BY <1>1, <1>2, QuietTruth DEF vars, server, history, bounds
<1>3. CASE Write
  BY <1>1, <1>3, WriteTruth
<1>4. CASE ServerStep
  BY <1>1, <1>4, ServerTruth
<1>5. CASE ClientStep
  BY <1>1, <1>5, ClientTruth, AnswersTruth DEF ClientStep
<1>6. CASE TokenStep \/ TokenFails
  BY <1>1, <1>6, TokensTruth DEF TokenStep
<1>7. CASE StreamBreaks \/ ConnectivityChanged
  BY <1>1, <1>7, ClientTruth
<1>8. CASE \E u \in Users : AuthChange(u)
  BY <1>1, <1>8, TokensTruth
<1>9. CASE Relaunch
  BY <1>1, <1>9, RelaunchTruth
<1> QED
  BY <1>2, <1>3, <1>4, <1>5, <1>6, <1>7, <1>8, <1>9 DEF Next

LEMMA TruthInit ==
  ASSUME Init
  PROVE  TruthInv
<1>1. AnswersInv /\ Launched(client)
  BY InitAnswers
<1>2. /\ \A u \in Users : queue[u] = <<>> /\ client.callbacks[u] = {}
      /\ client.call = NoStream /\ written = 0 /\ Settled = {}
      /\ \A w \in Writes : author[w] = NoStream /\ told[w] = "nothing"
  BY <1>1 DEF Init, Launched, Settled
<1>3. \A w \in Writes : ~(w <= written)
  BY <1>2, BoundsAssumption DEF Writes
<1>4. Filed
  BY <1>2, <1>3 DEF Filed
<1>5. Ordered /\ Waiting
  BY <1>2 DEF Ordered, InOrder, Waiting
<1>6. TrueAnswers /\ CompletionsTellTruth
  BY <1>2 DEF TrueAnswers, CompletionsTellTruth
<1> QED
  BY <1>1, <1>4, <1>5, <1>6 DEF TruthInv

\* The strengthened invariant of the two theorems below holds in every state.
THEOREM TruthInvariant == Spec => []TruthInv
<1>1. Init => TruthInv
  BY TruthInit
<1>2. TruthInv /\ [Next]_vars => TruthInv'
  BY TruthNext
<1> QED
  BY <1>1, <1>2, PTL DEF Spec

\* For every value of the constants: a completion hears "ok" only of a write the server
\* committed, and "failed" only of one it refused or of a committed one whose answer the
\* refusal of a later write of the account overtook, although answers carry no name and
\* accounts, streams and processes come and go between a write and its answer.
THEOREM CompletionsHearTruth == Spec => []CompletionsTellTruth
<1>1. TruthInv => CompletionsTellTruth
  BY DEF TruthInv
<1> QED
  BY <1>1, TruthInvariant, PTL

\* For every value of the constants: a write is in its account's queue, once, until the
\* server has settled it, the writes of an account are settled in the order they were
\* made, and a completion that has not run is that of a queued batch.
THEOREM WritesAreKept == Spec => []NothingLost
<1>1. TruthInv => NothingLost
  <2> SUFFICES ASSUME TruthInv PROVE NothingLost
    OBVIOUS
  <2> DEFINE At(w) == {i \in DOMAIN queue[author[w]] : queue[author[w]][i].w = w}
  <2> SUFFICES ASSUME NEW w \in Writes, author[w] # NoStream
               PROVE  /\ Cardinality(At(w)) <= 1
                      /\ At(w) = {} => w \in Settled
                      /\ w \in Settled => \A v \in 1..w : author[v] = author[w] => v \in Settled
                      /\ \A b \in client.callbacks[author[w]] : b.w = w =>
                           \E i \in At(w) : queue[author[w]][i] = b
    BY Zenon DEF NothingLost, Settled
  <2>0. PICK u, places : u = author[w] /\ places = At(w)
    OBVIOUS
  <2>1. /\ IInv /\ u \in Users /\ queue[u] \in Seq(Batch) /\ DOMAIN queue[u] = 1..Len(queue[u])
        /\ written \in Nat /\ places = {i \in 1..Len(queue[u]) : queue[u][i].w = w}
    <3>1. IInv /\ u \in Users /\ written \in Nat
      BY <2>0, Parts DEF TruthInv, AnswersInv, IInv, TypeOK
    <3>2. queue[u] \in Seq(Batch) /\ DOMAIN queue[u] = 1..Len(queue[u])
      BY <3>1, QueueTypes DEF IInv
    <3> QED
      BY <2>0, <3>1, <3>2
  <2> HIDE DEF At
  <2>2. w \in 1..written
    BY <2>0, <2>1 DEF TruthInv, Filed, Writes
  <2>3. \A i, j \in places : i = j
    <3> SUFFICES ASSUME NEW i \in places, NEW j \in places PROVE i = j
      OBVIOUS
    <3>1. i \in 1..Len(queue[u]) /\ j \in 1..Len(queue[u]) /\ queue[u][i].w = w /\ queue[u][j].w = w
      BY <2>1
    <3>2. InOrder(queue[u])
      BY <2>1 DEF TruthInv, Ordered
    <3>3. w \in Int
      BY DEF Writes
    <3> QED
      BY <3>1, <3>2, <3>3 DEF InOrder
  <2>4. Cardinality(places) <= 1
    <3>1. CASE places = {}
      BY <3>1, FS_EmptySet
    <3>2. CASE places # {}
      <4>1. PICK i : i \in places
        BY <3>2
      <4>2. places = {i}
        BY <2>3, <4>1
      <4>3. Cardinality({i}) = 1
        BY FS_Singleton
      <4> QED
        BY <4>2, <4>3
    <3> QED
      BY <3>1, <3>2
  <2>5. places = {} => w \in Settled
    BY <2>0, <2>1, <2>2 DEF TruthInv, Filed
  <2>6. w \in Settled => \A v \in 1..w : author[v] = u => v \in Settled
    BY <2>0 DEF TruthInv, Filed
  <2>7. \A b \in client.callbacks[u] : b.w = w => \E i \in places : queue[u][i] = b
    BY <2>1 DEF TruthInv, Waiting
  <2> QED
    BY <2>0, <2>4, <2>5, <2>6, <2>7
<1> QED
  BY <1>1, TruthInvariant, PTL

-----------------------------------------------------------------------------
(* The client implements WriteQueue: the answers that are still to be read *)
(* are the writes that the abstract queue has passed, and perhaps refused. *)

AnswersOf(c) == IF c.call = NoStream THEN <<>> ELSE c.call.answers
PassedOf(c) == Cardinality({i \in DOMAIN AnswersOf(c) : AnswersOf(c)[i].kind = "committed"})
RefusingOf(c) == \E i \in DOMAIN AnswersOf(c) : AnswersOf(c)[i].kind = "refused"

\* The handshake is answered by a greeting, a write by a verdict; nothing follows a refusal.
Shaped(s) == /\ \A i \in 1..Len(s) : s[i].kind = "hello" <=> s[i].w = Hello
             /\ \A i, j \in 1..Len(s) : i < j => s[i].kind # "refused"

ShapedInv == TruthInv /\ Shaped(AnswersOf(client))

LEMMA AnswersTyped ==
  ASSUME NEW c \in ClientType
  PROVE  AnswersOf(c) \in Seq(Answer)
<1>1. <<>> \in Seq(Answer)
  OBVIOUS
<1> QED
  BY <1>1 DEF AnswersOf, ClientType, Call

\* Without answers nothing is passed.
LEMMA NothingPassed ==
  ASSUME NEW c, AnswersOf(c) = <<>>
  PROVE  PassedOf(c) = 0 /\ ~RefusingOf(c) /\ Shaped(AnswersOf(c))
<1>1. DOMAIN AnswersOf(c) = {} /\ Len(AnswersOf(c)) = 0
  OBVIOUS
<1>2. {i \in DOMAIN AnswersOf(c) : AnswersOf(c)[i].kind = "committed"} = {}
  BY <1>1
<1>3. PassedOf(c) = 0
  BY <1>2, FS_EmptySet DEF PassedOf
<1> QED
  BY <1>1, <1>3 DEF RefusingOf, Shaped

\* The committed writes come first.
LEMMA CountPassed ==
  ASSUME NEW c, NEW s \in Seq(Answer), s = AnswersOf(c), NEW m \in 0..Len(s),
         \A i \in 1..Len(s) : s[i].kind = "committed" <=> i <= m
  PROVE  PassedOf(c) = m
<1>1. DOMAIN s = 1..Len(s) /\ Len(s) \in Nat
  OBVIOUS
<1>2. {i \in DOMAIN s : s[i].kind = "committed"} = 1..m
  BY <1>1
<1>3. Cardinality(1..m) = m
  <2>1. m \in Int /\ 1 \in Int /\ ~(1 > m) => m - 1 + 1 = m
    OBVIOUS
  <2> QED
    BY <1>1, <2>1, FS_Interval
<1> QED
  BY <1>2, <1>3 DEF PassedOf

\* After the handshake every answer is a verdict: all but a last refusal are passed.
LEMMA Passed ==
  ASSUME NEW c \in ClientType, NEW s \in Seq(Answer), s = AnswersOf(c), Shaped(s),
         \A i \in 1..Len(s) : s[i].w # Hello
  PROVE  \/ /\ ~RefusingOf(c) /\ PassedOf(c) = Len(s)
            /\ \A i \in 1..Len(s) : s[i].kind = "committed"
         \/ /\ RefusingOf(c) /\ s # <<>> /\ s[Len(s)].kind = "refused"
            /\ PassedOf(c) = Len(s) - 1
            /\ \A i \in 1..(Len(s) - 1) : s[i].kind = "committed"
<1>0. PICK n \in Nat : n = Len(s)
  OBVIOUS
<1>1. DOMAIN s = 1..n
  BY <1>0
<1>2. \A i \in 1..n : s[i].kind \in {"committed", "refused"}
  <2> TAKE i \in 1..n
  <2>1. s[i] \in Answer
    BY <1>0, ElementOfSeq
  <2> QED
    BY <1>0, <2>1 DEF Answer, Shaped
<1>3. CASE RefusingOf(c)
  <2>1. PICK k \in 1..n : s[k].kind = "refused"
    BY <1>1, <1>3 DEF RefusingOf
  <2>2. k = n
    <3>1. ~(k < n)
      <4> SUFFICES ASSUME k < n PROVE FALSE
        OBVIOUS
      <4>1. n \in 1..n
        OBVIOUS
      <4> QED
        BY <1>0, <2>1, <4>1 DEF Shaped
    <3>2. \A a, b \in Nat : a \in 1..b /\ ~(a < b) => a = b
      OBVIOUS
    <3>3. k \in Nat
      OBVIOUS
    <3> QED
      BY <3>1, <3>2, <3>3
  <2>3. \A i \in 1..(n - 1) : s[i].kind = "committed"
    <3> TAKE i \in 1..(n - 1)
    <3>1. i \in 1..n /\ i < n /\ n \in 1..n
      OBVIOUS
    <3>2. s[i].kind # "refused"
      BY <1>0, <3>1 DEF Shaped
    <3> QED
      BY <1>2, <3>1, <3>2
  <2>4. \A i \in 1..n : s[i].kind = "committed" <=> i <= n - 1
    <3> TAKE i \in 1..n
    <3>1. CASE i \in 1..(n - 1)
      <4>1. i <= n - 1
        BY <3>1
      <4> QED
        BY <2>3, <3>1, <4>1
    <3>2. CASE i \notin 1..(n - 1)
      <4>1. i = n /\ ~(i <= n - 1)
        BY <3>2
      <4>2. s[i].kind = "refused"
        BY <2>1, <2>2, <4>1
      <4> QED
        BY <4>1, <4>2
    <3> QED
      BY <3>1, <3>2
  <2>5. n - 1 \in 0..n /\ s # <<>>
    BY <1>0, <2>1
  <2>6. PassedOf(c) = n - 1
    BY <1>0, <2>4, <2>5, CountPassed
  <2> QED
    BY <1>0, <1>3, <2>1, <2>2, <2>3, <2>5, <2>6
<1>4. CASE ~RefusingOf(c)
  <2>1. \A i \in 1..n : s[i].kind = "committed"
    BY <1>1, <1>2, <1>4 DEF RefusingOf
  <2>2. \A i \in 1..n : s[i].kind = "committed" <=> i <= n
    BY <2>1
  <2>3. n \in 0..n
    OBVIOUS
  <2>4. PassedOf(c) = n
    BY <1>0, <2>2, <2>3, CountPassed
  <2> QED
    BY <1>0, <1>4, <2>1, <2>4
<1> QED
  BY <1>3, <1>4

\* The writes of a queue that grows at its end.
LEMMA WsAppend ==
  ASSUME NEW q \in Seq(Batch), NEW b \in Batch
  PROVE  Ws(Append(q, b)) = Append(Ws(q), b.w)
<1> DEFINE r == Append(q, b)
           x == Ws(r)
           y == Append(Ws(q), b.w)
<1>1. /\ r \in Seq(Batch) /\ Len(q) \in Nat /\ Len(r) = Len(q) + 1 /\ r[Len(q) + 1] = b
      /\ \A i \in 1..Len(q) : r[i] = q[i]
  BY AppendProperties
<1>2. /\ Ws(q) \in Seq(Writes) /\ Len(Ws(q)) = Len(q)
      /\ \A i \in 1..Len(q) : Ws(q)[i] = q[i].w
  BY WsProperties
<1> HIDE DEF r
<1>3. x \in Seq(Writes) /\ Len(x) = Len(r) /\ \A i \in 1..Len(r) : x[i] = r[i].w
  BY <1>1, WsProperties
<1>4. /\ y \in Seq(Writes) /\ Len(y) = Len(q) + 1 /\ y[Len(q) + 1] = b.w
      /\ \A i \in 1..Len(q) : y[i] = Ws(q)[i]
  <2>1. b.w \in Writes
    BY DEF Batch
  <2> QED
    BY <1>2, <2>1, AppendProperties
<1> HIDE DEF x, y
<1>5. ASSUME NEW i \in 1..Len(x) PROVE x[i] = y[i]
  <2>1. i \in 1..Len(q) \/ i = Len(q) + 1
    BY <1>1, <1>3
  <2> QED
    BY <1>1, <1>2, <1>3, <1>4, <2>1
<1>6. x = y
  BY <1>1, <1>3, <1>4, <1>5, SeqEqual
<1> QED
  BY <1>6 DEF x, y, r

\* The writes of an account's queue.
LEMMA PendingWrites ==
  ASSUME TypeOK, NEW u \in Users
  PROVE  /\ Ws(queue[u]) \in Seq(Writes) /\ Len(Ws(queue[u])) = Len(queue[u])
         /\ Len(queue[u]) \in Nat /\ DOMAIN Ws(queue[u]) = 1..Len(queue[u])
         /\ \A i \in 1..Len(queue[u]) : Ws(queue[u])[i] = queue[u][i].w
<1>1. queue[u] \in Seq(Batch)
  BY DEF TypeOK
<1>2. /\ Ws(queue[u]) \in Seq(Writes) /\ Len(Ws(queue[u])) = Len(queue[u])
      /\ \A i \in 1..Len(queue[u]) : Ws(queue[u])[i] = queue[u][i].w
  BY <1>1, WsProperties
<1>3. DOMAIN Ws(queue[u]) = 1..Len(Ws(queue[u]))
  BY <1>2
<1> QED
  BY <1>1, <1>2, <1>3

\* A step that only the client sees.
LEMMA Stutters ==
  ASSUME UNCHANGED <<queue, doc>>, client'.user = client.user,
         PassedOf(client') = PassedOf(client), RefusingOf(client') = RefusingOf(client)
  PROVE  UNCHANGED Promise!vars
<1>1. Promise!vars = <<[u \in Users |-> Ws(queue[u])], client.user, PassedOf(client),
                       RefusingOf(client), doc>>
  BY DEF Promise!vars, Unread, PassedOf, RefusingOf, AnswersOf
<1>2. Promise!vars' = <<[u \in Users |-> Ws(queue[u])]', client'.user, PassedOf(client'),
                        RefusingOf(client'), doc'>>
  BY DEF Promise!vars, Unread, PassedOf, RefusingOf, AnswersOf
<1>3. [u \in Users |-> Ws(queue[u])]' = [u \in Users |-> Ws(queue[u])]
  BY DEF Ws
<1> QED
  BY <1>1, <1>2, <1>3

\* A step that empties the answers: the server is taken through the queue again.
LEMMA Restarts ==
  ASSUME UNCHANGED <<queue, doc>>, client'.user \in Users, AnswersOf(client') = <<>>
  PROVE  Promise!Next /\ Shaped(AnswersOf(client'))
<1>1. PassedOf(client') = 0 /\ ~RefusingOf(client') /\ Shaped(AnswersOf(client'))
  BY NothingPassed
<1>2. [u \in Users |-> Ws(queue[u])]' = [u \in Users |-> Ws(queue[u])]
  BY DEF Ws
<1>3. /\ PassedOf(client') = Cardinality({i \in DOMAIN Unread : Unread[i].kind = "committed"})'
      /\ RefusingOf(client') = (\E i \in DOMAIN Unread : Unread[i].kind = "refused")'
  BY DEF Unread, PassedOf, RefusingOf, AnswersOf
<1>4. PICK u \in Users : u = client'.user
  OBVIOUS
<1>5. Promise!Restart(u)
  BY <1>1, <1>2, <1>3, <1>4 DEF Promise!Restart
<1>6. Promise!Next
  BY <1>5 DEF Promise!Next
<1> QED
  BY <1>1, <1>6

\* What the abstract queue shows after a step.
LEMMA Shown ==
  /\ Cardinality({i \in DOMAIN Unread : Unread[i].kind = "committed"}) = PassedOf(client)
  /\ (\E i \in DOMAIN Unread : Unread[i].kind = "refused") = RefusingOf(client)
  /\ Cardinality({i \in DOMAIN Unread : Unread[i].kind = "committed"})' = PassedOf(client')
  /\ (\E i \in DOMAIN Unread : Unread[i].kind = "refused")' = RefusingOf(client')
BY DEF Unread, PassedOf, RefusingOf, AnswersOf

\* Once the handshake is done every answer is about a write of the queue.
LEMMA AnswersOfWrites ==
  ASSUME AnswersInv, client.call # NoStream, client.shake
  PROVE  /\ client.call.answers \in Seq(Answer)
         /\ Len(client.call.answers) <= Len(Expected(client))
         /\ Len(Expected(client)) <= Len(queue[client.user])
         /\ \A i \in 1..Len(Expected(client)) : Expected(client)[i] = Ws(queue[client.user])[i]
         /\ \A i \in 1..Len(client.call.answers) : client.call.answers[i].w # Hello
<1> DEFINE q == queue[client.user]
           p == client.pipe
           an == client.call.answers
           e == Expected(client)
<1>1. /\ an \in Seq(Answer) /\ client.call.requests \in Seq({Hello} \cup Writes)
      /\ p \in Seq(Batch) /\ q \in Seq(Batch) /\ e = Ws(p) /\ Carries(client.call, e)
      /\ Front(p, q)
  BY AnswerParts DEF ClientType, Call, Expected, Match, PipeOK
<1>2. /\ e \in Seq(Writes) /\ Len(e) = Len(p) /\ \A i \in 1..Len(p) : e[i] = p[i].w
      /\ \A i \in 1..Len(q) : Ws(q)[i] = q[i].w
  BY <1>1, WsProperties
<1>3. Len(an) \in Nat /\ Len(client.call.requests) \in Nat /\ Len(p) \in Nat /\ Len(q) \in Nat
  BY <1>1
<1> HIDE DEF an, e, p, q
<1>4. Len(an) <= Len(e) /\ Len(e) <= Len(q)
  <2>1. Len(an) + Len(client.call.requests) = Len(e) /\ Len(p) <= Len(q)
    BY <1>1 DEF Carries, Front, an
  <2>2. \A a, b, n \in Nat : a + b = n => a <= n
    OBVIOUS
  <2>3. Len(e) \in Nat
    BY <1>2, <1>3
  <2> QED
    BY <1>2, <1>3, <2>1, <2>2, <2>3
<1>5. \A i \in 1..Len(e) : e[i] = Ws(q)[i] /\ e[i] \in Writes
  <2> TAKE i \in 1..Len(e)
  <2>1. i \in 1..Len(p) /\ i \in 1..Len(q)
    BY <1>2, <1>3, <1>4
  <2> QED
    BY <1>1, <1>2, <2>1, ElementOfSeq DEF Front
<1>6. \A i \in 1..Len(an) : an[i].w # Hello
  <2> TAKE i \in 1..Len(an)
  <2>1. i \in 1..Len(e)
    BY <1>2, <1>3, <1>4
  <2>2. an[i].w = e[i]
    BY <1>1 DEF Carries, an
  <2>3. Hello \notin Writes
    BY BoundsAssumption DEF Hello, Writes
  <2> QED
    BY <1>5, <2>1, <2>2, <2>3
<1> QED
  BY <1>1, <1>4, <1>5, <1>6 DEF an, e, q

\* A write that is filed is issued.
LEMMA WriteIssues ==
  ASSUME TruthInv, AnswersInv', Write
  PROVE  Promise!Next /\ AnswersOf(client') = AnswersOf(client)
<1>1. AnswersInv /\ IInv /\ IInv' /\ TypeOK
  BY DEF TruthInv, AnswersInv, IInv
<1>2. PICK u, w, batch : /\ u = client.user /\ w = written + 1
                         /\ batch = [id |-> client.next, w |-> w]
  OBVIOUS
<1>3. queue' = [queue EXCEPT ![u] = Append(@, batch)] /\ doc' = doc
  BY <1>2 DEF Write, server
<1>4. /\ client'.user = u
      /\ client'.stream = "Open" <=> client.stream = "Open"
      /\ client'.stream = "Open" => client'.call.answers = client.call.answers
  BY <1>1, <1>2, WriteAnswers
<1>5. AnswersOf(client') = AnswersOf(client)
  <2>1. client'.call # NoStream <=> client'.stream = "Open"
    BY DEF AnswersInv, Tidy, Core
  <2>2. client.call # NoStream <=> client.stream = "Open"
    BY <1>1 DEF AnswersInv, Tidy, Core
  <2> QED
    BY <1>4, <2>1, <2>2, Zenon DEF AnswersOf
<1>6. /\ u \in Users /\ w \in Writes /\ batch \in Batch /\ written \in Nat
      /\ queue \in [Users -> Seq(Batch)] /\ w = batch.w /\ w > written
  <2>1. u \in Users /\ written \in Nat /\ client.next \in Nat
    BY <1>1, <1>2, Parts DEF ClientType
  <2>2. w \in Writes
    BY <1>2, <2>1, BoundsAssumption DEF Write, Writes
  <2>3. queue \in [Users -> Seq(Batch)]
    BY <1>1 DEF TypeOK
  <2>4. batch.w = w /\ batch \in Batch
    BY <1>2, <2>1, <2>2 DEF Batch
  <2>5. w > written
    BY <1>2, <2>1
  <2> QED
    BY <2>1, <2>2, <2>3, <2>4, <2>5
<1> DEFINE pending == [v \in Users |-> Ws(queue[v])]
<1>7. \A v \in Users : \A i \in DOMAIN pending[v] : pending[v][i] # w
  <2> SUFFICES ASSUME NEW v \in Users, NEW i \in DOMAIN Ws(queue[v])
               PROVE  Ws(queue[v])[i] # w
    OBVIOUS
  <2>1. i \in 1..Len(queue[v]) /\ Ws(queue[v])[i] = queue[v][i].w
    BY <1>1, PendingWrites
  <2>2. queue[v][i].w \in 1..written
    BY <1>1, <2>1, QueuesInvOwns
  <2> QED
    BY <1>6, <2>1, <2>2
<1>8. [v \in Users |-> Ws(queue[v])]' = [pending EXCEPT ![u] = Append(@, w)]
  <2>1. ASSUME NEW v \in Users
        PROVE  Ws(queue'[v]) = IF v = u THEN Append(Ws(queue[v]), w) ELSE Ws(queue[v])
    <3>1. CASE v = u
      <4>1. queue'[v] = Append(queue[v], batch) /\ queue[v] \in Seq(Batch)
        BY <1>3, <1>6, <3>1
      <4> QED
        BY <1>6, <3>1, <4>1, WsAppend
    <3>2. CASE v # u
      BY <1>3, <1>6, <3>2
    <3> QED
      BY <3>1, <3>2
  <2>2. [v \in Users |-> Ws(queue[v])]' = [v \in Users |-> Ws(queue'[v])]
    BY DEF Ws
  <2> HIDE DEF Ws
  <2> QED
    BY <1>6, <2>1, <2>2
<1>9. PassedOf(client') = PassedOf(client) /\ RefusingOf(client') = RefusingOf(client)
  BY <1>5 DEF PassedOf, RefusingOf
<1>10. Promise!Issue(w)
  BY <1>2, <1>3, <1>4, <1>7, <1>8, <1>9, Shown DEF Promise!Issue
<1> QED
  BY <1>5, <1>6, <1>10 DEF Promise!Next

\* Without a refusal before it, an answer may follow.
LEMMA ShapedMore ==
  ASSUME NEW s \in Seq(Answer), NEW a \in Answer, Shaped(s), a.kind = "hello" <=> a.w = Hello,
         \A i \in 1..Len(s) : s[i].kind # "refused"
  PROVE  Shaped(Append(s, a))
<1> DEFINE r == Append(s, a)
<1>1. /\ Len(s) \in Nat /\ Len(r) = Len(s) + 1 /\ r[Len(s) + 1] = a
      /\ \A i \in 1..Len(s) : r[i] = s[i]
  BY AppendProperties
<1> HIDE DEF r
<1>2. \A i \in 1..Len(r) : i \in 1..Len(s) \/ i = Len(s) + 1
  BY <1>1
<1>3. \A i, j \in 1..Len(r) : i < j => i \in 1..Len(s)
  BY <1>1
<1>4. Shaped(r)
  BY <1>1, <1>2, <1>3 DEF Shaped
<1> QED
  BY <1>4 DEF r

\* The server's verdict on a write commits or refuses the next one of the queue.
LEMMA ServerPasses ==
  ASSUME ShapedInv, AnswersInv', ServerStep
  PROVE  [Promise!Next]_(Promise!vars) /\ Shaped(AnswersOf(client'))
<1>1. PICK kind \in {"hello", "committed", "refused"}, w \in {Hello} \cup Writes :
        /\ ServerReads(kind, w)
        /\ kind = "hello" => w = Hello /\ doc' = doc
        /\ kind = "committed" => w \in Writes /\ doc' = w
        /\ kind = "refused" => w \in Writes /\ doc' = doc
  BY DEF ServerStep, ServerGreets, ServerCommits, ServerRefuses, server
<1>2. AnswersInv /\ IInv /\ IInv' /\ TypeOK /\ Shaped(AnswersOf(client)) /\ queue' = queue
  BY <1>1 DEF ShapedInv, TruthInv, AnswersInv, IInv, ServerReads
<1> DEFINE s == client.call.answers
           a == [kind |-> kind, w |-> w]
           q == queue[client.user]
<1>3. /\ client.call # NoStream
      /\ w = Expected(client)[Len(s) + 1] /\ Len(s) + 1 \in 1..Len(Expected(client))
      /\ client'.call.answers = Append(s, a)
  BY <1>1, <1>2, ServerReadsAnswers
<1>4. s \in Seq(Answer) /\ Len(s) \in Nat /\ AnswersOf(client) = s /\ DOMAIN s = 1..Len(s)
  BY <1>2, <1>3, AnswerParts DEF ClientType, Call, AnswersOf
<1>5. AnswersOf(client') = Append(s, a) /\ client'.user = client.user /\ client' \in ClientType
  <2>1. client'.user = client.user /\ client'.stream = client.stream
    BY <1>1, <1>2, AnswerParts DEF ServerReads, ClientType
  <2>2. client'.call # NoStream
    BY <1>2, <1>3, <2>1 DEF AnswersInv, Tidy, Core
  <2>3. client' \in ClientType
    BY <1>2, Parts DEF IInv, TypeOK
  <2> QED
    BY <1>3, <2>1, <2>2, <2>3 DEF AnswersOf
<1>6. Hello \notin Writes /\ a \in Answer /\ a.kind = kind /\ a.w = w
  BY BoundsAssumption DEF Hello, Writes, Answer
<1> HIDE DEF a
<1>7. \A i \in 1..Len(s) : s[i].kind # "refused"
  BY <1>1, <1>4 DEF ServerReads
<1> HIDE DEF s
<1>8. ~RefusingOf(client)
  BY <1>4, <1>7 DEF RefusingOf
<1>9. Shaped(AnswersOf(client'))
  <2>1. a.kind = "hello" <=> a.w = Hello
    BY <1>1, <1>6
  <2> QED
    BY <1>2, <1>4, <1>5, <1>6, <1>7, <2>1, ShapedMore
<1>10. /\ Append(s, a) \in Seq(Answer) /\ Len(Append(s, a)) = Len(s) + 1
       /\ Append(s, a)[Len(s) + 1] = a /\ \A i \in 1..Len(s) : Append(s, a)[i] = s[i]
  BY <1>4, <1>6, AppendProperties
<1> DEFINE r == Append(s, a)
<1> HIDE DEF r
<1>11. CASE ~client.shake
  <2>1. Len(s) = 0 /\ w = Hello
    BY <1>3, <1>4, <1>11 DEF Expected, s
  <2>2. a.kind = "hello" /\ doc' = doc
    BY <1>1, <1>6, <2>1
  <2>3. \A i \in 1..Len(r) : r[i] = a
    BY <1>10, <2>1 DEF r
  <2>4. ~RefusingOf(client') /\ PassedOf(client') = 0
    <3>1. r \in Seq(Answer) /\ r = AnswersOf(client') /\ DOMAIN r = 1..Len(r) /\ 0 \in 0..Len(r)
      BY <1>5, <1>10 DEF r
    <3>2. \A i \in 1..Len(r) : r[i].kind = "committed" <=> i <= 0
      BY <2>2, <2>3
    <3>3. PassedOf(client') = 0
      BY <3>1, <3>2, CountPassed
    <3>4. ~RefusingOf(client')
      BY <2>2, <2>3, <3>1 DEF RefusingOf
    <3> QED
      BY <3>3, <3>4
  <2>5. PassedOf(client) = 0
    BY <1>4, <2>1, NothingPassed
  <2>6. RefusingOf(client') = RefusingOf(client)
    BY <1>8, <2>4 DEF RefusingOf
  <2> QED
    BY <1>2, <1>5, <1>9, <2>2, <2>4, <2>5, <2>6, Stutters
<1>12. CASE client.shake
  <2>1. /\ Len(Expected(client)) <= Len(q) /\ \A i \in 1..Len(s) : s[i].w # Hello
        /\ w = Ws(q)[Len(s) + 1] /\ Len(s) < Len(q) /\ Len(Ws(q)) = Len(q)
        /\ Ws(q)[Len(s) + 1] \in Writes
    <3>1. /\ Len(Expected(client)) <= Len(q) /\ \A i \in 1..Len(s) : s[i].w # Hello
          /\ w = Ws(q)[Len(s) + 1]
      BY <1>2, <1>3, <1>12, AnswersOfWrites DEF s
    <3>2. /\ Ws(q) \in Seq(Writes) /\ Len(Ws(q)) = Len(q) /\ Len(q) \in Nat
      BY <1>2, Parts, PendingWrites
    <3>3. Expected(client) \in Seq({Hello} \cup Writes)
      BY <1>2, AnswerParts, ExpectedType
    <3>4. Len(s) < Len(q) /\ Len(s) + 1 \in 1..Len(q)
      BY <1>3, <1>4, <3>1, <3>2, <3>3 DEF s
    <3> QED
      BY <3>1, <3>2, <3>4, ElementOfSeq
  <2>2. kind \in {"committed", "refused"} /\ w \in Writes
    BY <1>1, <1>6, <2>1
  <2>3. PassedOf(client) = Len(s) /\ \A i \in 1..Len(s) : s[i].kind = "committed"
    BY <1>2, <1>4, <1>8, <2>1, AnswerParts, Passed
  <2>4. /\ r \in Seq(Answer) /\ r = AnswersOf(client') /\ DOMAIN r = 1..Len(r)
        /\ Len(r) = Len(s) + 1 /\ r[Len(s) + 1] = a /\ \A i \in 1..Len(s) : r[i] = s[i]
        /\ \A i \in 1..Len(r) : i \in 1..Len(s) \/ i = Len(s) + 1
        /\ Len(s) \in 0..Len(r) /\ Len(r) \in 0..Len(r) /\ Len(s) + 1 \in 1..Len(r)
    BY <1>4, <1>5, <1>10 DEF r
  <2>5. client.user \in Users
    BY <1>2, Parts
  <2>6. /\ [u \in Users |-> Ws(queue[u])][client.user] = Ws(q)
        /\ [u \in Users |-> Ws(queue[u])]' = [u \in Users |-> Ws(queue[u])]
    BY <1>2, <2>5 DEF Ws
  <2>7. CASE kind = "committed"
    <3>1. \A i \in 1..Len(r) : r[i].kind = "committed"
      BY <1>6, <2>3, <2>4, <2>7
    <3>2. \A i \in 1..Len(r) : i <= Len(r)
      BY <2>4
    <3>3. PassedOf(client') = Len(r)
      BY <2>4, <3>1, <3>2, CountPassed
    <3>4. ~RefusingOf(client')
      BY <2>4, <3>1 DEF RefusingOf
    <3>5. Promise!Commit
      BY <1>1, <1>5, <1>8, <2>1, <2>3, <2>4, <2>6, <2>7, <3>3, <3>4, Shown
      DEF Promise!Commit
    <3> QED
      BY <1>9, <3>5 DEF Promise!Next
  <2>8. CASE kind = "refused"
    <3>1. \A i \in 1..Len(r) : r[i].kind = "committed" <=> i <= Len(s)
      BY <1>4, <1>6, <2>3, <2>4, <2>8
    <3>2. PassedOf(client') = Len(s)
      BY <2>4, <3>1, CountPassed
    <3>3. RefusingOf(client')
      BY <1>6, <2>4, <2>8 DEF RefusingOf
    <3>4. Promise!Refuse
      BY <1>1, <1>5, <1>8, <2>1, <2>3, <2>6, <2>8, <3>2, <3>3, Shown DEF Promise!Refuse
    <3> QED
      BY <1>9, <3>4 DEF Promise!Next
  <2> QED
    BY <2>2, <2>7, <2>8
<1> QED
  BY <1>11, <1>12

\* The front of the queue is resolved.
LEMMA FrontLeaves ==
  ASSUME AnswersInv, client.pipe # <<>>, NEW verdict, ResolveFront(client, verdict)
  PROVE  [u \in Users |-> Ws(queue[u])]' =
           [[u \in Users |-> Ws(queue[u])] EXCEPT ![client.user] = Tail(@)]
<1> DEFINE q == queue[client.user]
<1>1. /\ IInv /\ TypeOK /\ client.user \in Users /\ q \in Seq(Batch)
      /\ queue \in [Users -> Seq(Batch)]
      /\ Steady(client, q, Own(client.user))
  BY Parts DEF AnswersInv, IInv, TypeOK
<1>2. q # <<>> /\ Remove(q, Head(client.pipe).id) = Tail(q)
  BY <1>1, FrontResolvedSteady
<1>3. queue' = [queue EXCEPT ![client.user] = Tail(q)]
  BY <1>1, <1>2 DEF ResolveFront
<1>4. ASSUME NEW v \in Users
      PROVE  Ws(queue'[v]) = IF v = client.user THEN Tail(Ws(queue[v])) ELSE Ws(queue[v])
  <2>1. CASE v = client.user
    BY <1>1, <1>2, <1>3, <2>1, WsTail
  <2>2. CASE v # client.user
    BY <1>1, <1>3, <2>2
  <2> QED
    BY <2>1, <2>2
<1>5. [v \in Users |-> Ws(queue[v])]' = [v \in Users |-> Ws(queue'[v])]
  BY DEF Ws
<1> HIDE DEF Ws
<1> QED
  BY <1>1, <1>4, <1>5

\* The answer that is read confirms the oldest write.
LEMMA ResultConfirms ==
  ASSUME ShapedInv, AnswersInv', MutationResult
  PROVE  Promise!Next /\ Shaped(AnswersOf(client'))
<1> DEFINE s == client.call.answers
           r == Tail(s)
<1>1. AnswersInv /\ IInv /\ IInv' /\ Shaped(AnswersOf(client)) /\ client.user \in Users
  BY Parts DEF ShapedInv, TruthInv, AnswersInv
<1>2. /\ client.call # NoStream /\ s # <<>> /\ client.shake /\ doc' = doc
      /\ Head(s).kind \in {"hello", "committed"}
  BY DEF MutationResult, Answered, server
<1>3. /\ ResolveFront(client, "ok") /\ client'.user = client.user
      /\ client'.stream = "Open" /\ client'.call.answers = r
  BY <1>1, MutationResultAnswers
<1>4. client'.call # NoStream /\ client' \in ClientType
  BY <1>3, Parts DEF AnswersInv, Tidy, Core, IInv, TypeOK
<1>5. /\ s \in Seq(Answer) /\ s = AnswersOf(client) /\ r = AnswersOf(client')
      /\ \A i \in 1..Len(s) : s[i].w # Hello
  BY <1>1, <1>2, <1>3, <1>4, AnswersOfWrites DEF AnswersOf
<1> HIDE DEF s
<1>6. /\ r \in Seq(Answer) /\ Len(s) \in Nat /\ Len(s) >= 1 /\ Head(s) = s[1]
      /\ Len(r) = Len(s) - 1 /\ DOMAIN s = 1..Len(s) /\ DOMAIN r = 1..Len(r)
      /\ \A i \in 1..Len(r) : i + 1 \in 1..Len(s) /\ r[i] = s[i + 1]
  BY <1>2, <1>5, HeadTailProperties, EmptySeq, RestOfAnswers
<1> HIDE DEF r
<1>7. Shaped(r) /\ \A i \in 1..Len(r) : r[i].w # Hello
  <2>1. \A i \in 1..Len(r) : r[i].kind = "hello" <=> r[i].w = Hello
    BY <1>1, <1>5, <1>6 DEF Shaped
  <2>2. ASSUME NEW i \in 1..Len(r), NEW j \in 1..Len(r), i < j
        PROVE  r[i].kind # "refused"
    <3>1. i + 1 \in 1..Len(s) /\ j + 1 \in 1..Len(s) /\ i + 1 < j + 1
      BY <1>6, <2>2
    <3>2. s[i + 1].kind # "refused"
      BY <1>1, <1>5, <3>1 DEF Shaped
    <3> QED
      BY <1>6, <3>2
  <2>3. Shaped(r)
    BY <2>1, <2>2 DEF Shaped
  <2> QED
    BY <1>5, <1>6, <2>3
<1>8. s[1].kind = "committed" /\ 1 \in 1..Len(s)
  <2>1. 1 \in 1..Len(s)
    BY <1>6
  <2> QED
    BY <1>1, <1>2, <1>5, <1>6, <2>1 DEF Shaped
<1>9. RefusingOf(client') = RefusingOf(client)
  <2>1. ASSUME NEW i \in 1..Len(s), s[i].kind = "refused"
        PROVE  \E j \in 1..Len(r) : r[j].kind = "refused"
    <3>1. PICK j \in 1..Len(r) : j = i - 1
      BY <1>6, <1>8, <2>1
    <3>2. j + 1 = i
      BY <3>1
    <3> QED
      BY <1>6, <2>1, <3>2
  <2>2. ASSUME NEW j \in 1..Len(r), r[j].kind = "refused"
        PROVE  \E i \in 1..Len(s) : s[i].kind = "refused"
    BY <1>6, <2>2
  <2> QED
    BY <1>5, <1>6, <2>1, <2>2 DEF RefusingOf
<1>10. PassedOf(client) > 0 /\ PassedOf(client') = PassedOf(client) - 1
  <2>1. PassedOf(client) = IF RefusingOf(client) THEN Len(s) - 1 ELSE Len(s)
    BY <1>1, <1>5, AnswerParts, Passed
  <2>2. PassedOf(client') = IF RefusingOf(client') THEN Len(r) - 1 ELSE Len(r)
    BY <1>4, <1>5, <1>6, <1>7, Passed
  <2>3. RefusingOf(client) => Len(r) >= 1
    BY <1>5, <1>6, <1>9 DEF RefusingOf
  <2> QED
    BY <1>6, <1>9, <2>1, <2>2, <2>3
<1>11. client.pipe # <<>>
  BY <1>1, <1>2, FirstAnswer DEF s
<1>12. Promise!Confirm
  BY <1>1, <1>2, <1>3, <1>9, <1>10, <1>11, FrontLeaves, Shown DEF Promise!Confirm
<1> QED
  BY <1>5, <1>7, <1>12 DEF Promise!Next

\* A refusal is read, possibly ahead of answers that are lost: the oldest write goes.
LEMMA ErrorDrops ==
  ASSUME ShapedInv, AnswersInv', WriteError
  PROVE  Promise!Next /\ Shaped(AnswersOf(client'))
<1> DEFINE s == client.call.answers
<1>1. AnswersInv /\ IInv /\ IInv' /\ Shaped(AnswersOf(client)) /\ client.user \in Users
  BY Parts DEF ShapedInv, TruthInv, AnswersInv
<1>2. client.call # NoStream /\ doc' = doc
  BY DEF WriteError, EndsRefused, server
<1>3. /\ client'.call = NoStream
      /\ \/ UNCHANGED queue
         \/ client.shake /\ ResolveFront(client, "failed") /\ client'.user = client.user
  BY <1>1, WriteErrorAnswers
<1>4. AnswersOf(client') = <<>> /\ client'.user \in Users
  BY <1>3, Parts DEF AnswersOf, AnswersInv, IInv, TypeOK, ClientType
<1>5. CASE UNCHANGED queue
  BY <1>2, <1>4, <1>5, Restarts
<1>6. CASE client.shake /\ ResolveFront(client, "failed") /\ client'.user = client.user
  <2>1. s \in Seq(Answer) /\ s = AnswersOf(client)
    BY <1>1, <1>2, AnswerParts DEF ClientType, Call, AnswersOf
  <2>2. PICK i \in DOMAIN s : s[i].kind = "refused"
    BY DEF WriteError, EndsRefused
  <2>3. s # <<>> /\ i \in 1..Len(s)
    BY <2>1, <2>2, EmptySeq
  <2>4. client.pipe # <<>>
    BY <1>1, <1>2, <1>6, <2>3, FirstAnswer
  <2> HIDE DEF s
  <2>5. RefusingOf(client)
    BY <2>1, <2>2, <2>3 DEF RefusingOf
  <2>7. PassedOf(client') = 0 /\ ~RefusingOf(client') /\ Shaped(AnswersOf(client'))
    BY <1>4, NothingPassed
  <2>8. Promise!Drop
    BY <1>1, <1>2, <1>6, <2>4, <2>5, <2>7, FrontLeaves, Shown DEF Promise!Drop
  <2> QED
    BY <2>7, <2>8 DEF Promise!Next
<1> QED
  BY <1>3, <1>5, <1>6

\* Steps of the client that throw its answers away.
LEMMA ClientRestarts ==
  ASSUME ShapedInv, AnswersInv',
         \/ HandshakeComplete \/ HandleCredentialChange \/ Relaunch
         \/ BackoffElapsed \/ IdleTimeout \/ StreamBreaks \/ ConnectivityChanged
  PROVE  Promise!Next /\ Shaped(AnswersOf(client'))
<1>1. AnswersInv /\ IInv' /\ client'.user \in Users
  BY DEF ShapedInv, TruthInv, AnswersInv, IInv, TypeOK, ClientType
<1>2. UNCHANGED <<queue, doc>>
  BY DEF HandshakeComplete, HandleCredentialChange, Relaunch, BackoffElapsed, IdleTimeout,
         StreamBreaks, ConnectivityChanged, server
<1>3. CASE HandshakeComplete
  <2> DEFINE s == client.call.answers
  <2>1. /\ client.call # NoStream /\ s # <<>> /\ ~client.shake
        /\ client'.call.answers = Tail(s)
    BY <1>1, <1>3, HandshakeAnswers DEF HandshakeComplete, Answered
  <2>2. /\ s \in Seq(Answer) /\ client.call.requests \in Seq({Hello} \cup Writes)
        /\ Carries(client.call, <<Hello>>)
    BY <1>1, <2>1, AnswerParts DEF ClientType, Call, Match, Expected
  <2>3. Len(s) + Len(client.call.requests) = 1
    BY <2>2 DEF Carries
  <2>4. Len(client.call.requests) \in Nat
    BY <2>2
  <2> HIDE DEF s
  <2>5. Tail(s) \in Seq(Answer) /\ Len(Tail(s)) = 0
    BY <2>1, <2>2, <2>3, <2>4, HeadTailProperties, EmptySeq
  <2>6. AnswersOf(client') = <<>>
    BY <2>1, <2>5, EmptySeq DEF AnswersOf, s
  <2> QED
    BY <1>1, <1>2, <2>6, Restarts
<1>4. CASE \/ HandleCredentialChange \/ Relaunch
           \/ BackoffElapsed \/ IdleTimeout \/ StreamBreaks \/ ConnectivityChanged
  <2>1. client'.call = NoStream
    BY <1>1, <1>4, HandleCredentialChangeAnswers, RelaunchAnswers, TimersAnswers DEF Launched
  <2>2. AnswersOf(client') = <<>>
    BY <2>1 DEF AnswersOf
  <2> QED
    BY <1>1, <1>2, <2>2, Restarts
<1> QED
  BY <1>3, <1>4

\* Steps that move tokens: a token may open a call, without answers.
LEMMA TokensStutter ==
  ASSUME ShapedInv, AnswersInv',
         \/ AuthReads \/ TokenFetched \/ TokenFails \/ NoticeRuns \/ TokenCallback
         \/ CredentialsArrive
         \/ \E u \in Users : AuthChange(u)
  PROVE  [Promise!Next]_(Promise!vars) /\ Shaped(AnswersOf(client'))
<1>1. AnswersInv /\ IInv' /\ client'.user \in Users /\ Shaped(AnswersOf(client))
  BY DEF ShapedInv, TruthInv, AnswersInv, IInv, TypeOK, ClientType
<1>2. UNCHANGED <<queue, doc>>
  BY DEF AuthReads, TokenFetched, TokenFails, TokenArrives, NoticeRuns, TokenCallback,
         CredentialsArrive, AuthChange, server
<1>3. \/ client'.user = client.user /\ client'.call = client.call
      \/ AnswersOf(client') = <<>>
  <2>1. CASE AuthReads \/ TokenCallback
    <3>1. client'.call = client.call
      BY <1>1, <2>1, AuthReadsAnswers, TokenCallbackAnswers
    <3>2. client'.user = client.user
      BY <1>1, <2>1, AnswerParts DEF AuthReads, TokenCallback, ClientType
    <3> QED
      BY <3>1, <3>2
  <2>2. CASE TokenFetched \/ TokenFails \/ NoticeRuns \/ \E u \in Users : AuthChange(u)
    <3>1. UNCHANGED client
      BY <2>2 DEF TokenFetched, TokenFails, TokenArrives, NoticeRuns, AuthChange
    <3> QED
      BY <3>1
  <2>3. CASE CredentialsArrive
    BY <1>1, <2>3, CredentialsArriveAnswers DEF AnswersOf
  <2> QED
    BY <2>1, <2>2, <2>3
<1>4. CASE client'.user = client.user /\ client'.call = client.call
  <2>1. AnswersOf(client') = AnswersOf(client)
    BY <1>4 DEF AnswersOf
  <2>2. PassedOf(client') = PassedOf(client) /\ RefusingOf(client') = RefusingOf(client)
    BY <2>1 DEF PassedOf, RefusingOf
  <2> QED
    BY <1>1, <1>2, <1>4, <2>1, <2>2, Stutters
<1>5. CASE AnswersOf(client') = <<>>
  BY <1>1, <1>2, <1>5, Restarts
<1> QED
  BY <1>3, <1>4, <1>5

LEMMA PromiseNext ==
  ASSUME ShapedInv, [Next]_vars
  PROVE  [Promise!Next]_(Promise!vars) /\ ShapedInv'
<1>1. TruthInv' /\ AnswersInv' /\ TruthInv
  BY TruthNext DEF ShapedInv, TruthInv
<1>2. [Promise!Next]_(Promise!vars) /\ Shaped(AnswersOf(client'))
  <2>1. CASE UNCHANGED vars
    <3>1. client' = client /\ UNCHANGED <<queue, doc>>
      BY <2>1 DEF vars, server
    <3> QED
      BY <3>1, Stutters DEF ShapedInv
  <2>2. CASE Write
    <3>1. Promise!Next /\ AnswersOf(client') = AnswersOf(client)
      BY <1>1, <2>2, WriteIssues
    <3> QED
      BY <3>1 DEF ShapedInv
  <2>3. CASE ServerStep
    BY <1>1, <2>3, ServerPasses
  <2>4. CASE ClientStep
    BY <1>1, <2>4, ResultConfirms, ErrorDrops, ClientRestarts DEF ClientStep
  <2>5. CASE TokenStep \/ TokenFails
    BY <1>1, <2>5, TokensStutter, ClientRestarts DEF TokenStep
  <2>6. CASE StreamBreaks \/ ConnectivityChanged \/ Relaunch
    BY <1>1, <2>6, ClientRestarts
  <2>7. CASE \E u \in Users : AuthChange(u)
    BY <1>1, <2>7, TokensStutter
  <2> QED
    BY <2>1, <2>2, <2>3, <2>4, <2>5, <2>6, <2>7 DEF Next
<1>3. Shaped(AnswersOf(client))'
  BY <1>2 DEF Shaped, AnswersOf
<1> QED
  BY <1>1, <1>2, <1>3 DEF ShapedInv

LEMMA PromiseInit ==
  ASSUME Init
  PROVE  Promise!Init /\ ShapedInv
<1>1. TruthInv /\ AnswersInv /\ Launched(client)
  BY TruthInit, InitAnswers
<1>2. AnswersOf(client) = <<>> /\ client.user \in Users
  BY <1>1, Parts DEF AnswersOf, Launched, AnswersInv
<1>3. PassedOf(client) = 0 /\ ~RefusingOf(client) /\ Shaped(AnswersOf(client))
  BY <1>2, NothingPassed
<1>4. [u \in Users |-> Ws(queue[u])] = [u \in Users |-> <<>>]
  <2>1. \A u \in Users : queue[u] = <<>>
    BY DEF Init
  <2>2. Ws(<<>>) = <<>>
    BY DEF Ws
  <2> QED
    BY <2>1, <2>2
<1>5. Promise!Init
  BY <1>2, <1>3, <1>4, Shown DEF Promise!Init, Init
<1> QED
  BY <1>1, <1>3, <1>5 DEF ShapedInv

\* For every value of the constants: what the app sees of the client is WriteQueue, a
\* queue per account that outlives the app, which the server goes through from the front,
\* again from the front after every restart, and which is resolved from the front.
THEOREM KeepsThePromise == Spec => ImplementsWriteQueue
<1>1. Init => Promise!Init /\ ShapedInv
  BY PromiseInit
<1>2. ShapedInv /\ [Next]_vars => [Promise!Next]_(Promise!vars) /\ ShapedInv'
  BY PromiseNext
<1> QED
  BY <1>1, <1>2, PTL DEF Spec, ImplementsWriteQueue, Promise!Spec
=============================================================================

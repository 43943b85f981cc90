-------------------------- MODULE KbaioClientProofs --------------------------
(***************************************************************************)
(* One operation at a time for a client of the KBAIO backend, as long as   *)
(* no message is pushed to it while it waits for a request.  The reads and *)
(* writes of networking_kbaio.c share the event's type, its result and the *)
(* offset of the output; nothing but this alternation keeps them apart.    *)
(* From it follows what the peer sees: the client implements ReplyStream,  *)
(* one connection after the other.                                         *)
(***************************************************************************)
EXTENDS KbaioClient, ReplyRuns

IsOp(op) ==
  /\ op = [kind |-> op.kind, conn |-> op.conn, cells |-> op.cells, base |-> op.base,
           ret |-> op.ret]
  /\ op.kind \in {"READABLE", "WRITABLE"}

\* Nothing is in flight.
Quiet == ring = <<>> /\ cq = <<>> /\ fired = <<>>

\* One operation is, in one of the three places it goes through.
InRing(op) == ring = <<op>> /\ cq = <<>> /\ fired = <<>>
InQueue(op) == ring = <<>> /\ cq = <<op>> /\ fired = <<>>
InFired(op) == ring = <<>> /\ cq = <<>> /\ fired = <<[mask |-> op.kind, op |-> op]>>

\* What its client is like: the event is of its type, the client is not queued and not
\* about to be freed but by somebody else; a write has output, a read its place.
Carries(op) ==
  /\ IsOp(op) /\ op.conn = conn /\ evtype = op.kind /\ queued = FALSE
  /\ closing \in {"no", "killed"} /\ (freed = TRUE => closing = "killed")
  /\ op.kind = "WRITABLE" /\ freed = FALSE => buf # <<>> \/ reply # <<>>
  /\ op.kind = "READABLE" /\ freed = FALSE
       => op.base = <<qgen, Len(querybuf)>> /\ submitted > 0

InFlight(op) == (InRing(op) \/ InQueue(op) \/ InFired(op)) /\ Carries(op)

\* A client that was freed leaves the structures of the next one empty.
FreedEmpty ==
  freed = TRUE => /\ queued = FALSE /\ closing # "no"
                  /\ querybuf = <<>> /\ qgen = 0 /\ buf = <<>> /\ reply = <<>>

\* The inductive invariant.
ConversationInv ==
  /\ submitted \in Nat /\ freed \in BOOLEAN
  /\ closing \in {"no", "drained", "aborted", "killed"}
  /\ FreedEmpty
  /\ Quiet \/ \E op : InFlight(op)

\* What is in flight, as one sequence.
LEMMA OperationsAre ==
  /\ Quiet => Operations = <<>>
  /\ \A op : InRing(op) \/ InQueue(op) \/ InFired(op) => Operations = <<op>>
<1> DEFINE ops == [i \in DOMAIN fired |-> fired[i].op]
<1>1. Operations = ring \o cq \o ops
  BY DEF Operations
<1>2. fired = <<>> => ops = <<>>
  OBVIOUS
<1>3. ASSUME NEW op, InFired(op) PROVE ops = <<op>>
  <2>1. DOMAIN fired = 1..1 /\ fired[1].op = op
    BY <1>3 DEF InFired
  <2> QED
    BY <2>1
<1> HIDE DEF ops
<1>4. \A s : <<>> \o <<>> \o <<s>> = <<s>> /\ <<>> \o <<s>> \o <<>> = <<s>>
             /\ <<s>> \o <<>> \o <<>> = <<s>>
  OBVIOUS
<1>5. <<>> \o <<>> \o <<>> = <<>>
  OBVIOUS
<1> QED
  BY <1>1, <1>2, <1>3, <1>4, <1>5 DEF Quiet, InRing, InQueue, InFired

\* The operations that are prepared.
LEMMA PreparedOps ==
  /\ \A c, q, g : IsOp(ReadOp(c, q, g)) /\ ReadOp(c, q, g).kind = "READABLE"
                  /\ ReadOp(c, q, g).conn = c /\ ReadOp(c, q, g).base = <<g, Len(q)>>
  /\ \A o : IsOp(WriteOp(o)) /\ WriteOp(o).kind = "WRITABLE" /\ WriteOp(o).conn = conn
  BY DEF IsOp, ReadOp, WriteOp

\* The ring has an operation of one client only, and it is done when it completes.
LEMMA RingFacts ==
  ASSUME ConversationInv, NEW i \in DOMAIN ring, NEW n, Completes(i, n)
  PROVE  /\ i = 1 /\ InFlight(ring[1])
         /\ ring' = <<>> /\ cq' = <<[ring[1] EXCEPT !.ret = n]>> /\ cq = <<>> /\ fired = <<>>
         /\ IsOp([ring[1] EXCEPT !.ret = n])
         /\ [ring[1] EXCEPT !.ret = n].kind = ring[1].kind
         /\ [ring[1] EXCEPT !.ret = n].conn = ring[1].conn
         /\ [ring[1] EXCEPT !.ret = n].base = ring[1].base
<1>1. PICK op : InFlight(op)
  BY DEF ConversationInv, Quiet
<1>2. ring = <<op>> /\ i = 1 /\ ring[1] = op /\ cq = <<>> /\ fired = <<>> /\ IsOp(op)
  BY <1>1 DEF InFlight, InRing, InQueue, InFired, Carries
<1>3. ring' = <<>>
  <2>1. SubSeq(<<op>>, 1, 0) \o SubSeq(<<op>>, 2, 1) = <<>>
    OBVIOUS
  <2> QED
    BY <1>2, <2>1 DEF Completes, RemoveAt
<1>4. cq' = <<[op EXCEPT !.ret = n]>>
  BY <1>2 DEF Completes
<1>5. [op EXCEPT !.ret = n]
        = [kind |-> op.kind, conn |-> op.conn, cells |-> op.cells, base |-> op.base, ret |-> n]
  BY <1>2 DEF IsOp
<1> QED
  BY <1>1, <1>2, <1>3, <1>4, <1>5 DEF IsOp

\* Steps of the peer, and others that change nothing the invariant reads.
LEMMA SameConversation ==
  ASSUME ConversationInv,
         UNCHANGED <<buf, reply, querybuf, qgen, submitted, queued, lifevars, evtype, ring,
                     cq, fired>>
  PROVE  ConversationInv'
<1>1. UNCHANGED <<conn, freed, closing>>
  BY DEF lifevars
<1>2. FreedEmpty' /\ (Quiet => Quiet')
  BY <1>1 DEF ConversationInv, FreedEmpty, Quiet
<1>3. ASSUME NEW op, InFlight(op) PROVE InFlight(op)'
  BY <1>1, <1>3 DEF InFlight, InRing, InQueue, InFired, Carries
<1> QED
  BY <1>1, <1>2, <1>3 DEF ConversationInv

\* An operation executes or fails: it goes from the ring to the queue.
LEMMA CompletesKeeps ==
  ASSUME ConversationInv, NEW i \in DOMAIN ring, NEW n, Completes(i, n),
         UNCHANGED <<buf, reply, querybuf, qgen, submitted, queued, lifevars, evtype, fired>>
  PROVE  ConversationInv'
<1> DEFINE op == ring[1]
<1>1. PICK done : done = [ring[1] EXCEPT !.ret = n]
  OBVIOUS
<1>2. /\ InFlight(op) /\ IsOp(done) /\ done.kind = op.kind /\ done.conn = op.conn
      /\ done.base = op.base /\ ring' = <<>> /\ cq' = <<done>> /\ fired = <<>>
  BY <1>1, RingFacts
<1> HIDE DEF op
<1>3. UNCHANGED <<conn, freed, closing>>
  BY DEF lifevars
<1>4. Carries(op)
  BY <1>2 DEF InFlight
<1>5. Carries(done)'
  BY <1>2, <1>3, <1>4 DEF Carries
<1>6. InQueue(done)'
  BY <1>2 DEF InQueue
<1> QED
  BY <1>3, <1>5, <1>6 DEF ConversationInv, FreedEmpty, InFlight

\* aeApiPoll() gives the operation the type of the event, which is its own.
LEMMA PollKeeps ==
  ASSUME ConversationInv, Poll
  PROVE  ConversationInv'
<1>1. PICK op : InFlight(op) /\ cq = <<op>> /\ ring = <<>>
  BY DEF Poll, ConversationInv, Quiet, InFlight, InRing, InQueue, InFired
<1>2. Carries(op)
  BY <1>1 DEF InFlight
<1>3. UNCHANGED <<buf, reply, querybuf, qgen, submitted, queued, conn, freed, closing, evtype,
                  ring>> /\ cq' = <<>>
  BY DEF Poll, outvars, queryvars, lifevars
<1>4. fired' = <<[mask |-> op.kind, op |-> op]>>
  <2>1. fired' = [i \in DOMAIN cq |-> [mask |-> evtype, op |-> cq[i]]]
    BY DEF Poll
  <2>2. DOMAIN cq = 1..1 /\ cq[1] = op
    BY <1>1
  <2> QED
    BY <1>2, <2>1, <2>2 DEF Carries
<1>5. Carries(op)'
  BY <1>2, <1>3 DEF Carries
<1>6. InFired(op)'
  BY <1>1, <1>3, <1>4 DEF InFired
<1> QED
  BY <1>3, <1>5, <1>6 DEF ConversationInv, FreedEmpty, InFlight


\* The completion handlers: the operation has been taken out when they run, and they
\* prepare at most one.  A handler that asks to free the client prepares none.
LEMMA DispatchKeeps ==
  ASSUME ConversationInv, Dispatch
  PROVE  ConversationInv'
<1>1. PICK op : InFlight(op) /\ InFired(op) /\ Carries(op)
  BY DEF Dispatch, ConversationInv, Quiet, InFlight, InRing, InQueue
<1>2. Head(fired).mask = op.kind /\ Tail(fired) = <<>>
  BY <1>1 DEF InFired
<1>3. ring = <<>> /\ cq' = <<>> /\ fired' = <<>> /\ conn' = conn /\ freed' = freed
      /\ freed = FALSE
  BY <1>1, <1>2 DEF InFired, Dispatch, ConversationInv
<1>4. /\ submitted \in Nat /\ closing \in {"no", "killed"} /\ queued = FALSE
      /\ op.kind = "READABLE" => submitted > 0
  BY <1>1, <1>3 DEF Carries, ConversationInv
<1>5. FreedEmpty'
  BY <1>3 DEF FreedEmpty
<1>6. CASE op.kind = "READABLE" /\ ReadDone
  <2>1. Quiet'
    BY <1>3, <1>6 DEF Quiet, ReadDone, AfterRead, NothingPrepared
  <2>2. submitted' \in Nat
    BY <1>4, <1>6 DEF ReadDone, queryvars
  <2>3. closing' \in {"no", "drained", "aborted", "killed"}
    BY <1>4, <1>6 DEF ReadDone, FreeAsync
  <2> QED
    BY <1>3, <1>5, <2>1, <2>2, <2>3 DEF ConversationInv
<1>7. CASE op.kind = "WRITABLE" /\ WriteDone
  <2> DEFINE o == Ack(Out, res)
  <2>1. querybuf' = querybuf /\ qgen' = qgen /\ queued' = FALSE
    BY <1>4, <1>7 DEF WriteDone
  <2>2. CASE NothingPrepared /\ UNCHANGED <<submitted, closing>>
    <3>1. Quiet'
      BY <1>3, <2>2 DEF Quiet, NothingPrepared
    <3> QED
      BY <1>3, <1>4, <1>5, <2>2, <3>1 DEF ConversationInv
  <2>3. CASE HasPending(o) /\ SetOut(o) /\ WriteToClient(o) /\ UNCHANGED <<submitted, closing>>
    <3>1. Prepare(WriteOp(o)) /\ buf' = o.buf /\ reply' = o.reply
      BY <2>3 DEF WriteToClient, SetOut
    <3>2. \E w : InFlight(w)'
      <4> HIDE DEF o
      <4>2. ring' = <<WriteOp(o)>> /\ evtype' = WriteOp(o).kind
        BY <1>3, <3>1 DEF Prepare
      <4>3. PICK w : w = WriteOp(o)
        OBVIOUS
      <4>4. IsOp(w) /\ w.kind = "WRITABLE" /\ w.conn = conn
        BY <4>3, PreparedOps
      <4>5. InRing(w)' /\ Carries(w)'
        BY <1>3, <1>4, <2>1, <2>3, <3>1, <4>2, <4>3, <4>4 DEF InRing, Carries, HasPending
      <4> QED
        BY <4>5 DEF InFlight
    <3> QED
      BY <1>3, <1>4, <1>5, <2>3, <3>2 DEF ConversationInv
  <2>4. CASE closing' = CloseWhenDrained
             /\ IF ReadsOn THEN SetCreateReadEvent ELSE NothingPrepared /\ UNCHANGED submitted
    <3>1. CASE ReadsOn
      <4>1. closing' = closing /\ SetCreateReadEvent
        BY <2>4, <3>1 DEF ReadsOn, CloseWhenDrained
      <4>2. submitted' = submitted + 1
        BY <4>1 DEF SetCreateReadEvent
      <4>3. submitted' \in Nat /\ submitted' > 0
        BY <1>4, <4>2
      <4>4. \E r : InFlight(r)'
        <5>1. PICK r : r = ReadOp(conn, querybuf, qgen)
          OBVIOUS
        <5>2. IsOp(r) /\ r.kind = "READABLE" /\ r.conn = conn /\ r.base = <<qgen, Len(querybuf)>>
          BY <5>1, PreparedOps
        <5>3. ring' = <<r>> /\ evtype' = r.kind
          BY <1>3, <4>1, <5>1 DEF SetCreateReadEvent, Prepare
        <5>4. InRing(r)' /\ Carries(r)'
          BY <1>3, <1>4, <2>1, <4>1, <4>3, <5>2, <5>3 DEF InRing, Carries
        <5> QED
          BY <5>4 DEF InFlight
      <4> QED
        BY <1>3, <1>4, <1>5, <4>1, <4>3, <4>4 DEF ConversationInv
    <3>2. CASE ~ReadsOn
      <4>1. Quiet' /\ submitted' = submitted
        BY <1>3, <2>4, <3>2 DEF Quiet, NothingPrepared
      <4>2. closing' \in {"no", "drained", "aborted", "killed"}
        BY <1>4, <2>4 DEF CloseWhenDrained, FreeAsync
      <4> QED
        BY <1>3, <1>4, <1>5, <4>1, <4>2 DEF ConversationInv
    <3> QED
      BY <3>1, <3>2
  <2> QED
    BY <1>7, <2>2, <2>3, <2>4 DEF WriteDone
<1> QED
  BY <1>1, <1>2, <1>6, <1>7 DEF Dispatch, Carries, IsOp

\* A client that is queued has nothing in flight.
LEMMA FlushKeeps ==
  ASSUME ConversationInv, FlushPendingWrites
  PROVE  ConversationInv'
<1>1. Quiet
  BY DEF FlushPendingWrites, ConversationInv, InFlight, Carries
<1>2. /\ UNCHANGED <<buf, reply, querybuf, qgen, submitted, conn, freed, closing, cq, fired>>
      /\ queued' = FALSE /\ freed = FALSE
  BY DEF FlushPendingWrites, outvars, queryvars, lifevars, loopvars, ConversationInv
<1>3. FreedEmpty'
  BY <1>2 DEF FreedEmpty
<1>4. CASE NothingPrepared
  <2>1. Quiet'
    BY <1>1, <1>2, <1>4 DEF Quiet, NothingPrepared
  <2> QED
    BY <1>2, <1>3, <2>1 DEF ConversationInv
<1>5. CASE closing = "no" /\ HasPending(Out) /\ Prepare(WriteOp(Out))
  <2>1. PICK o : o = Out
    OBVIOUS
  <2>2. o.buf = buf /\ o.reply = reply
    BY <2>1 DEF Out
  <2>3. \E w : InFlight(w)'
    <3>1. PICK w : w = WriteOp(Out)
      OBVIOUS
    <3>2. IsOp(w) /\ w.kind = "WRITABLE" /\ w.conn = conn
      BY <3>1, PreparedOps
    <3>3. ring' = <<w>> /\ evtype' = w.kind /\ cq' = <<>> /\ fired' = <<>>
      BY <1>1, <1>2, <1>5, <3>1 DEF Prepare, Quiet
    <3>4. buf # <<>> \/ reply # <<>>
      BY <1>5, <2>1, <2>2 DEF HasPending
    <3>5. InRing(w)' /\ Carries(w)'
      BY <1>2, <1>5, <3>2, <3>3, <3>4 DEF InRing, Carries
    <3> QED
      BY <3>5 DEF InFlight
  <2> QED
    BY <1>2, <1>3, <2>3 DEF ConversationInv
<1> QED
  BY <1>4, <1>5 DEF FlushPendingWrites, WriteToClient

\* A message for a client that has no read in flight.  A write that is in flight has
\* output, so the client is not queued.
LEMMA PushKeeps ==
  ASSUME ConversationInv, Push, Pushes = FALSE
  PROVE  ConversationInv'
<1>1. /\ UNCHANGED <<querybuf, qgen, submitted, conn, freed, closing, evtype, ring, cq, fired>>
      /\ freed = FALSE /\ closing = "no" /\ ~ReadInFlight
      /\ queued' = (queued \/ ~(buf # <<>> \/ reply # <<>>))
      /\ SetOut(AddUnit(Out, produced + 1))
  BY DEF Push, queryvars, lifevars, loopvars, MustQueue, HasPending, Out, ConversationInv
<1>2. buf # <<>> \/ reply # <<>> => buf' # <<>> \/ reply' # <<>>
  <2>1. PICK o : o = Out
    OBVIOUS
  <2>2. o = [buf |-> buf, reply |-> reply, sentlen |-> sentlen, tot |-> totwritten]
    BY <2>1 DEF Out
  <2> QED
    BY <1>1 DEF SetOut, AddUnit, Out
<1>3. FreedEmpty'
  BY <1>1 DEF FreedEmpty
<1>4. CASE Quiet
  BY <1>1, <1>3, <1>4 DEF ConversationInv, Quiet
<1>5. CASE \E op : InFlight(op)
  <2>1. PICK op : InFlight(op)
    BY <1>5
  <2>2. Operations = <<op>>
    BY <2>1, OperationsAre DEF InFlight
  <2>3. op.kind = "WRITABLE"
    <3>1. op.kind # "READABLE"
      BY <1>1, <2>2 DEF ReadInFlight
    <3> QED
      BY <2>1, <3>1 DEF InFlight, Carries, IsOp
  <2>4. queued' = FALSE
    BY <1>1, <2>1, <2>3 DEF InFlight, Carries
  <2>5. Carries(op)'
    BY <1>1, <1>2, <2>1, <2>3, <2>4 DEF InFlight, Carries
  <2>6. (InRing(op) \/ InQueue(op) \/ InFired(op))'
    BY <1>1, <2>1 DEF InFlight, InRing, InQueue, InFired
  <2> QED
    BY <1>1, <1>3, <2>5, <2>6 DEF ConversationInv, InFlight
<1> QED
  BY <1>4, <1>5 DEF ConversationInv


\* clientsCronResizeQueryBuffer() moves the buffer only when no read is in flight.
LEMMA ResizeKeeps ==
  ASSUME ConversationInv, ResizeQueryBuffer
  PROVE  ConversationInv'
<1>1. /\ UNCHANGED <<buf, reply, querybuf, submitted, queued, conn, freed, closing, evtype,
                     ring, cq, fired>>
      /\ submitted = 0 /\ freed = FALSE
  BY DEF ResizeQueryBuffer, ResizeAllowed, outvars, lifevars, loopvars, ConversationInv
<1>2. FreedEmpty' /\ (Quiet => Quiet')
  BY <1>1 DEF FreedEmpty, Quiet
<1>3. ASSUME NEW op, InFlight(op) PROVE InFlight(op)'
  <2>1. op.kind # "READABLE"
    BY <1>1, <1>3 DEF InFlight, Carries
  <2> QED
    BY <1>1, <1>3, <2>1 DEF InFlight, InRing, InQueue, InFired, Carries
<1> QED
  BY <1>1, <1>2, <1>3 DEF ConversationInv

\* CLIENT KILL and the like: the operation in flight stays.
LEMMA KillKeeps ==
  ASSUME ConversationInv, KillClient
  PROVE  ConversationInv'
<1>1. /\ UNCHANGED <<buf, reply, querybuf, qgen, submitted, queued, conn, freed, evtype, ring,
                     cq, fired>>
      /\ closing' = "killed" /\ freed = FALSE
  BY DEF KillClient, outvars, queryvars, loopvars, ConversationInv
<1>2. FreedEmpty' /\ (Quiet => Quiet')
  BY <1>1 DEF FreedEmpty, Quiet
<1>3. ASSUME NEW op, InFlight(op) PROVE InFlight(op)'
  BY <1>1, <1>3 DEF InFlight, InRing, InQueue, InFired, Carries
<1> QED
  BY <1>1, <1>2, <1>3 DEF ConversationInv

\* freeClient(): an operation that is still in flight is one of a client that was killed.
LEMMA FreeKeeps ==
  ASSUME ConversationInv, FreeClientsInAsyncFreeQueue
  PROVE  ConversationInv'
<1>1. /\ UNCHANGED <<conn, closing, evtype, ring, cq, fired>>
      /\ queued' = FALSE /\ freed' = TRUE /\ closing # "no" /\ submitted' = 0
      /\ querybuf' = <<>> /\ qgen' = 0 /\ buf' = <<>> /\ reply' = <<>>
  BY DEF FreeClientsInAsyncFreeQueue, loopvars
<1>2. FreedEmpty' /\ (Quiet => Quiet')
  BY <1>1 DEF FreedEmpty, Quiet
<1>3. ASSUME NEW op, InFlight(op) PROVE InFlight(op)'
  BY <1>1, <1>3 DEF InFlight, InRing, InQueue, InFired, Carries
<1> QED
  BY <1>1, <1>2, <1>3 DEF ConversationInv

\* The next connection on the descriptor begins with a read of its own.
LEMMA AcceptKeeps ==
  ASSUME ConversationInv, Accept
  PROVE  ConversationInv'
<1>1. freed = TRUE /\ Quiet
  <2>1. Operations = <<>> /\ freed = TRUE
    BY DEF Accept, ConversationInv
  <2>2. \A op : ~ InFlight(op)
    <3>1. ASSUME NEW op, InFlight(op) PROVE FALSE
      <4>1. Operations = <<op>>
        BY <3>1, OperationsAre DEF InFlight
      <4> QED
        BY <2>1, <4>1
    <3> QED
      BY <3>1
  <2> QED
    BY <2>1, <2>2 DEF ConversationInv
<1>2. /\ conn' = conn + 1 /\ freed' = FALSE /\ closing' = "no" /\ submitted' = 1
      /\ Prepare(ReadOp(conn + 1, <<>>, 0))
      /\ querybuf' = <<>> /\ qgen' = 0 /\ queued' = FALSE /\ cq' = <<>> /\ fired' = <<>>
  BY <1>1 DEF Accept, loopvars, ConversationInv, FreedEmpty, Quiet
<1>3. PICK r : r = ReadOp(conn + 1, <<>>, 0)
  OBVIOUS
<1>4. IsOp(r) /\ r.kind = "READABLE" /\ r.conn = conn + 1 /\ r.base = <<0, Len(<<>>)>>
  BY <1>3, PreparedOps
<1>5. ring' = <<r>> /\ evtype' = r.kind
  BY <1>1, <1>2, <1>3 DEF Prepare, Quiet
<1>6. InRing(r)' /\ Carries(r)'
  BY <1>2, <1>4, <1>5 DEF InRing, Carries
<1> QED
  BY <1>2, <1>6 DEF ConversationInv, FreedEmpty, InFlight

\* The first connection was accepted in the same way.
LEMMA ConversationInit == Init => ConversationInv
<1> SUFFICES ASSUME Init PROVE ConversationInv
  OBVIOUS
<1>1. PICK r : r = ReadOp(1, <<>>, 0)
  OBVIOUS
<1>2. IsOp(r) /\ r.kind = "READABLE" /\ r.conn = 1 /\ r.base = <<0, Len(<<>>)>>
  BY <1>1, PreparedOps
<1>3. InRing(r) /\ Carries(r)
  BY <1>1, <1>2 DEF Init, InRing, Carries
<1> QED
  BY <1>3 DEF Init, ConversationInv, FreedEmpty, InFlight

\* Every step keeps the invariant, if no message is pushed to a client that is waiting.
LEMMA ConversationStep ==
  ASSUME Pushes = FALSE
  PROVE  ConversationInv /\ [Next]_vars => ConversationInv'
<1> SUFFICES ASSUME ConversationInv, [Next]_vars PROVE ConversationInv'
  OBVIOUS
<1>1. CASE Poll
  BY <1>1, PollKeeps
<1>2. CASE Dispatch
  BY <1>2, DispatchKeeps
<1>3. CASE FlushPendingWrites
  BY <1>3, FlushKeeps
<1>4. CASE Push
  BY <1>4, PushKeeps
<1>5. CASE ResizeQueryBuffer
  BY <1>5, ResizeKeeps
<1>6. CASE KillClient
  BY <1>6, KillKeeps
<1>7. CASE FreeClientsInAsyncFreeQueue
  BY <1>7, FreeKeeps
<1>8. CASE Accept
  BY <1>8, AcceptKeeps
<1>9. ASSUME NEW i \in DOMAIN ring, RingRead(i) PROVE ConversationInv'
  <2>1. UNCHANGED <<buf, reply, querybuf, qgen, submitted, queued, lifevars, evtype, fired>>
    BY <1>9 DEF RingRead, outvars, queryvars, loopvars
  <2>2. \E n : Completes(i, n)
    BY <1>9 DEF RingRead
  <2> QED
    BY <2>1, <2>2, CompletesKeeps
<1>10. ASSUME NEW i \in DOMAIN ring, RingWrite(i) PROVE ConversationInv'
  <2>1. UNCHANGED <<buf, reply, querybuf, qgen, submitted, queued, lifevars, evtype, fired>>
    BY <1>10 DEF RingWrite, outvars, queryvars, loopvars
  <2>2. \E n : Completes(i, n)
    BY <1>10 DEF RingWrite
  <2> QED
    BY <2>1, <2>2, CompletesKeeps
<1>11. ASSUME NEW i \in DOMAIN ring, RingFail(i) PROVE ConversationInv'
  <2>1. UNCHANGED <<buf, reply, querybuf, qgen, submitted, queued, lifevars, evtype, fired>>
    BY <1>11 DEF RingFail, outvars, queryvars, loopvars
  <2>2. Completes(i, -1)
    BY <1>11 DEF RingFail
  <2> QED
    BY <2>1, <2>2, CompletesKeeps
<1>12. CASE PeerSend \/ PeerRead \/ PeerClose \/ UNCHANGED vars
  <2>1. UNCHANGED <<buf, reply, querybuf, qgen, submitted, queued, lifevars, evtype, ring,
                    cq, fired>>
    BY <1>12 DEF PeerSend, PeerRead, PeerClose, vars, outvars, queryvars, loopvars
  <2> QED
    BY <2>1, SameConversation
<1> QED
  BY <1>1, <1>2, <1>3, <1>4, <1>5, <1>6, <1>7, <1>8, <1>9, <1>10, <1>11, <1>12 DEF Next

\* ConversationInv in every reachable state.
LEMMA ConversationInvariant ==
  ASSUME Pushes = FALSE
  PROVE  Spec => []ConversationInv
<1>1. ConversationInv /\ [Next]_vars => ConversationInv'
  BY ConversationStep
<1> QED
  BY <1>1, ConversationInit, PTL DEF Spec

\* What follows of the operations in every state of the invariant.
LEMMA OperationFacts ==
  ASSUME ConversationInv
  PROVE  \/ Operations = <<>> /\ fired = <<>>
         \/ \E op : /\ Operations = <<op>> /\ Carries(op)
                    /\ fired = <<>> \/ fired = <<[mask |-> op.kind, op |-> op]>>
<1>1. CASE Quiet
  BY <1>1, OperationsAre DEF Quiet
<1>2. ASSUME NEW op, InFlight(op)
      PROVE  /\ Operations = <<op>> /\ Carries(op)
             /\ fired = <<>> \/ fired = <<[mask |-> op.kind, op |-> op]>>
  BY <1>2, OperationsAre DEF InFlight, InRing, InQueue, InFired
<1> QED
  BY <1>1, <1>2 DEF ConversationInv

\* Between preparation and dispatch a client has one operation at the most.
THEOREM SingleOperation ==
  ASSUME Pushes = FALSE
  PROVE  Spec => []OneOperation
<1>1. ConversationInv => OneOperation
  <2> SUFFICES ASSUME ConversationInv PROVE Len(Operations) <= 1
    BY DEF OneOperation
  <2>1. Operations = <<>> \/ \E op : Operations = <<op>>
    BY OperationFacts
  <2> QED
    BY <2>1
<1> QED
  BY <1>1, ConversationInvariant, PTL

\* An operation completes for the connection that prepared it, although closing a
\* descriptor does not look at the ring.
THEOREM CompletionAlwaysOwned ==
  ASSUME Pushes = FALSE
  PROVE  Spec => []CompletionOwned
<1>1. ConversationInv => CompletionOwned
  <2> SUFFICES ASSUME ConversationInv, closing # "killed", NEW i \in DOMAIN Operations
               PROVE  Operations[i].conn = conn /\ ~freed
    BY DEF CompletionOwned, Own
  <2>1. PICK op : Operations = <<op>> /\ Carries(op)
    BY OperationFacts
  <2>2. Operations[i] = op
    BY <2>1
  <2> QED
    BY <2>1, <2>2 DEF Carries, ConversationInv
<1> QED
  BY <1>1, ConversationInvariant, PTL

\* What submitted_query is for: no read completes into a buffer that has moved or grown.
THEOREM ReadsIntoPlace ==
  ASSUME Pushes = FALSE
  PROVE  Spec => []QueryBufferStable
<1>1. ConversationInv => QueryBufferStable
  <2> SUFFICES ASSUME ConversationInv, NEW i \in DOMAIN Operations, Own(Operations[i]),
                      Operations[i].kind = "READABLE"
               PROVE  Operations[i].base = <<qgen, Len(querybuf)>> /\ submitted > 0
    BY DEF QueryBufferStable
  <2>1. PICK op : Operations = <<op>> /\ Carries(op)
    BY OperationFacts
  <2>2. Operations[i] = op
    BY <2>1
  <2> QED
    BY <2>1, <2>2 DEF Carries, Own, ConversationInv
<1> QED
  BY <1>1, ConversationInvariant, PTL

AddUnitAll(start, q) == FoldLeft(AddUnit, start, q)

AddUnitStates(g, start, n, q) ==
  /\ g[0] = start /\ \A k \in 1..n : g[k] = AddUnit(g[k - 1], q[k])
  /\ AddUnitAll(start, q) = g[n]

\* aeApiPoll() fires an event as what its operation was: the run KbaioPush shows that it
\* does not when messages are pushed.
THEOREM FiresAsOperation ==
  ASSUME Pushes = FALSE
  PROVE  Spec => []FiredMatchesOperation
<1>1. ConversationInv => FiredMatchesOperation
  <2> SUFFICES ASSUME ConversationInv, NEW i \in DOMAIN fired
               PROVE  fired[i].mask = fired[i].op.kind
    BY DEF FiredMatchesOperation
  <2>1. PICK op : fired = <<[mask |-> op.kind, op |-> op]>>
    BY OperationFacts
  <2> QED
    BY <2>1
<1> QED
  BY <1>1, ConversationInvariant, PTL
\* AddUnits() takes one unit after the other: the fold, defined by recursion over sets of
\* positions, has a solution and goes through the states g.
LEMMA AddUnitFold ==
  ASSUME NEW start, NEW n \in Nat, NEW q, DOMAIN q = 1..n
  PROVE  \E g : AddUnitStates(g, start, n, q)
<1> DEFINE Step(f, s) == IF s = {} THEN start ELSE AddUnit(f[s \ {Max(s)}], q[Max(s)])
           Solves(f, D) == f = [s \in SUBSET D |-> Step(f, s)]
           M == {k \in Nat : \E f : Solves(f, 1..k)}
           iter == CHOOSE f : Solves(f, 1..n)
<1>1. AddUnitAll(start, q) = iter[1..n]
  BY DEF AddUnitAll, FoldLeft, MapThenFoldSet
<1>2. 0 \in M
  <2> DEFINE f == [s \in SUBSET (1..0) |-> start]
  <2>1. \A s \in SUBSET (1..0) : s = {}
    OBVIOUS
  <2>2. Solves(f, 1..0)
    BY <2>1
  <2> QED
    BY <2>2
<1>3. ASSUME NEW k \in M PROVE k + 1 \in M
  <2>1. PICK f : Solves(f, 1..k)
    OBVIOUS
  <2> DEFINE m == k + 1
             h == [s \in SUBSET (1..m) |-> IF m \in s THEN AddUnit(f[s \ {m}], q[m]) ELSE f[s]]
  <2>2. ASSUME NEW s \in SUBSET (1..m) PROVE h[s] = Step(h, s)
    <3>1. CASE m \in s
      <4>1. Max(s) = m
        <5>1. \A y \in s : m >= y
          OBVIOUS
        <5>2. \A x \in s : (\A y \in s : x >= y) => x = m
          BY <3>1, <5>1
        <5> QED
          BY <3>1, <5>1, <5>2 DEF Max
      <4>2. s \ {m} \in SUBSET (1..m) /\ m \notin s \ {m}
        OBVIOUS
      <4>3. h[s \ {m}] = f[s \ {m}]
        BY <4>2
      <4> QED
        BY <3>1, <4>1, <4>3
    <3>2. CASE m \notin s
      <4>1. s \in SUBSET (1..k)
        BY <3>2
      <4>2. h[s] = f[s] /\ f[s] = Step(f, s)
        BY <2>1, <3>2, <4>1
      <4>3. CASE s = {}
        BY <4>2, <4>3
      <4>4. CASE s # {}
        <5>1. s \ {Max(s)} \in SUBSET (1..m) /\ m \notin s \ {Max(s)}
          BY <3>2
        <5>2. h[s \ {Max(s)}] = f[s \ {Max(s)}]
          BY <5>1
        <5> QED
          BY <4>2, <4>4, <5>2
      <4> QED
        BY <4>3, <4>4
    <3> QED
      BY <3>1, <3>2
  <2>3. Solves(h, 1..m)
    BY <2>2
  <2>4. k + 1 \in Nat
    OBVIOUS
  <2> HIDE DEF h
  <2> QED
    BY <2>3, <2>4
<1>4. n \in M
  <2>1. M \in SUBSET Nat /\ \A k \in M : k + 1 \in M
    BY <1>3
  <2> HIDE DEF M
  <2> QED
    BY <1>2, <2>1, SetInduction
<1>5. Solves(iter, 1..n)
  <2>1. \E f : Solves(f, 1..n)
    BY <1>4
  <2> HIDE DEF Solves
  <2> QED
    BY <2>1
<1> DEFINE g == [k \in 0..n |-> iter[1..k]]
<1> HIDE DEF iter
<1>6. ASSUME NEW k \in 1..n PROVE g[k] = AddUnit(g[k - 1], q[k])
  <2>1. 1..k \in SUBSET (1..n) /\ 1..k # {} /\ k \in 1..k /\ \A y \in 1..k : k >= y
    OBVIOUS
  <2>2. Max(1..k) = k
    <3>1. \A x \in 1..k : (\A y \in 1..k : x >= y) => x = k
      BY <2>1
    <3> QED
      BY <2>1, <3>1 DEF Max
  <2>3. (1..k) \ {k} = 1..(k - 1) /\ k \in 0..n /\ k - 1 \in 0..n
    OBVIOUS
  <2>4. iter[1..k] = AddUnit(iter[1..(k - 1)], q[k])
    BY <1>5, <2>1, <2>2, <2>3
  <2> QED
    BY <2>3, <2>4
<1>7. g[0] = start /\ g[n] = iter[1..n]
  <2>1. 1..0 = {} /\ {} \in SUBSET (1..n) /\ 0 \in 0..n /\ n \in 0..n
    OBVIOUS
  <2>2. iter[{}] = start
    BY <1>5, <2>1
  <2> QED
    BY <2>1, <2>2
<1> HIDE DEF g
<1> QED
  BY <1>1, <1>6, <1>7 DEF AddUnitStates


ExecuteAll(start, q) == FoldLeft(Execute, start, q)

ExecuteStates(g, start, n, q) ==
  /\ g[0] = start /\ \A k \in 1..n : g[k] = Execute(g[k - 1], q[k])
  /\ ExecuteAll(start, q) = g[n]

\* processInputBuffer() takes one request after the other, in the same way.
LEMMA ExecuteFold ==
  ASSUME NEW start, NEW n \in Nat, NEW q, DOMAIN q = 1..n
  PROVE  \E g : ExecuteStates(g, start, n, q)
<1> DEFINE Step(f, s) == IF s = {} THEN start ELSE Execute(f[s \ {Max(s)}], q[Max(s)])
           Solves(f, D) == f = [s \in SUBSET D |-> Step(f, s)]
           M == {k \in Nat : \E f : Solves(f, 1..k)}
           iter == CHOOSE f : Solves(f, 1..n)
<1>1. ExecuteAll(start, q) = iter[1..n]
  BY DEF ExecuteAll, FoldLeft, MapThenFoldSet
<1>2. 0 \in M
  <2> DEFINE f == [s \in SUBSET (1..0) |-> start]
  <2>1. \A s \in SUBSET (1..0) : s = {}
    OBVIOUS
  <2>2. Solves(f, 1..0)
    BY <2>1
  <2> QED
    BY <2>2
<1>3. ASSUME NEW k \in M PROVE k + 1 \in M
  <2>1. PICK f : Solves(f, 1..k)
    OBVIOUS
  <2> DEFINE m == k + 1
             h == [s \in SUBSET (1..m) |-> IF m \in s THEN Execute(f[s \ {m}], q[m]) ELSE f[s]]
  <2>2. ASSUME NEW s \in SUBSET (1..m) PROVE h[s] = Step(h, s)
    <3>1. CASE m \in s
      <4>1. Max(s) = m
        <5>1. \A y \in s : m >= y
          OBVIOUS
        <5>2. \A x \in s : (\A y \in s : x >= y) => x = m
          BY <3>1, <5>1
        <5> QED
          BY <3>1, <5>1, <5>2 DEF Max
      <4>2. s \ {m} \in SUBSET (1..m) /\ m \notin s \ {m}
        OBVIOUS
      <4>3. h[s \ {m}] = f[s \ {m}]
        BY <4>2
      <4> QED
        BY <3>1, <4>1, <4>3
    <3>2. CASE m \notin s
      <4>1. s \in SUBSET (1..k)
        BY <3>2
      <4>2. h[s] = f[s] /\ f[s] = Step(f, s)
        BY <2>1, <3>2, <4>1
      <4>3. CASE s = {}
        BY <4>2, <4>3
      <4>4. CASE s # {}
        <5>1. s \ {Max(s)} \in SUBSET (1..m) /\ m \notin s \ {Max(s)}
          BY <3>2
        <5>2. h[s \ {Max(s)}] = f[s \ {Max(s)}]
          BY <5>1
        <5> QED
          BY <4>2, <4>4, <5>2
      <4> QED
        BY <4>3, <4>4
    <3> QED
      BY <3>1, <3>2
  <2>3. Solves(h, 1..m)
    BY <2>2
  <2>4. k + 1 \in Nat
    OBVIOUS
  <2> HIDE DEF h
  <2> QED
    BY <2>3, <2>4
<1>4. n \in M
  <2>1. M \in SUBSET Nat /\ \A k \in M : k + 1 \in M
    BY <1>3
  <2> HIDE DEF M
  <2> QED
    BY <1>2, <2>1, SetInduction
<1>5. Solves(iter, 1..n)
  <2>1. \E f : Solves(f, 1..n)
    BY <1>4
  <2> HIDE DEF Solves
  <2> QED
    BY <2>1
<1> DEFINE g == [k \in 0..n |-> iter[1..k]]
<1> HIDE DEF iter
<1>6. ASSUME NEW k \in 1..n PROVE g[k] = Execute(g[k - 1], q[k])
  <2>1. 1..k \in SUBSET (1..n) /\ 1..k # {} /\ k \in 1..k /\ \A y \in 1..k : k >= y
    OBVIOUS
  <2>2. Max(1..k) = k
    <3>1. \A x \in 1..k : (\A y \in 1..k : x >= y) => x = k
      BY <2>1
    <3> QED
      BY <2>1, <3>1 DEF Max
  <2>3. (1..k) \ {k} = 1..(k - 1) /\ k \in 0..n /\ k - 1 \in 0..n
    OBVIOUS
  <2>4. iter[1..k] = Execute(iter[1..(k - 1)], q[k])
    BY <1>5, <2>1, <2>2, <2>3
  <2> QED
    BY <2>3, <2>4
<1>7. g[0] = start /\ g[n] = iter[1..n]
  <2>1. 1..0 = {} /\ {} \in SUBSET (1..n) /\ 0 \in 0..n /\ n \in 0..n
    OBVIOUS
  <2>2. iter[{}] = start
    BY <1>5, <2>1
  <2> QED
    BY <2>1, <2>2
<1> HIDE DEF g
<1> QED
  BY <1>1, <1>6, <1>7 DEF ExecuteStates

-----------------------------------------------------------------------------
(* What the output of the client holds, and how the operations on it change that. *)

\* The output o holds units a + 1 to top, its offset inside the object that is next.
Holds(o, a, top) ==
  /\ o = [buf |-> o.buf, reply |-> o.reply, sentlen |-> o.sentlen, tot |-> o.tot]
  /\ Laid(o.buf, o.reply, a, top) /\ Within(o.buf, o.reply, o.sentlen)

\* The write op is for units of the object that is next, from the first unsent one on.
WriteOf(op, o) ==
  /\ HasPending(o)
  /\ Len(op.cells) \in Nat /\ Len(op.cells) >= 1
  /\ Len(op.cells) <= Len(Object(o)) - o.sentlen
  /\ \A j \in 1..Len(op.cells) : op.cells[j] = <<ObjectName(o), o.sentlen + j>>

\* The output of the client.
LEMMA OutFacts ==
  /\ Out = [buf |-> Out.buf, reply |-> Out.reply, sentlen |-> Out.sentlen, tot |-> Out.tot]
  /\ Out.buf = buf /\ Out.reply = reply /\ Out.sentlen = sentlen /\ Out.tot = totwritten
  BY DEF Out

\* An offset of zero is inside whatever is laid out.
LEMMA WithinZero ==
  ASSUME NEW b, NEW r, NEW a, NEW top, Laid(b, r, a, top)
  PROVE  Within(b, r, 0)
<1>1. /\ b \in Seq(Nat) /\ r \in Seq(Seq(Nat)) /\ \A j \in DOMAIN r : r[j] # <<>>
      /\ (b = <<>> /\ r # <<>> => 1 \in DOMAIN r /\ Len(r[1]) \in Nat)
  BY LaidFacts
<1>2. b # <<>> => 0 < Len(b)
  BY <1>1, EmptySeq, LenProperties
<1>3. ASSUME b = <<>>, r # <<>> PROVE 0 < Len(r[1])
  <2>1. r[1] \in Seq(Nat) /\ r[1] # <<>> /\ Len(r[1]) \in Nat
    BY <1>1, <1>3
  <2> QED
    BY <2>1, EmptySeq
<1> QED
  BY <1>2, <1>3 DEF Within

\* The object that is next is a run of its own, and its name says where it begins.
LEMMA ObjectIs ==
  ASSUME NEW o, NEW a, NEW top, Holds(o, a, top), HasPending(o)
  PROVE  /\ a \in Nat /\ top \in Nat /\ o.sentlen \in Nat /\ Len(Object(o)) \in Nat
         /\ o.sentlen < Len(Object(o)) /\ a + Len(Object(o)) <= top
         /\ Object(o) \in Seq(Nat) /\ Object(o) = Run(a, a + Len(Object(o)))
         /\ ObjectName(o) = IF o.buf # <<>> THEN <<"buf", 0>> ELSE <<"block", a + 1>>
         /\ o.buf # <<>> => Object(o) = o.buf
         /\ o.buf = <<>> => Object(o) = o.reply[1] /\ o.reply # <<>>
<1> DEFINE x == Object(o)
           n == Len(x)
<1>1. Laid(o.buf, o.reply, a, top) /\ Within(o.buf, o.reply, o.sentlen)
  BY DEF Holds
<1>2. /\ o.buf # <<>> => x = o.buf
      /\ o.buf = <<>> => x = o.reply[1] /\ o.reply # <<>>
  BY DEF Object, HasPending
<1>3. /\ a \in Nat /\ top \in Nat /\ n \in Nat /\ a + n <= top /\ x = Run(a, a + n)
  <2>1. CASE o.buf # <<>>
    BY <1>1, <1>2, <2>1, LaidFacts
  <2>2. CASE o.buf = <<>>
    BY <1>1, <1>2, <2>2, LaidFacts
  <2> QED
    BY <2>1, <2>2
<1>4. o.sentlen \in Nat /\ o.sentlen < n
  BY <1>1, <1>2 DEF Within
<1>5. x \in Seq(Nat) /\ (o.buf = <<>> => x[1] = a + 1)
  <2> DEFINE y == a + n
  <2>1. y \in Nat /\ a <= y /\ 1 \in 1..(y - a)
    BY <1>3, <1>4
  <2>2. x = Run(a, y)
    BY <1>3
  <2> HIDE DEF x, y
  <2>3. Run(a, y) \in Seq(Nat) /\ Run(a, y)[1] = a + 1
    <3>1. a \in Nat
      BY <1>3
    <3>2. /\ Run(a, y) \in Seq(Nat)
          /\ \A i \in 1..(y - a) : Run(a, y)[i] = a + i
      BY <2>1, <3>1, RunFacts
    <3> QED
      BY <2>1, <3>2
  <2> QED
    BY <2>2, <2>3
<1>6. ObjectName(o) = IF o.buf # <<>> THEN <<"buf", 0>> ELSE <<"block", a + 1>>
  BY <1>2, <1>5 DEF ObjectName
<1> QED
  BY <1>2, <1>3, <1>4, <1>5, <1>6

\* writeDoneToClientKbaio() moves the first unsent unit by what was written.
LEMMA AckHolds ==
  ASSUME NEW o, NEW a, NEW top, Holds(o, a, top), HasPending(o),
         NEW n \in Nat, n >= 1, n <= Len(Object(o)) - o.sentlen
  PROVE  \E c \in Nat : Holds(Ack(o, n), c, top) /\ c + Ack(o, n).sentlen = a + o.sentlen + n
<1> DEFINE q == Ack(o, n)
           len == Len(Object(o))
           s == o.sentlen + n
<1>1. /\ o.sentlen \in Nat /\ len \in Nat /\ a \in Nat /\ s \in Nat
      /\ o.buf # <<>> => Object(o) = o.buf
      /\ o.buf = <<>> => Object(o) = o.reply[1] /\ o.reply # <<>>
  BY ObjectIs
<1>2. Laid(o.buf, o.reply, a, top) /\ Within(o.buf, o.reply, o.sentlen)
  BY DEF Holds
<1>3. /\ q = [buf |-> q.buf, reply |-> q.reply, sentlen |-> q.sentlen, tot |-> q.tot]
      /\ q.buf = IF s = len THEN <<>> ELSE o.buf
      /\ q.reply = IF s = len /\ o.buf = <<>> THEN Tail(o.reply) ELSE o.reply
      /\ q.sentlen = IF s = len THEN 0 ELSE s
  BY DEF Ack
<1> HIDE DEF q, len
<1>4. CASE s # len
  <2>1. Within(q.buf, q.reply, q.sentlen)
    <3>1. s < len /\ q.buf = o.buf /\ q.reply = o.reply /\ q.sentlen = s
      BY <1>1, <1>3, <1>4 DEF len
    <3> QED
      BY <1>1, <3>1 DEF len, Within, HasPending
  <2>2. Laid(q.buf, q.reply, a, top)
    BY <1>2, <1>3, <1>4
  <2> QED
    BY <1>1, <1>3, <1>4, <2>1, <2>2 DEF Holds, q
<1>5. CASE s = len
  <2>1. Laid(q.buf, q.reply, a + len, top) /\ a + len \in Nat
    <3>1. CASE o.buf # <<>>
      <4>1. Laid(<<>>, o.reply, a + Len(o.buf), top)
        BY <1>2, LaidLess
      <4> QED
        BY <1>1, <1>3, <1>5, <3>1, <4>1 DEF len
    <3>2. CASE o.buf = <<>>
      <4>1. Laid(<<>>, Tail(o.reply), a + Len(o.reply[1]), top)
        BY <1>1, <1>2, <3>2, LaidLess
      <4> QED
        BY <1>1, <1>3, <1>5, <3>2, <4>1 DEF len
    <3> QED
      BY <3>1, <3>2
  <2>2. q.sentlen = 0 /\ Within(q.buf, q.reply, 0)
    BY <1>3, <1>5, <2>1, WithinZero
  <2>3. (a + len) + q.sentlen = a + o.sentlen + n
    BY <1>1, <1>5, <2>2
  <2> QED
    BY <1>3, <2>1, <2>2, <2>3 DEF Holds, q
<1> QED
  BY <1>4, <1>5

\* A unit is added behind all others, and the object that is next stays so.
LEMMA AddUnitHolds ==
  ASSUME NEW o, NEW a, NEW top, Holds(o, a, top)
  PROVE  /\ Holds(AddUnit(o, top + 1), a, top + 1) /\ HasPending(AddUnit(o, top + 1))
         /\ AddUnit(o, top + 1).sentlen = o.sentlen
         /\ \A op : WriteOf(op, o) => WriteOf(op, AddUnit(o, top + 1))
<1> DEFINE p == AddUnit(o, top + 1)
           n == Len(o.reply)
           grown == Append(o.reply[n], top + 1)
<1>1. /\ o = [buf |-> o.buf, reply |-> o.reply, sentlen |-> o.sentlen, tot |-> o.tot]
      /\ Laid(o.buf, o.reply, a, top) /\ Within(o.buf, o.reply, o.sentlen)
  BY DEF Holds
<1>2. /\ a \in Nat /\ top \in Nat /\ o.buf \in Seq(Nat) /\ o.reply \in Seq(Seq(Nat)) /\ n \in Nat
      /\ DOMAIN o.reply = 1..n /\ (o.reply = <<>> <=> n = 0)
      /\ (o.buf = <<>> <=> Len(o.buf) = 0) /\ Len(o.buf) \in Nat /\ top + 1 \in Nat
  BY <1>1, LaidFacts, EmptySeq, LenProperties
<1>3. /\ p = [buf |-> p.buf, reply |-> p.reply, sentlen |-> p.sentlen, tot |-> p.tot]
      /\ p.sentlen = o.sentlen
      /\ \/ o.reply = <<>> /\ p.buf = Append(o.buf, top + 1) /\ p.reply = o.reply
         \/ o.reply # <<>> /\ p.buf = o.buf /\ p.reply = [o.reply EXCEPT ![n] = grown]
         \/ p.buf = o.buf /\ p.reply = Append(o.reply, <<top + 1>>)
            /\ (o.reply = <<>> => o.buf # <<>>)
  <2>1. CASE n = 0 /\ Len(o.buf) < BufCap
    <3>1. p = [o EXCEPT !.buf = Append(@, top + 1)]
      BY <2>1 DEF AddUnit
    <3> HIDE DEF p
    <3> QED
      BY <1>1, <1>2, <2>1, <3>1
  <2>2. CASE n > 0 /\ Len(o.reply[n]) < BlockCap
    <3> DEFINE blocks == [o.reply EXCEPT ![n] = grown]
    <3>1. p = [o EXCEPT !.reply[n] = Append(@, top + 1)]
      BY <1>2, <2>2 DEF AddUnit
    <3>2. p = [o EXCEPT !.reply = blocks]
      BY <3>1
    <3>3. o.reply # <<>>
      BY <1>2, <2>2
    <3> HIDE DEF p, blocks
    <3>4. /\ p = [buf |-> p.buf, reply |-> p.reply, sentlen |-> p.sentlen, tot |-> p.tot]
          /\ p.sentlen = o.sentlen /\ p.buf = o.buf /\ p.reply = blocks
      BY <1>1, <3>2
    <3> QED
      BY <3>3, <3>4 DEF blocks
  <2>3. CASE ~(n = 0 /\ Len(o.buf) < BufCap) /\ ~(n > 0 /\ Len(o.reply[n]) < BlockCap)
    <3>1. p = [o EXCEPT !.reply = Append(@, <<top + 1>>)]
      BY <2>3 DEF AddUnit
    <3>2. n = 0 => o.buf # <<>>
      BY <1>2, <2>3, KbaioConstantsAssumption
    <3> HIDE DEF p
    <3> QED
      BY <1>1, <1>2, <3>1, <3>2
  <2> QED
    BY <2>1, <2>2, <2>3
<1> HIDE DEF p
<1>4. Laid(p.buf, p.reply, a, top + 1)
  <2>1. /\ o.reply = <<>> => Laid(Append(o.buf, top + 1), o.reply, a, top + 1)
        /\ o.reply # <<>> => Laid(o.buf, [o.reply EXCEPT ![n] = grown], a, top + 1)
        /\ Laid(o.buf, Append(o.reply, <<top + 1>>), a, top + 1)
    BY <1>1, LaidMore
  <2> QED
    BY <1>3, <2>1
<1>5. HasPending(p)
  <2>1. CASE p.buf = Append(o.buf, top + 1)
    <3>1. Len(p.buf) = Len(o.buf) + 1
      BY <1>2, <2>1, AppendProperties
    <3>2. p.buf # <<>>
      BY <1>2, <3>1
    <3> QED
      BY <3>2 DEF HasPending
  <2>2. CASE o.reply # <<>> /\ p.reply = [o.reply EXCEPT ![n] = grown]
    <3>1. DOMAIN p.reply = 1..n /\ n # 0
      BY <1>2, <2>2
    <3>2. p.reply # <<>>
      BY <1>2, <3>1
    <3> QED
      BY <3>2 DEF HasPending
  <2>3. CASE p.reply = Append(o.reply, <<top + 1>>)
    <3>1. <<top + 1>> \in Seq(Nat)
      BY <1>2
    <3> QED
      BY <1>2, <2>3, <3>1, AppendProperties, SMTT(30) DEF HasPending
  <2> QED
    BY <1>3, <2>1, <2>2, <2>3
<1>6. ASSUME HasPending(o)
      PROVE  /\ o.buf = <<>> <=> p.buf = <<>>
             /\ o.buf # <<>> => Len(p.buf) >= Len(o.buf) /\ Len(p.buf) \in Nat
             /\ o.buf = <<>> => Len(p.reply[1]) >= Len(o.reply[1]) /\ Len(p.reply[1]) \in Nat
  <2>1. CASE o.reply = <<>> /\ p.buf = Append(o.buf, top + 1) /\ p.reply = o.reply
    <3>1. o.buf # <<>>
      BY <1>6, <2>1 DEF HasPending
    <3> QED
      BY <1>2, <2>1, <3>1, AppendProperties, SMTT(30)
  <2>2. CASE o.reply # <<>> /\ p.buf = o.buf /\ p.reply = [o.reply EXCEPT ![n] = grown]
    <3>1. 1 \in 1..n /\ n \in 1..n /\ o.reply[1] \in Seq(Nat) /\ o.reply[n] \in Seq(Nat)
      BY <1>2, <2>2, ElementOfSeq
    <3>2. p.reply[1] = IF 1 = n THEN grown ELSE o.reply[1]
      BY <1>2, <2>2, <3>1
    <3>3. Len(grown) = Len(o.reply[n]) + 1 /\ Len(o.reply[n]) \in Nat /\ Len(o.reply[1]) \in Nat
      BY <1>2, <3>1, AppendProperties, LenProperties
    <3> QED
      BY <1>2, <2>2, <3>2, <3>3
  <2>3. CASE p.buf = o.buf /\ p.reply = Append(o.reply, <<top + 1>>)
    <3>1. <<top + 1>> \in Seq(Nat)
      BY <1>2
    <3>2. ASSUME o.buf = <<>>
          PROVE  Len(p.reply[1]) >= Len(o.reply[1]) /\ Len(p.reply[1]) \in Nat
      <4>1. 1 \in 1..n /\ o.reply[1] \in Seq(Nat)
        BY <1>2, <1>6, <3>2, ElementOfSeq DEF HasPending
      <4>2. p.reply[1] = o.reply[1]
        BY <1>2, <2>3, <3>1, <4>1, AppendProperties
      <4> QED
        BY <4>1, <4>2, LenProperties
    <3> QED
      BY <1>2, <2>3, <3>2
  <2> QED
    BY <1>3, <2>1, <2>2, <2>3
<1>7. Within(p.buf, p.reply, p.sentlen)
  <2>1. CASE HasPending(o)
    <3>1. /\ o.sentlen \in Nat
          /\ o.buf # <<>> => o.sentlen < Len(o.buf)
          /\ o.buf = <<>> => o.sentlen < Len(o.reply[1]) /\ Len(o.reply[1]) \in Nat
      BY <1>1, <2>1, LaidFacts DEF Within, HasPending
    <3>2. p.buf # <<>> => o.sentlen < Len(p.buf)
      BY <1>2, <1>6, <2>1, <3>1
    <3>3. p.buf = <<>> => o.sentlen < Len(p.reply[1])
      BY <1>6, <2>1, <3>1
    <3> QED
      BY <1>3, <1>5, <3>1, <3>2, <3>3 DEF Within, HasPending
  <2>2. CASE ~HasPending(o)
    <3>1. p.sentlen = 0
      BY <1>1, <1>3, <2>2 DEF Within, HasPending
    <3> QED
      BY <1>4, <3>1, WithinZero
  <2> QED
    BY <2>1, <2>2
<1>8. Holds(p, a, top + 1)
  BY <1>3, <1>4, <1>7 DEF Holds
<1>9. ASSUME NEW op, WriteOf(op, o) PROVE WriteOf(op, p)
  <2>1. HasPending(o)
    BY <1>9 DEF WriteOf
  <2>2. ObjectName(p) = ObjectName(o)
    BY <1>5, <1>6, <1>8, <2>1, ObjectIs
  <2>3. Len(Object(p)) >= Len(Object(o)) /\ Len(Object(p)) \in Nat /\ Len(Object(o)) \in Nat
        /\ o.sentlen \in Nat
    BY <1>5, <1>6, <1>8, <2>1, ObjectIs
  <2> QED
    BY <1>3, <1>5, <1>9, <2>2, <2>3 DEF WriteOf
<1> QED
  BY <1>3, <1>5, <1>8, <1>9 DEF p

\* n units are added.
LEMMA AddUnitsHold ==
  ASSUME NEW o, NEW a, NEW top, Holds(o, a, top), NEW n \in Nat
  PROVE  /\ Holds(AddUnits(o, top + 1, top + n), a, top + n)
         /\ AddUnits(o, top + 1, top + n).sentlen = o.sentlen
         /\ n = 0 => AddUnits(o, top + 1, top + n) = o
<1> DEFINE q == [i \in 1..n |-> top + i]
<1>1. top \in Nat
  BY LaidFacts DEF Holds
<1>2. AddUnits(o, top + 1, top + n) = AddUnitAll(o, q)
  <2>1. (top + n) - (top + 1) + 1 = n /\ \A i \in 1..n : (top + 1) + i - 1 = top + i
    BY <1>1
  <2>2. [i \in 1..((top + n) - (top + 1) + 1) |-> (top + 1) + i - 1] = q
    BY <2>1
  <2> HIDE DEF q
  <2> QED
    BY <2>2 DEF AddUnits, AddUnitAll
<1>3. DOMAIN q = 1..n /\ \A k \in 1..n : q[k] = (top + (k - 1)) + 1
  BY <1>1
<1> HIDE DEF q
<1>4. PICK g : /\ g[0] = o /\ \A k \in 1..n : g[k] = AddUnit(g[k - 1], q[k])
               /\ AddUnitAll(o, q) = g[n]
  <2>1. \E g : AddUnitStates(g, o, n, q)
    BY <1>3, AddUnitFold
  <2> QED
    BY <2>1 DEF AddUnitStates
<1> DEFINE Kept(k) == Holds(g[k], a, top + k) /\ g[k].sentlen = o.sentlen
           M == {k \in Nat : k <= n => Kept(k)}
<1>5. 0 \in M
  <2>1. top + 0 = top
    BY <1>1
  <2> QED
    BY <1>4, <2>1
<1>6. ASSUME NEW k \in M PROVE k + 1 \in M
  <2>1. SUFFICES ASSUME k + 1 <= n PROVE Kept(k + 1)
    OBVIOUS
  <2>2. k \in Nat /\ k <= n /\ k + 1 \in 1..n /\ (k + 1) - 1 = k
    BY <2>1
  <2>3. Kept(k)
    BY <2>2
  <2>4. g[k + 1] = AddUnit(g[k], (top + k) + 1) /\ top + (k + 1) = (top + k) + 1
    BY <1>1, <1>3, <1>4, <2>2
  <2> DEFINE t == top + k
  <2>5. Holds(g[k], a, t) /\ g[k].sentlen = o.sentlen
    BY <2>3
  <2> HIDE DEF t
  <2>6. Holds(AddUnit(g[k], t + 1), a, t + 1) /\ AddUnit(g[k], t + 1).sentlen = o.sentlen
    BY <2>5, AddUnitHolds
  <2> QED
    BY <2>4, <2>6 DEF t
<1>7. Kept(n)
  <2>1. M \in SUBSET Nat /\ \A k \in M : k + 1 \in M
    BY <1>6
  <2>2. M = Nat
    <3> HIDE DEF M
    <3> QED
      BY <1>5, <2>1, SetInduction
  <2> HIDE DEF Kept
  <2> QED
    BY <2>2
<1>8. n = 0 => AddUnitAll(o, q) = o
  BY <1>4
<1> QED
  BY <1>2, <1>4, <1>7, <1>8

\* Request parts, and what a read may find instead.
Parts == Part \cup {JunkPart}

\* What processInputBuffer() has reached: the units made are behind those there were, and
\* none is made for a client that is being closed.
Reached(s, a) ==
  /\ s = [rest |-> s.rest, quit |-> s.quit, made |-> s.made, queued |-> s.queued, out |-> s.out]
  /\ s.rest \in Seq(Parts) /\ s.quit \in BOOLEAN /\ s.made \in Nat /\ s.made >= produced
  /\ Holds(s.out, a, s.made) /\ s.out.sentlen = sentlen
  /\ s.made = produced => s.quit = closeAfter /\ s.out = Out
  /\ closing # "no" \/ closeAfter = TRUE => s.made = produced

\* One request.
LEMMA ExecuteReaches ==
  ASSUME produced \in Nat, NEW s, NEW a, Reached(s, a), NEW part \in Parts
  PROVE  Reached(Execute(s, part), a)
<1> DEFINE t == Execute(s, part)
<1>1. CASE s.quit \/ closing # "no" \/ ~part.last
  <2>1. t = [s EXCEPT !.rest = Append(@, part)]
    BY <1>1 DEF Execute
  <2> HIDE DEF t
  <2>2. /\ t = [rest |-> t.rest, quit |-> t.quit, made |-> t.made, queued |-> t.queued,
                out |-> t.out]
        /\ t.rest = Append(s.rest, part) /\ t.quit = s.quit /\ t.made = s.made /\ t.out = s.out
    BY <2>1 DEF Reached
  <2>3. t.rest \in Seq(Parts)
    BY <2>2, AppendProperties DEF Reached
  <2> QED
    BY <2>2, <2>3 DEF Reached, t
<1>2. CASE s.quit = FALSE /\ closing = "no" /\ part.last
  <2>1. part.size \in Nat /\ part.quit \in BOOLEAN /\ (part.quit = TRUE => part.size # 0)
    <3>1. CASE part = JunkPart
      BY <3>1 DEF JunkPart
    <3>2. CASE part \in [last : {TRUE}, size : ReplySizes, quit : {FALSE}]
      BY <3>2, KbaioConstantsAssumption
    <3>3. CASE part \in [last : {TRUE}, size : ReplySizes \ {0}, quit : {TRUE}]
      BY <3>3, KbaioConstantsAssumption
    <3>4. CASE part \in [last : {FALSE}, size : {0}, quit : {FALSE}]
      <4>1. part.size = 0 /\ part.quit = FALSE
        BY <3>4
      <4>2. part.size \in Nat
        BY <4>1
      <4>3. part.quit \in BOOLEAN /\ part.quit # TRUE
        BY <4>1
      <4> QED
        BY <4>2, <4>3
    <3> QED
      BY <3>1, <3>2, <3>3, <3>4 DEF Parts, Part
  <2> DEFINE n == part.size
  <2>2. /\ t = [rest |-> t.rest, quit |-> t.quit, made |-> t.made, queued |-> t.queued,
                out |-> t.out]
        /\ t.rest = <<>> /\ t.quit = part.quit /\ t.made = s.made + n
        /\ t.out = AddUnits(s.out, s.made + 1, s.made + n)
    BY <1>2 DEF Execute
  <2>3. Holds(s.out, a, s.made) /\ s.made \in Nat /\ s.made >= produced
    BY DEF Reached
  <2> HIDE DEF t, n
  <2>4. /\ Holds(t.out, a, s.made + n) /\ t.out.sentlen = s.out.sentlen
        /\ n = 0 => t.out = s.out
    <3>1. n \in Nat
      BY <2>1 DEF n
    <3>2. /\ Holds(AddUnits(s.out, s.made + 1, s.made + n), a, s.made + n)
          /\ AddUnits(s.out, s.made + 1, s.made + n).sentlen = s.out.sentlen
          /\ n = 0 => AddUnits(s.out, s.made + 1, s.made + n) = s.out
      <4> DEFINE o == s.out
                 m == s.made
      <4>1. Holds(o, a, m)
        BY <2>3
      <4> HIDE DEF o, m
      <4>2. /\ Holds(AddUnits(o, m + 1, m + n), a, m + n)
            /\ AddUnits(o, m + 1, m + n).sentlen = o.sentlen
            /\ n = 0 => AddUnits(o, m + 1, m + n) = o
        BY <3>1, <4>1, AddUnitsHold
      <4> QED
        BY <4>2 DEF o, m
    <3> QED
      BY <2>2, <3>2
  <2>5. s.made + n \in Nat /\ s.made + n >= produced
    BY <2>1, <2>3 DEF n
  <2>6. ASSUME s.made + n = produced PROVE t.quit = closeAfter /\ t.out = Out
    <3>1. n = 0 /\ s.made = produced
      BY <2>1, <2>3, <2>6 DEF n
    <3> QED
      BY <1>2, <2>1, <2>2, <2>4, <3>1 DEF Reached, n
  <2>7. closeAfter # TRUE
    BY <1>2 DEF Reached
  <2>8. <<>> \in Seq(Parts)
    OBVIOUS
  <2>9. s.out.sentlen = sentlen
    BY DEF Reached
  <2> QED
    BY <1>2, <2>1, <2>2, <2>4, <2>5, <2>6, <2>7, <2>8, <2>9 DEF Reached, t
<1> QED
  BY <1>1, <1>2 DEF Reached

\* All of them.
LEMMA InputReaches ==
  ASSUME NEW a, Holds(Out, a, produced), closeAfter \in BOOLEAN, NEW q \in Seq(Parts)
  PROVE  Reached(ProcessInputBuffer(q), a)
<1> DEFINE n == Len(q)
<1>0. PICK start : start = [rest |-> <<>>, quit |-> closeAfter, made |-> produced,
                            queued |-> queued, out |-> Out]
  OBVIOUS
<1>1. n \in Nat /\ DOMAIN q = 1..n /\ \A k \in 1..n : q[k] \in Parts
  BY LenProperties, ElementOfSeq
<1>2. ProcessInputBuffer(q) = ExecuteAll(start, q)
  BY <1>0 DEF ProcessInputBuffer, ExecuteAll
<1>3. produced \in Nat
  BY LaidFacts DEF Holds
<1>4. Reached(start, a)
  <2>1. produced >= produced
    BY <1>3
  <2>2. Out.sentlen = sentlen
    BY OutFacts
  <2>3. <<>> \in Seq(Parts)
    OBVIOUS
  <2> QED
    BY <1>0, <1>3, <2>1, <2>2, <2>3 DEF Reached
<1> HIDE DEF n
<1>5. PICK g : /\ g[0] = start /\ \A k \in 1..n : g[k] = Execute(g[k - 1], q[k])
               /\ ExecuteAll(start, q) = g[n]
  <2>1. n \in Nat /\ DOMAIN q = 1..n
    BY <1>1
  <2>2. \E g : ExecuteStates(g, start, n, q)
    BY <2>1, ExecuteFold
  <2> QED
    BY <2>2 DEF ExecuteStates
<1> DEFINE M == {k \in Nat : k <= n => Reached(g[k], a)}
<1>6. 0 \in M
  BY <1>4, <1>5
<1>7. ASSUME NEW k \in M PROVE k + 1 \in M
  <2>1. SUFFICES ASSUME k + 1 <= n PROVE Reached(g[k + 1], a)
    OBVIOUS
  <2>2. k \in Nat /\ k <= n /\ k + 1 \in 1..n /\ (k + 1) - 1 = k
    BY <1>1, <2>1
  <2>3. Reached(g[k], a) /\ g[k + 1] = Execute(g[k], q[k + 1]) /\ q[k + 1] \in Parts
    BY <1>1, <1>5, <2>2
  <2> QED
    BY <1>3, <2>3, ExecuteReaches
<1>8. M = Nat
  <2>1. M \in SUBSET Nat /\ \A k \in M : k + 1 \in M
    BY <1>7
  <2> HIDE DEF M
  <2> QED
    BY <1>6, <2>1, SetInduction
<1> QED
  BY <1>1, <1>2, <1>5, <1>8

-----------------------------------------------------------------------------
(* The stream: what the socket took, the operation in flight and the output. *)

\* What an operation has written and the client does not know yet.
Written(op) == IF op.kind = "WRITABLE" /\ op.ret > 0 THEN op.ret ELSE 0

Ret == IF Operations = <<>> THEN 0 ELSE Written(Operations[1])

\* The operation in flight has done nothing while it is in the ring; its result is the
\* event's when it is fired; a write is for what is to be sent next.
Faithful(op) ==
  /\ op.ret \in Int
  /\ InRing(op) => op.ret = 0
  /\ InFired(op) => res = op.ret
  /\ op.kind = "WRITABLE" /\ freed = FALSE => WriteOf(op, Out) /\ op.ret <= Len(op.cells)

PartsOK == querybuf \in Seq(Parts) /\ inbox \in Seq(Parts) /\ qtail.parts \in Seq(Parts)

\* The socket took all the units up to the first that is neither accounted for nor
\* written by the operation in flight; the rest is what the output holds.
WireAndOutput ==
  \E a : Holds(Out, a, produced) /\ (freed = TRUE \/ wire = Run(0, a + sentlen + Ret))

\* The inductive invariant of the refinement.
StreamInv ==
  /\ ConversationInv /\ WireAndOutput
  /\ PartsOK /\ closeAfter \in BOOLEAN
  /\ closing = "drained" => ~HasPending(Out)
  /\ \A op : InFlight(op) => Faithful(op)

RetFacts ==
  /\ Quiet => Ret = 0 /\ \A op : ~InFlight(op)
  /\ \A op : InFlight(op) => Ret = Written(op)
  /\ \A op, other : InFlight(op) /\ InFlight(other) => op = other

\* Ret of the operation on its way, of which there is at most one.
LEMMA RetIs == RetFacts
<1>1. ASSUME Quiet PROVE Ret = 0
  BY <1>1, OperationsAre DEF Ret
<1>2. ASSUME NEW op, InFlight(op) PROVE Operations = <<op>> /\ ~Quiet
  BY <1>2, OperationsAre DEF InFlight, Quiet, InRing, InQueue, InFired
<1>3. ASSUME NEW op, InFlight(op) PROVE Ret = Written(op)
  BY <1>2, <1>3 DEF Ret
<1>4. ASSUME NEW op, NEW other, InFlight(op), InFlight(other) PROVE op = other
  <2>1. <<op>> = <<other>>
    BY <1>2, <1>4
  <2> QED
    BY <2>1
<1> QED
  BY <1>1, <1>2, <1>3, <1>4 DEF RetFacts

\* The same after a step.
LEMMA RetIsNext == RetFacts'
  BY RetIs, PTL

\* What is in one of the three places is the operation in flight.
LEMMA PlacedIsInFlight ==
  ASSUME ConversationInv, NEW op, InRing(op) \/ InQueue(op) \/ InFired(op)
  PROVE  InFlight(op)
<1>1. ~Quiet
  BY DEF Quiet, InRing, InQueue, InFired
<1>2. PICK other : InFlight(other)
  BY <1>1 DEF ConversationInv
<1>3. Operations = <<op>> /\ Operations = <<other>>
  BY <1>2, OperationsAre DEF InFlight
<1>4. other = op
  <2>1. <<op>> = <<other>>
    BY <1>3
  <2> QED
    BY <2>1
<1> QED
  BY <1>2, <1>4

\* The operation that is prepared has done nothing.
LEMMA OnePrepared ==
  ASSUME NEW w, ring' = <<w>>, cq' = <<>>, fired' = <<>>, w.ret = 0,
         w.kind = "WRITABLE" => WriteOf(w, Out')
  PROVE  Ret' = 0 /\ \A op : InFlight(op)' => Faithful(op)'
<1>1. ASSUME NEW op, InRing(op)' \/ InQueue(op)' \/ InFired(op)' PROVE op = w
  BY <1>1 DEF InRing, InQueue, InFired
<1>2. Operations' = <<w>>
  <2>1. ASSUME NEW op, op = w PROVE InRing(op)'
    BY <2>1 DEF InRing
  <2>2. (\A op : InRing(op) \/ InQueue(op) \/ InFired(op) => Operations = <<op>>)'
    BY OperationsAre, PTL
  <2> QED
    BY <2>1, <2>2
<1>3. Ret' = 0
  BY <1>2 DEF Ret, Written
<1>4. Faithful(w)'
  BY DEF Faithful, InFired, WriteOf
<1>5. ASSUME NEW op, InFlight(op)' PROVE Faithful(op)'
  <2>1. op = w
    BY <1>1, <1>5 DEF InFlight
  <2> QED
    BY <1>4, <2>1
<1> QED
  BY <1>3, <1>5

\* Nothing is in flight after the step.
LEMMA NonePrepared ==
  ASSUME ring' = <<>>, cq' = <<>>, fired' = <<>>
  PROVE  Ret' = 0 /\ \A op : ~InFlight(op)'
<1>1. Quiet'
  BY DEF Quiet
<1> QED
  BY <1>1, RetIsNext DEF RetFacts

\* A write that is prepared is for what is to be sent next.
LEMMA PreparedWrite ==
  ASSUME NEW o, NEW a, NEW top, Holds(o, a, top), HasPending(o)
  PROVE  WriteOf(WriteOp(o), o) /\ WriteOp(o).ret = 0
<1> DEFINE m == Len(Object(o)) - o.sentlen
<1>1. m \in Nat /\ m >= 1
  BY ObjectIs
<1>2. WriteOp(o).cells = [i \in 1..m |-> <<ObjectName(o), o.sentlen + i>>] /\ WriteOp(o).ret = 0
  BY DEF WriteOp, Cells
<1> HIDE DEF m
<1>3. Len(WriteOp(o).cells) = m
  BY <1>1, <1>2
<1>4. \A j \in 1..m : WriteOp(o).cells[j] = <<ObjectName(o), o.sentlen + j>>
  BY <1>2
<1> QED
  BY <1>1, <1>2, <1>3, <1>4 DEF WriteOf, m

\* Steps that leave the output and the wire alone.
LEMMA SameStream ==
  ASSUME StreamInv, ConversationInv',
         UNCHANGED <<buf, reply, sentlen, totwritten, produced, freed, wire>>,
         PartsOK', closeAfter' \in BOOLEAN, closing' = "drained" => ~HasPending(Out),
         Ret' = Ret, \A op : InFlight(op)' => Faithful(op)'
  PROVE  StreamInv'
<1>1. Out' = Out
  BY DEF Out
<1>2. PICK a : Holds(Out, a, produced) /\ (freed = TRUE \/ wire = Run(0, a + sentlen + Ret))
  BY DEF StreamInv, WireAndOutput
<1>3. WireAndOutput'
  BY <1>1, <1>2 DEF WireAndOutput
<1> QED
  BY <1>1, <1>3 DEF StreamInv

-----------------------------------------------------------------------------
(* The invariant of the refinement, action by action. *)

\* An operation that completes has done what it will do: it is the only one.
LEMMA CompletedIs ==
  ASSUME StreamInv, NEW i \in DOMAIN ring, NEW n \in Int, Completes(i, n),
         UNCHANGED <<evtype, lifevars, queued, fired, buf, reply, querybuf, qgen, submitted>>
  PROVE  /\ i = 1 /\ InFlight(ring[1]) /\ InRing(ring[1]) /\ Ret = 0
         /\ \E done : /\ done.ret = n /\ done.kind = ring[1].kind /\ done.cells = ring[1].cells
                      /\ InFlight(done)' /\ ~InRing(done)' /\ ~InFired(done)'
                      /\ Ret' = Written(done)
                      /\ \A op : InFlight(op)' => op = done
<1>1. ConversationInv /\ ConversationInv'
  BY CompletesKeeps DEF StreamInv
<1>2. PICK done : done = [ring[1] EXCEPT !.ret = n]
  OBVIOUS
<1>3. /\ i = 1 /\ InFlight(ring[1]) /\ ring' = <<>> /\ cq' = <<done>> /\ cq = <<>>
      /\ fired = <<>>
  BY <1>1, <1>2, RingFacts
<1>4. InRing(ring[1]) /\ IsOp(ring[1]) /\ ring[1].ret = 0
  <2>1. InRing(ring[1])
    BY <1>3 DEF InFlight, InRing, InQueue, InFired
  <2> QED
    BY <1>3, <2>1 DEF InFlight, Carries, StreamInv, Faithful
<1>5. Ret = 0
  <2>1. Ret = Written(ring[1])
    BY <1>3, RetIs DEF RetFacts
  <2> QED
    BY <1>4, <2>1 DEF Written
<1>6. done.ret = n /\ done.kind = ring[1].kind /\ done.cells = ring[1].cells
  BY <1>2, <1>4 DEF IsOp
<1>7. ASSUME NEW op, InFlight(op)' PROVE op = done
  BY <1>3, <1>7 DEF InFlight, InRing, InQueue, InFired
<1>8. InFlight(done)' /\ ~InRing(done)' /\ ~InFired(done)'
  <2>1. ~Quiet' /\ ~InRing(done)' /\ ~InFired(done)'
    BY <1>3 DEF Quiet, InRing, InFired
  <2>2. \E op : InFlight(op)'
    BY <1>1, <2>1 DEF ConversationInv
  <2> QED
    BY <1>7, <2>1, <2>2
<1>9. Ret' = Written(done)
  BY <1>8, RetIsNext DEF RetFacts
<1> QED
  BY <1>3, <1>4, <1>5, <1>6, <1>7, <1>8, <1>9

\* A read takes parts from the inbox, or finds its end.
LEMMA RingReadStream ==
  ASSUME StreamInv, NEW i \in DOMAIN ring, RingRead(i)
  PROVE  StreamInv'
<1>1. /\ UNCHANGED <<evtype, lifevars, queued, fired, buf, reply, querybuf, qgen, submitted>>
      /\ UNCHANGED <<sentlen, totwritten, produced, freed, wire, closeAfter, closing>>
      /\ ring[i].kind = "READABLE"
  BY DEF RingRead, outvars, queryvars, loopvars, lifevars
<1>2. PICK n \in Int : /\ Completes(i, n)
                       /\ \/ n \in 1..Len(inbox) /\ qtail'.parts = SubSeq(inbox, 1, n)
                             /\ inbox' = SubSeq(inbox, n + 1, Len(inbox))
                          \/ UNCHANGED <<qtail, inbox>>
  <2>1. CASE \E n \in 1..Len(inbox) :
               /\ Completes(i, n)
               /\ qtail' = [at |-> ring[i].base, parts |-> SubSeq(inbox, 1, n)]
               /\ inbox' = SubSeq(inbox, n + 1, Len(inbox))
    <3>1. PICK n \in 1..Len(inbox) :
               /\ Completes(i, n)
               /\ qtail' = [at |-> ring[i].base, parts |-> SubSeq(inbox, 1, n)]
               /\ inbox' = SubSeq(inbox, n + 1, Len(inbox))
      BY <2>1
    <3>2. n \in Int /\ qtail'.parts = SubSeq(inbox, 1, n)
      BY <3>1
    <3> QED
      BY <3>1, <3>2
  <2>2. CASE Completes(i, 0) /\ UNCHANGED <<qtail, inbox>>
    <3>1. 0 \in Int
      OBVIOUS
    <3> QED
      BY <2>2, <3>1
  <2> QED
    BY <2>1, <2>2 DEF RingRead
<1>3. PartsOK'
  <2>1. querybuf' \in Seq(Parts) /\ inbox \in Seq(Parts) /\ qtail.parts \in Seq(Parts)
    BY <1>1 DEF StreamInv, PartsOK
  <2>2. CASE UNCHANGED <<qtail, inbox>>
    BY <2>1, <2>2 DEF PartsOK
  <2>3. ASSUME n \in 1..Len(inbox), qtail'.parts = SubSeq(inbox, 1, n),
               inbox' = SubSeq(inbox, n + 1, Len(inbox))
        PROVE  PartsOK'
    <3> DEFINE m == Len(inbox)
    <3>1. m \in Nat /\ (\A j \in 1..m : inbox[j] \in Parts) /\ n \in 1..m
      BY <2>1, <2>3, ElementOfSeq, LenProperties
    <3> HIDE DEF m
    <3>2. (\A j \in 1..n : inbox[j] \in Parts) /\ (\A j \in (n + 1)..m : inbox[j] \in Parts)
      BY <3>1
    <3>3. SubSeq(inbox, 1, n) \in Seq(Parts) /\ SubSeq(inbox, n + 1, m) \in Seq(Parts)
      BY <3>1, <3>2, SubSeqProperties
    <3> QED
      BY <2>1, <2>3, <3>3 DEF PartsOK, m
  <2> QED
    BY <1>2, <2>2, <2>3
<1>4. /\ i = 1 /\ InFlight(ring[1]) /\ Ret = 0
      /\ \E done : /\ done.ret = n /\ done.kind = ring[1].kind
                   /\ ~InRing(done)' /\ ~InFired(done)' /\ Ret' = Written(done)
                   /\ \A op : InFlight(op)' => op = done
  BY <1>1, <1>2, CompletedIs
<1>5. Ret' = Ret /\ \A op : InFlight(op)' => Faithful(op)'
  BY <1>1, <1>2, <1>4 DEF Written, Faithful
<1>6. ConversationInv'
  BY <1>1, <1>2, CompletesKeeps DEF StreamInv
<1> QED
  BY <1>1, <1>3, <1>5, <1>6, SameStream DEF StreamInv

\* An operation fails: it wrote nothing.
LEMMA RingFailStream ==
  ASSUME StreamInv, NEW i \in DOMAIN ring, RingFail(i)
  PROVE  StreamInv'
<1>1. /\ UNCHANGED <<evtype, lifevars, queued, fired, buf, reply, querybuf, qgen, submitted>>
      /\ UNCHANGED <<sentlen, totwritten, produced, freed, wire, closeAfter, closing, inbox,
                     qtail>>
      /\ Completes(i, -1) /\ -1 \in Int
  BY DEF RingFail, outvars, queryvars, loopvars, lifevars, peervars
<1>2. PartsOK'
  BY <1>1 DEF StreamInv, PartsOK
<1>3. /\ i = 1 /\ InFlight(ring[1]) /\ Ret = 0
      /\ \E done : /\ done.ret = -1 /\ done.kind = ring[1].kind /\ done.cells = ring[1].cells
                   /\ ~InRing(done)' /\ ~InFired(done)' /\ Ret' = Written(done)
                   /\ \A op : InFlight(op)' => op = done
  BY <1>1, CompletedIs
<1>4. PICK done : /\ done.ret = -1 /\ done.kind = ring[1].kind /\ done.cells = ring[1].cells
                  /\ ~InRing(done)' /\ ~InFired(done)' /\ Ret' = Written(done)
                  /\ \A op : InFlight(op)' => op = done
  BY <1>3
<1>5. Ret' = Ret
  BY <1>3, <1>4 DEF Written
<1>6. Out' = Out
  BY <1>1 DEF Out
<1>7. Faithful(done)'
  <2>1. ASSUME done.kind = "WRITABLE", freed = FALSE
        PROVE  WriteOf(done, Out) /\ done.ret <= Len(done.cells)
    <3>1. WriteOf(ring[1], Out)
      BY <1>3, <1>4, <2>1 DEF StreamInv, Faithful
    <3> QED
      BY <1>4, <3>1 DEF WriteOf
  <2> QED
    BY <1>1, <1>4, <1>6, <2>1 DEF Faithful
<1>8. ConversationInv'
  BY <1>1, CompletesKeeps DEF StreamInv
<1> QED
  BY <1>1, <1>2, <1>4, <1>5, <1>7, <1>8, SameStream DEF StreamInv

\* What a write finds at its addresses are the units it is for: blocks begin with different
\* units, so the one it was prepared for is found again.
LEMMA CellsLoad ==
  ASSUME NEW a, Holds(Out, a, produced), NEW op, WriteOf(op, Out), NEW j \in 1..Len(op.cells)
  PROVE  Load(op.cells[j]) = a + sentlen + j
<1> DEFINE obj == Object(Out)
           name == ObjectName(Out)
           k == sentlen + j
           places == IF name[1] = "buf" THEN {buf}
                     ELSE {reply[i] : i \in {x \in DOMAIN reply : reply[x][1] = name[2]}}
<1>1. /\ HasPending(Out) /\ Len(op.cells) \in Nat /\ Len(op.cells) <= Len(obj) - sentlen
      /\ op.cells[j] = <<name, k>>
  BY OutFacts DEF WriteOf
<1>2. /\ a \in Nat /\ produced \in Nat /\ sentlen \in Nat /\ Len(obj) \in Nat
      /\ obj \in Seq(Nat) /\ obj = Run(a, a + Len(obj))
      /\ name = IF buf # <<>> THEN <<"buf", 0>> ELSE <<"block", a + 1>>
      /\ buf # <<>> => obj = buf
      /\ buf = <<>> => obj = reply[1] /\ reply # <<>>
  BY <1>1, ObjectIs, OutFacts
<1>3. k \in 1..Len(obj) /\ k \in DOMAIN obj
  BY <1>1, <1>2
<1>4. Laid(buf, reply, a, produced)
  BY OutFacts DEF Holds
<1>5. ASSUME NEW m \in 1..Len(obj) PROVE obj[m] = a + m
  <2> DEFINE y == a + Len(obj)
  <2>1. y \in Nat /\ a <= y /\ m \in 1..(y - a) /\ obj = Run(a, y)
    BY <1>2
  <2> HIDE DEF obj, y
  <2>2. Run(a, y)[m] = a + m
    <3>1. a \in Nat
      BY <1>2
    <3>2. \A l \in 1..(y - a) : Run(a, y)[l] = a + l
      BY <2>1, <3>1, RunFacts
    <3> QED
      BY <2>1, <3>2
  <2> QED
    BY <2>1, <2>2
<1>6. places = {obj}
  <2>1. CASE buf # <<>>
    BY <1>2, <2>1
  <2>2. CASE buf = <<>>
    <3>1. /\ 1 \in DOMAIN reply
          /\ \A i \in DOMAIN reply : reply[i][1] = reply[1][1] => i = 1
      BY <1>2, <1>4, <2>2, LaidFacts
    <3>2. reply[1][1] = a + 1
      <4>1. 1 \in 1..Len(obj)
        BY <1>1, <1>2
      <4>2. obj[1] = a + 1
        BY <1>5, <4>1
      <4> QED
        BY <1>2, <2>2, <4>2
    <3>3. {x \in DOMAIN reply : reply[x][1] = a + 1} = {1}
      BY <3>1, <3>2
    <3>4. places = {reply[i] : i \in {x \in DOMAIN reply : reply[x][1] = a + 1}}
      BY <1>2, <2>2
    <3> HIDE DEF places
    <3> QED
      BY <1>2, <2>2, <3>3, <3>4
  <2> QED
    BY <2>1, <2>2
<1>7. Load(<<name, k>>) =
        IF \E s \in places : k \in DOMAIN s
        THEN (CHOOSE s \in places : k \in DOMAIN s)[k] ELSE Junk
  BY DEF Load
<1> HIDE DEF places
<1>8. (CHOOSE s \in places : k \in DOMAIN s) = obj
  BY <1>3, <1>6
<1>9. Load(<<name, k>>) = obj[k]
  BY <1>3, <1>6, <1>7, <1>8
<1> QED
  BY <1>1, <1>2, <1>3, <1>5, <1>9

\* A write executes: the socket takes the units that are next.
LEMMA RingWriteStream ==
  ASSUME StreamInv, NEW i \in DOMAIN ring, RingWrite(i)
  PROVE  StreamInv'
<1>1. /\ UNCHANGED <<evtype, lifevars, queued, fired, buf, reply, querybuf, qgen, submitted>>
      /\ UNCHANGED <<sentlen, totwritten, produced, freed, closeAfter, closing, inbox, qtail>>
      /\ ring[i].kind = "WRITABLE" /\ freed = FALSE
  BY DEF RingWrite, Own, outvars, queryvars, loopvars, lifevars, StreamInv, ConversationInv
<1>2. PICK n \in 1..Len(ring[i].cells) :
        /\ wire' = wire \o [j \in 1..n |-> Load(ring[i].cells[j])]
        /\ Completes(i, n)
  BY DEF RingWrite
<1>3. n \in Int
  OBVIOUS
<1>4. /\ i = 1 /\ InFlight(ring[1]) /\ Ret = 0
      /\ \E done : /\ done.ret = n /\ done.kind = ring[1].kind /\ done.cells = ring[1].cells
                   /\ ~InRing(done)' /\ ~InFired(done)' /\ Ret' = Written(done)
                   /\ \A op : InFlight(op)' => op = done
  BY <1>1, <1>2, <1>3, CompletedIs
<1>5. PICK done : /\ done.ret = n /\ done.kind = ring[1].kind /\ done.cells = ring[1].cells
                  /\ ~InRing(done)' /\ ~InFired(done)' /\ Ret' = Written(done)
                  /\ \A op : InFlight(op)' => op = done
  BY <1>4
<1>6. WriteOf(ring[1], Out)
  BY <1>1, <1>4 DEF StreamInv, Faithful
<1>7. n \in Nat /\ n >= 1 /\ n <= Len(done.cells) /\ WriteOf(done, Out) /\ Ret' = n
  BY <1>1, <1>2, <1>4, <1>5, <1>6 DEF WriteOf, Written
<1>8. PICK a : Holds(Out, a, produced) /\ wire = Run(0, a + sentlen + 0)
  BY <1>1, <1>4 DEF StreamInv, WireAndOutput
<1>9. a \in Nat /\ sentlen \in Nat
  BY <1>6, <1>8, ObjectIs, OutFacts DEF WriteOf
<1> DEFINE x == a + sentlen
           new == [j \in 1..n |-> Load(ring[i].cells[j])]
<1>10. new = Run(x, x + n)
  <2>1. (x + n) - x = n
    BY <1>7, <1>9
  <2>2. \A j \in 1..n : Load(ring[i].cells[j]) = x + j
    BY <1>4, <1>5, <1>6, <1>7, <1>8, CellsLoad
  <2> QED
    BY <2>1, <2>2 DEF Run
<1>11. wire' = Run(0, x + n)
  <2>1. x \in Nat /\ x + n \in Nat /\ 0 <= x /\ x <= x + n /\ x + 0 = x
    BY <1>7, <1>9
  <2>2. a + sentlen + 0 = x
    BY <1>9
  <2> HIDE DEF x, new
  <2>3. Run(0, x) \o Run(x, x + n) = Run(0, x + n)
    BY <2>1, RunConcat
  <2> QED
    BY <1>2, <1>8, <1>10, <2>2, <2>3 DEF new
<1>12. Out' = Out
  BY <1>1 DEF Out
<1>13. WireAndOutput'
  BY <1>1, <1>7, <1>8, <1>11, <1>12 DEF WireAndOutput
<1>14. Faithful(done)'
  BY <1>1, <1>3, <1>5, <1>7, <1>12 DEF Faithful
<1>15. ConversationInv'
  BY <1>1, <1>2, CompletesKeeps DEF StreamInv
<1>16. PartsOK'
  BY <1>1 DEF StreamInv, PartsOK
<1> QED
  BY <1>1, <1>5, <1>12, <1>13, <1>14, <1>15, <1>16 DEF StreamInv

\* aeApiPoll(): the result of the only completion is the event's.
LEMMA PollStream ==
  ASSUME StreamInv, Poll
  PROVE  StreamInv'
<1>1. ConversationInv' /\ ConversationInv
  BY PollKeeps DEF StreamInv
<1>2. /\ UNCHANGED <<buf, reply, sentlen, totwritten, querybuf, produced, freed, closeAfter,
                     closing, wire, inbox, qtail, ring>>
      /\ cq' = <<>> /\ res' = Last(cq).ret
      /\ fired' = [i \in DOMAIN cq |-> [mask |-> evtype, op |-> cq[i]]]
      /\ cq # <<>>
  BY DEF Poll, outvars, queryvars, lifevars, peervars
<1>3. PICK op : InFlight(op) /\ cq = <<op>> /\ ring = <<>>
  BY <1>1, <1>2 DEF ConversationInv, Quiet, InFlight, InRing, InQueue, InFired
<1>4. Faithful(op) /\ Ret = Written(op)
  BY <1>3, RetIs DEF StreamInv, RetFacts
<1>5. res' = op.ret
  <2>1. Last(<<op>>) = op
    BY DEF Last
  <2> QED
    BY <1>2, <1>3, <2>1
<1>6. fired'[1].op = op /\ fired' # <<>>
  BY <1>2, <1>3
<1>7. ASSUME NEW other, InFlight(other)' PROVE other = op /\ InFired(other)'
  <2>1. InFired(other)'
    BY <1>2, <1>3, <1>6, <1>7 DEF InFlight, InRing, InQueue
  <2>2. fired'[1].op = other
    BY <2>1 DEF InFired
  <2> QED
    BY <1>6, <2>1, <2>2
<1>8. \E other : InFlight(other)'
  BY <1>1, <1>6 DEF ConversationInv, Quiet
<1>9. Ret' = Ret
  BY <1>4, <1>7, <1>8, RetIsNext DEF RetFacts
<1>10. Out' = Out
  BY <1>2 DEF Out
<1>11. ~InRing(op)'
  BY <1>6 DEF InRing
<1>12. Faithful(op)'
  BY <1>2, <1>4, <1>5, <1>10, <1>11 DEF Faithful
<1>13. PartsOK'
  BY <1>2 DEF StreamInv, PartsOK
<1> QED
  BY <1>1, <1>2, <1>7, <1>9, <1>12, <1>13, SameStream DEF StreamInv

\* Steps that touch neither the output nor the operations: the query buffer moves, the
\* client is killed, the peer acts.
LEMMA AsideStream ==
  ASSUME StreamInv, ConversationInv',
         UNCHANGED <<buf, reply, sentlen, totwritten, produced, freed, wire, closeAfter, conn,
                     evtype, queued, submitted, ring, cq, fired, res>>,
         PartsOK', closing' = closing \/ closing' = "killed",
         \A op : InFlight(op)' => InFlight(op)
  PROVE  StreamInv'
<1>1. Out' = Out /\ Operations' = Operations
  BY DEF Out, Operations
<1>2. Ret' = Ret
  BY <1>1 DEF Ret
<1>3. ASSUME NEW op, InFlight(op)' PROVE Faithful(op)'
  <2>1. Faithful(op)
    BY <1>3 DEF StreamInv
  <2> QED
    BY <1>1, <2>1 DEF Faithful, InRing, InFired
<1> QED
  BY <1>2, <1>3, SameStream DEF StreamInv

\* Steps that touch neither the output nor an operation.
LEMMA AsideSteps ==
  ASSUME StreamInv, ResizeQueryBuffer \/ KillClient \/ PeerSend \/ PeerRead \/ PeerClose
                    \/ UNCHANGED vars
  PROVE  StreamInv'
<1>1. UNCHANGED <<buf, reply, sentlen, totwritten, produced, freed, wire, closeAfter, conn,
                  evtype, queued, submitted, ring, cq, fired, res, querybuf, qtail>>
  BY DEF ResizeQueryBuffer, KillClient, PeerSend, PeerRead, PeerClose, vars, outvars,
         queryvars, lifevars, loopvars, peervars
<1>2. ConversationInv'
  <2>1. CASE ResizeQueryBuffer \/ KillClient
    BY <2>1, ResizeKeeps, KillKeeps DEF StreamInv
  <2>2. CASE PeerSend \/ PeerRead \/ PeerClose \/ UNCHANGED vars
    <3>1. UNCHANGED <<buf, reply, querybuf, qgen, submitted, queued, lifevars, evtype, ring,
                      cq, fired>>
      BY <2>2 DEF PeerSend, PeerRead, PeerClose, vars, outvars, queryvars, loopvars
    <3> QED
      BY <3>1, SameConversation DEF StreamInv
  <2> QED
    BY <2>1, <2>2
<1>3. closing' = closing \/ closing' = "killed"
  BY DEF ResizeQueryBuffer, KillClient, PeerSend, PeerRead, PeerClose, vars, lifevars
<1>4. PartsOK'
  <2>1. querybuf \in Seq(Parts) /\ inbox \in Seq(Parts) /\ qtail.parts \in Seq(Parts)
    BY DEF StreamInv, PartsOK
  <2>2. inbox' = inbox \/ \E part \in Part : inbox' = Append(inbox, part)
    BY DEF ResizeQueryBuffer, KillClient, PeerSend, PeerRead, PeerClose, vars, peervars
  <2>3. inbox' \in Seq(Parts)
    BY <2>1, <2>2, AppendProperties DEF Parts
  <2> QED
    BY <1>1, <2>1, <2>3 DEF PartsOK
<1>5. ASSUME NEW op, InFlight(op)' PROVE InFlight(op)
  <2>1. InRing(op) \/ InQueue(op) \/ InFired(op)
    BY <1>1, <1>5 DEF InFlight, InRing, InQueue, InFired
  <2> QED
    BY <2>1, PlacedIsInFlight DEF StreamInv
<1> QED
  BY <1>1, <1>2, <1>3, <1>4, <1>5, AsideStream

\* freeClient() empties the output.
LEMMA FreeStream ==
  ASSUME StreamInv, FreeClientsInAsyncFreeQueue
  PROVE  StreamInv'
<1>1. /\ freed' = TRUE /\ buf' = <<>> /\ reply' = <<>> /\ sentlen' = 0 /\ totwritten' = 0
      /\ querybuf' = <<>> /\ UNCHANGED <<inbox, qtail, closeAfter, produced, ring, fired, cq, res>>
  BY DEF FreeClientsInAsyncFreeQueue, loopvars, peervars
<1>2. ConversationInv'
  BY FreeKeeps DEF StreamInv
<1>3. Out' = [buf |-> <<>>, reply |-> <<>>, sentlen |-> 0, tot |-> 0]
  BY <1>1 DEF Out
<1>4. produced \in Nat
  BY LaidFacts DEF StreamInv, WireAndOutput, Holds
<1>5. Holds(Out', produced, produced)
  <2>1. Laid(<<>>, <<>>, produced, produced)
    BY <1>4, LaidNothing
  <2> QED
    BY <1>3, <2>1, WithinZero DEF Holds
<1>6. WireAndOutput'
  BY <1>1, <1>5 DEF WireAndOutput
<1>7. ~HasPending(Out')
  BY <1>3 DEF HasPending
<1>8. PartsOK'
  BY <1>1 DEF StreamInv, PartsOK
<1>9. ASSUME NEW op, InFlight(op)' PROVE Faithful(op)'
  <2>1. InRing(op) \/ InQueue(op) \/ InFired(op)
    BY <1>1, <1>9 DEF InFlight, InRing, InQueue, InFired
  <2>2. InFlight(op)
    BY <2>1, PlacedIsInFlight DEF StreamInv
  <2>3. Faithful(op)
    BY <2>2 DEF StreamInv
  <2> QED
    BY <1>1, <2>3 DEF Faithful, InRing, InFired
<1> QED
  BY <1>1, <1>2, <1>6, <1>7, <1>8, <1>9 DEF StreamInv

\* The next connection begins with an empty output and a read.
LEMMA AcceptStream ==
  ASSUME StreamInv, Accept
  PROVE  StreamInv'
<1>1. freed = TRUE /\ Operations = <<>> /\ ConversationInv /\ ConversationInv'
  BY AcceptKeeps DEF Accept, StreamInv, ConversationInv
<1>2. Quiet
  <2>1. ASSUME NEW op, InFlight(op) PROVE FALSE
    <3>1. Operations = <<op>>
      BY <2>1, OperationsAre DEF InFlight
    <3> QED
      BY <1>1, <3>1
  <2> QED
    BY <1>1, <2>1 DEF ConversationInv
<1>3. /\ freed' = FALSE /\ closeAfter' = FALSE /\ closing' = "no"
      /\ buf' = <<>> /\ reply' = <<>> /\ sentlen' = sentlen /\ totwritten' = totwritten
      /\ querybuf' = <<>> /\ qtail'.parts = <<>> /\ inbox' = <<>> /\ wire' = <<>>
      /\ produced' = 0 /\ cq' = <<>> /\ fired' = <<>>
      /\ Prepare(ReadOp(conn + 1, <<>>, 0))
  BY <1>1, <1>2 DEF Accept, outvars, loopvars, ConversationInv, FreedEmpty, Quiet
<1>4. PICK w : w = ReadOp(conn + 1, <<>>, 0)
  OBVIOUS
<1>5. w.kind = "READABLE" /\ w.ret = 0
  BY <1>4 DEF ReadOp
<1>6. ring' = <<w>>
  BY <1>2, <1>3, <1>4 DEF Prepare, Quiet
<1>7. Ret' = 0 /\ \A op : InFlight(op)' => Faithful(op)'
  BY <1>3, <1>5, <1>6, OnePrepared
<1>8. sentlen = 0
  <2>1. buf = <<>> /\ reply = <<>>
    BY <1>1 DEF ConversationInv, FreedEmpty
  <2> QED
    BY <2>1, OutFacts DEF StreamInv, WireAndOutput, Holds, Within
<1>9. Holds(Out', 0, 0)
  <2>1. Laid(<<>>, <<>>, 0, 0) /\ 0 \in Nat
    BY LaidNothing
  <2>2. Out' = [buf |-> <<>>, reply |-> <<>>, sentlen |-> 0, tot |-> totwritten]
    BY <1>3, <1>8 DEF Out
  <2> QED
    BY <2>1, <2>2, WithinZero DEF Holds
<1>10. Run(0, 0 + sentlen' + Ret') = <<>>
  <2>1. 0 + sentlen' + Ret' = 0
    BY <1>3, <1>7, <1>8
  <2>2. Run(0, 0) = <<>>
    BY RunFacts
  <2> QED
    BY <2>1, <2>2
<1>11. WireAndOutput'
  BY <1>3, <1>9, <1>10 DEF WireAndOutput
<1>12. PartsOK' /\ closeAfter' \in BOOLEAN
  <2>1. <<>> \in Seq(Parts)
    OBVIOUS
  <2> QED
    BY <1>3, <2>1 DEF PartsOK
<1> QED
  BY <1>1, <1>3, <1>7, <1>11, <1>12 DEF StreamInv

\* A message is pushed: the only operation in flight can be a write, and it stays one for
\* what is to be sent next.
LEMMA PushStream ==
  ASSUME StreamInv, Push, Pushes = FALSE
  PROVE  StreamInv'
<1> DEFINE p == AddUnit(Out, produced + 1)
<1>1. ConversationInv /\ ConversationInv'
  BY PushKeeps DEF StreamInv
<1>2. /\ SetOut(p) /\ produced' = produced + 1 /\ freed = FALSE /\ closing = "no"
      /\ UNCHANGED <<querybuf, conn, freed, closing, closeAfter, ring, cq, fired, res, inbox,
                     qtail, wire>>
  BY <1>1 DEF Push, queryvars, lifevars, loopvars, peervars, ConversationInv
<1>3. PICK a : Holds(Out, a, produced) /\ wire = Run(0, a + sentlen + Ret)
  BY <1>2 DEF StreamInv, WireAndOutput
<1>4. /\ Holds(p, a, produced + 1) /\ p.sentlen = sentlen
      /\ \A op : WriteOf(op, Out) => WriteOf(op, p)
  <2>1. PICK o : o = Out
    OBVIOUS
  <2>2. PICK top : top = produced
    OBVIOUS
  <2>3. Holds(o, a, top)
    BY <1>3, <2>1, <2>2
  <2>4. /\ Holds(AddUnit(o, top + 1), a, top + 1)
        /\ AddUnit(o, top + 1).sentlen = o.sentlen
        /\ \A op : WriteOf(op, o) => WriteOf(op, AddUnit(o, top + 1))
    BY <2>3, AddUnitHolds
  <2> QED
    BY <2>1, <2>2, <2>4, OutFacts
<1> HIDE DEF p
<1>5. Out' = p /\ sentlen' = sentlen
  <2>1. Out' = [buf |-> p.buf, reply |-> p.reply, sentlen |-> p.sentlen, tot |-> p.tot]
    BY <1>2 DEF SetOut, Out
  <2> QED
    BY <1>2, <1>4, <2>1 DEF Holds, SetOut
<1>6. Ret' = Ret
  <2>1. Operations' = Operations
    BY <1>2 DEF Operations
  <2> QED
    BY <2>1 DEF Ret
<1>7. WireAndOutput'
  BY <1>2, <1>3, <1>4, <1>5, <1>6 DEF WireAndOutput
<1>8. ASSUME NEW op, InFlight(op)' PROVE Faithful(op)'
  <2>1. InFlight(op)
    <3>1. InRing(op) \/ InQueue(op) \/ InFired(op)
      BY <1>2, <1>8 DEF InFlight, InRing, InQueue, InFired
    <3> QED
      BY <1>1, <3>1, PlacedIsInFlight
  <2>2. Faithful(op)
    BY <2>1 DEF StreamInv
  <2> QED
    BY <1>2, <1>4, <1>5, <2>2 DEF Faithful, InRing, InFired
<1>9. PartsOK'
  BY <1>2 DEF StreamInv, PartsOK
<1> QED
  BY <1>1, <1>2, <1>7, <1>8, <1>9 DEF StreamInv

\* The queue is served: the first write of a reply is prepared.
LEMMA FlushStream ==
  ASSUME StreamInv, FlushPendingWrites
  PROVE  StreamInv'
<1>1. ConversationInv /\ ConversationInv' /\ Quiet
  BY FlushKeeps DEF FlushPendingWrites, StreamInv, ConversationInv, InFlight, Carries
<1>2. /\ UNCHANGED <<buf, reply, sentlen, totwritten, produced, freed, wire, closeAfter, closing,
                     querybuf, inbox, qtail, cq, fired, res>>
  BY DEF FlushPendingWrites, outvars, queryvars, lifevars, loopvars, peervars
<1>3. Out' = Out
  BY <1>2 DEF Out
<1>4. Ret = 0 /\ ring = <<>> /\ cq' = <<>> /\ fired' = <<>>
  BY <1>1, <1>2, RetIs DEF RetFacts, Quiet
<1>5. Ret' = 0 /\ \A op : InFlight(op)' => Faithful(op)'
  <2>1. CASE NothingPrepared
    <3>1. ring' = <<>>
      BY <1>4, <2>1 DEF NothingPrepared
    <3> QED
      BY <1>4, <3>1, NonePrepared
  <2>2. CASE HasPending(Out) /\ Prepare(WriteOp(Out))
    <3>1. PICK w : w = WriteOp(Out)
      OBVIOUS
    <3>2. ring' = <<w>>
      BY <1>4, <2>2, <3>1 DEF Prepare
    <3>3. PICK a : Holds(Out, a, produced)
      BY DEF StreamInv, WireAndOutput
    <3>4. WriteOf(w, Out) /\ w.ret = 0
      BY <2>2, <3>1, <3>3, PreparedWrite
    <3> QED
      BY <1>3, <1>4, <3>2, <3>4, OnePrepared
  <2> QED
    BY <2>1, <2>2 DEF FlushPendingWrites, WriteToClient
<1>6. PartsOK'
  BY <1>2 DEF StreamInv, PartsOK
<1> QED
  BY <1>1, <1>2, <1>4, <1>5, <1>6, SameStream DEF StreamInv

\* The read is done: what was received is executed, and nothing is in flight.
LEMMA ReadDoneStream ==
  ASSUME StreamInv, Dispatch, ReadDone, Head(fired).mask = "READABLE"
  PROVE  /\ StreamInv' /\ Ret = 0 /\ Ret' = 0 /\ freed = FALSE
         /\ closing' = closing \/ (closing = "no" /\ closing' = "aborted")
         /\ produced' \in Nat /\ produced' >= produced
         /\ produced' # produced =>
              closing = "no" /\ closing' = "no" /\ closeAfter = FALSE
         /\ produced' = produced => closeAfter' = closeAfter
<1>1. ConversationInv /\ ConversationInv'
  BY DispatchKeeps DEF StreamInv
<1>2. PICK op : InFlight(op) /\ InFired(op) /\ Carries(op)
  BY <1>1 DEF Dispatch, ConversationInv, Quiet, InFlight, InRing, InQueue
<1>3. /\ op.kind = "READABLE" /\ Faithful(op) /\ res = op.ret /\ Ret = 0
      /\ closing \in {"no", "killed"}
  <2>1. op.kind = "READABLE"
    BY <1>2 DEF InFired
  <2>2. Faithful(op) /\ Ret = Written(op)
    BY <1>2, RetIs DEF StreamInv, RetFacts
  <2> QED
    BY <1>2, <2>1, <2>2 DEF Faithful, Written, Carries
<1>4. /\ ring' = <<>> /\ cq' = <<>> /\ fired' = <<>>
      /\ UNCHANGED <<conn, freed, inbox, qtail, wire>> /\ freed = FALSE
  <2>1. Tail(fired) = <<>>
    BY <1>2 DEF InFired
  <2> QED
    BY <1>1, <1>2, <2>1 DEF Dispatch, ReadDone, AfterRead, NothingPrepared, InFired, peervars,
       ConversationInv
<1>5. Ret' = 0 /\ \A x : ~InFlight(x)'
  BY <1>4, NonePrepared
<1>6. res \in Int /\ closeAfter \in BOOLEAN /\ closing # "drained"
  BY <1>3 DEF Faithful, StreamInv
<1> DEFINE q == querybuf \o Received(res)
           s == ProcessInputBuffer(q)
<1>7. ASSUME res > 0 PROVE q \in Seq(Parts)
  <2>1. res \in Nat
    BY <1>6, <1>7
  <2>2. Received(res) \in Seq(Parts)
    <3>1. \A i \in DOMAIN qtail.parts : qtail.parts[i] \in Parts
      BY ElementOfSeq, LenProperties DEF StreamInv, PartsOK
    <3>2. \A i \in 1..res : Received(res)[i] \in Parts
      BY <3>1 DEF Received, Parts
    <3> QED
      BY <2>1, <3>2 DEF Received
  <2> QED
    BY <2>2, ConcatProperties DEF StreamInv, PartsOK
<1>8. PICK a : Holds(Out, a, produced) /\ wire = Run(0, a + sentlen + 0)
  BY <1>3, <1>4 DEF StreamInv, WireAndOutput
<1>9. produced \in Nat
  BY <1>8, LaidFacts DEF Holds
<1> HIDE DEF q, s
<1>10. CASE /\ UNCHANGED <<outvars, produced, closeAfter>>
            /\ querybuf' = querybuf \/ (res > 0 /\ querybuf' = q)
            /\ closing' = closing \/ closing' = FreeAsync("aborted")
  <2>1. PartsOK'
    BY <1>4, <1>7, <1>10 DEF StreamInv, PartsOK
  <2>2. UNCHANGED <<buf, reply, sentlen, totwritten, produced, freed, wire>>
    BY <1>4, <1>10 DEF outvars
  <2>3. closing' = closing \/ (closing = "no" /\ closing' = "aborted")
    BY <1>10 DEF FreeAsync
  <2>4. StreamInv'
    BY <1>1, <1>3, <1>5, <1>6, <1>10, <2>1, <2>2, <2>3, SameStream
  <2>5. produced' \in Nat /\ produced' >= produced /\ produced' = produced /\ closeAfter' = closeAfter
    BY <1>9, <1>10
  <2> QED
    BY <1>3, <1>4, <1>5, <2>3, <2>4, <2>5
<1>11. CASE /\ res > 0 /\ querybuf' = s.rest /\ SetOut(s.out)
            /\ closeAfter' = s.quit /\ produced' = s.made /\ UNCHANGED closing
  <2>1. Reached(s, a)
    BY <1>6, <1>7, <1>8, <1>11, InputReaches DEF s
  <2>2. Out' = s.out /\ sentlen' = sentlen
    <3>1. Out' = [buf |-> s.out.buf, reply |-> s.out.reply, sentlen |-> s.out.sentlen,
                  tot |-> s.out.tot]
      BY <1>11 DEF SetOut, Out
    <3> QED
      BY <1>11, <2>1, <3>1 DEF Holds, SetOut, Reached
  <2>3. Holds(Out', a, produced')
    BY <1>11, <2>1, <2>2 DEF Reached
  <2>4. WireAndOutput'
    BY <1>4, <1>5, <1>8, <2>2, <2>3 DEF WireAndOutput
  <2>5. PartsOK' /\ closeAfter' \in BOOLEAN
    BY <1>4, <1>11, <2>1 DEF StreamInv, PartsOK, Reached
  <2>6. StreamInv'
    BY <1>1, <1>5, <1>6, <1>11, <2>4, <2>5 DEF StreamInv
  <2>7. /\ produced' \in Nat /\ produced' >= produced
        /\ produced' # produced => closing = "no" /\ closeAfter = FALSE
        /\ produced' = produced => closeAfter' = closeAfter
    BY <1>6, <1>11, <2>1 DEF Reached
  <2> QED
    BY <1>3, <1>4, <1>5, <1>11, <2>6, <2>7
<1> QED
  BY <1>10, <1>11 DEF ReadDone, queryvars, q, s

\* The write is done: what it wrote is accounted for, and what is left is written, or the
\* next request is read, or the client is to be freed with nothing left.
LEMMA WriteDoneStream ==
  ASSUME StreamInv, Dispatch, WriteDone, Head(fired).mask = "WRITABLE"
  PROVE  /\ StreamInv' /\ freed = FALSE
         /\ closing' = closing \/ (closing = "no" /\ closing' = "drained" /\ closeAfter = TRUE)
         /\ produced' = produced /\ closeAfter' = closeAfter
<1>1. ConversationInv /\ ConversationInv'
  BY DispatchKeeps DEF StreamInv
<1>2. PICK op : InFlight(op) /\ InFired(op) /\ Carries(op)
  BY <1>1 DEF Dispatch, ConversationInv, Quiet, InFlight, InRing, InQueue
<1>3. /\ ring = <<>> /\ cq' = <<>> /\ fired' = <<>>
      /\ UNCHANGED <<conn, freed, inbox, qtail, wire>> /\ freed = FALSE
  <2>1. Tail(fired) = <<>>
    BY <1>2 DEF InFired
  <2> QED
    BY <1>1, <1>2, <2>1 DEF Dispatch, InFired, peervars, ConversationInv
<1>4. /\ op.kind = "WRITABLE" /\ res = op.ret /\ res \in Int /\ WriteOf(op, Out)
      /\ res <= Len(op.cells) /\ Ret = (IF res > 0 THEN res ELSE 0)
      /\ closing \in {"no", "killed"}
  <2>1. op.kind = "WRITABLE"
    BY <1>2 DEF InFired
  <2>2. Faithful(op) /\ Ret = Written(op)
    BY <1>2, RetIs DEF StreamInv, RetFacts
  <2> QED
    BY <1>2, <1>3, <2>1, <2>2 DEF Faithful, Written, Carries
<1>5. UNCHANGED <<querybuf, closeAfter, produced>> /\ closeAfter \in BOOLEAN
  BY DEF WriteDone, StreamInv
<1>6. PartsOK'
  BY <1>3, <1>5 DEF StreamInv, PartsOK
<1>7. PICK a : Holds(Out, a, produced) /\ wire = Run(0, a + sentlen + Ret)
  BY <1>3 DEF StreamInv, WireAndOutput
<1>8. CASE res <= 0 /\ NothingPrepared /\ UNCHANGED <<outvars, submitted, closing>>
  <2>1. ring' = <<>> /\ UNCHANGED <<buf, reply, sentlen, totwritten, closing>>
    BY <1>3, <1>8 DEF NothingPrepared, outvars
  <2>2. Ret' = 0 /\ Ret = 0 /\ \A x : ~InFlight(x)'
    BY <1>3, <1>4, <1>8, <2>1, NonePrepared
  <2>3. StreamInv'
    BY <1>1, <1>3, <1>4, <1>5, <1>6, <2>1, <2>2, SameStream
  <2> QED
    BY <1>3, <1>5, <2>1, <2>3
<1> DEFINE o == Ack(Out, res)
<1>9. ASSUME res > 0
      PROVE  \E c \in Nat : Holds(o, c, produced) /\ wire = Run(0, c + o.sentlen + 0)
  <2>1. /\ res \in Nat /\ res >= 1 /\ HasPending(Out) /\ Len(op.cells) \in Nat
        /\ Len(op.cells) <= Len(Object(Out)) - sentlen
    BY <1>4, <1>9, OutFacts DEF WriteOf
  <2>2. Len(Object(Out)) \in Nat /\ sentlen \in Nat /\ a \in Nat
    BY <1>7, <2>1, ObjectIs, OutFacts
  <2>3. res <= Len(Object(Out)) - Out.sentlen
    BY <1>4, <2>1, <2>2, OutFacts
  <2>4. PICK c \in Nat : Holds(o, c, produced) /\ c + o.sentlen = a + Out.sentlen + res
    <3>1. PICK x : x = Out
      OBVIOUS
    <3>2. PICK top : top = produced
      OBVIOUS
    <3>3. Holds(x, a, top) /\ HasPending(x) /\ res <= Len(Object(x)) - x.sentlen
      BY <1>7, <2>1, <2>3, <3>1, <3>2
    <3>4. PICK n : n = res
      OBVIOUS
    <3>5. \E c \in Nat : Holds(Ack(x, n), c, top) /\ c + Ack(x, n).sentlen = a + x.sentlen + n
      BY <2>1, <3>3, <3>4, AckHolds
    <3> QED
      BY <3>1, <3>2, <3>4, <3>5
  <2>5. o.sentlen \in Nat
    BY <2>4 DEF Holds, Within
  <2>6. c + o.sentlen + 0 = a + sentlen + Ret
    BY <1>4, <1>9, <2>2, <2>4, <2>5, OutFacts
  <2> QED
    BY <1>7, <2>4, <2>6
<1> HIDE DEF o
<1>10. ASSUME res > 0, NEW x, SetOut(x), x.sentlen = o.sentlen,
              x = [buf |-> o.buf, reply |-> o.reply, sentlen |-> x.sentlen, tot |-> x.tot],
              Ret' = 0, closing' \in {"no", "killed"} \/ ~HasPending(o),
              \A y : InFlight(y)' => Faithful(y)'
       PROVE  StreamInv'
  <2>1. PICK c \in Nat : Holds(o, c, produced) /\ wire = Run(0, c + o.sentlen + 0)
    BY <1>9, <1>10
  <2>2. Out' = x /\ sentlen' = x.sentlen
    <3>1. Out' = [buf |-> x.buf, reply |-> x.reply, sentlen |-> x.sentlen, tot |-> x.tot]
      BY <1>10 DEF SetOut, Out
    <3> QED
      BY <1>10, <3>1 DEF SetOut
  <2>3. x.buf = o.buf /\ x.reply = o.reply
    BY <1>10
  <2>4. Holds(x, c, produced)
    BY <1>10, <2>1, <2>3 DEF Holds
  <2>5. WireAndOutput'
    BY <1>3, <1>5, <1>10, <2>1, <2>2, <2>4 DEF WireAndOutput
  <2>6. closing' = "drained" => ~HasPending(Out')
    BY <1>10, <2>2, <2>3 DEF HasPending
  <2> QED
    BY <1>1, <1>5, <1>6, <1>10, <2>5, <2>6 DEF StreamInv
<1>11. ASSUME res > 0
       PROVE  o = [buf |-> o.buf, reply |-> o.reply, sentlen |-> o.sentlen, tot |-> o.tot]
  BY <1>9, <1>11 DEF Holds
<1>12. CASE res > 0 /\ SetOut(o) /\ NothingPrepared /\ UNCHANGED <<submitted, closing>>
  <2>1. ring' = <<>>
    BY <1>3, <1>12 DEF NothingPrepared
  <2>2. Ret' = 0 /\ \A x : ~InFlight(x)'
    BY <1>3, <2>1, NonePrepared
  <2>3. StreamInv'
    BY <1>4, <1>10, <1>11, <1>12, <2>2
  <2> QED
    BY <1>3, <1>5, <1>12, <2>3
<1>13. CASE res > 0 /\ SetOut(o) /\ HasPending(o) /\ WriteToClient(o) /\ UNCHANGED closing
  <2>1. PICK x : x = o
    OBVIOUS
  <2>2. PICK w : w = WriteOp(x)
    OBVIOUS
  <2>3. ring' = <<w>>
    BY <1>3, <1>13, <2>1, <2>2 DEF WriteToClient, Prepare
  <2>4. PICK c \in Nat : Holds(o, c, produced)
    BY <1>9, <1>13
  <2>5. WriteOf(w, x) /\ w.ret = 0
    <3>1. PICK top : top = produced
      OBVIOUS
    <3>2. Holds(x, c, top) /\ HasPending(x)
      BY <1>13, <2>1, <2>4, <3>1
    <3> QED
      BY <2>2, <3>2, PreparedWrite
  <2>6. Out' = x
    <3>1. Out' = [buf |-> x.buf, reply |-> x.reply, sentlen |-> x.sentlen, tot |-> x.tot]
      BY <1>13, <2>1 DEF SetOut, Out
    <3> QED
      BY <1>11, <1>13, <2>1, <3>1
  <2>7. Ret' = 0 /\ \A y : InFlight(y)' => Faithful(y)'
    BY <1>3, <2>3, <2>5, <2>6, OnePrepared
  <2>8. StreamInv'
    BY <1>4, <1>10, <1>11, <1>13, <2>7
  <2> QED
    BY <1>3, <1>5, <1>13, <2>8
<1>14. CASE /\ res > 0 /\ ~HasPending(o) /\ SetOut([o EXCEPT !.sentlen = 0, !.tot = 0])
            /\ closing' = CloseWhenDrained
            /\ IF ReadsOn THEN SetCreateReadEvent ELSE NothingPrepared /\ UNCHANGED submitted
  <2>1. o.sentlen = 0
    BY <1>9, <1>14 DEF Holds, Within, HasPending
  <2>2. PICK x : x = [o EXCEPT !.sentlen = 0, !.tot = 0]
    OBVIOUS
  <2>3. /\ x = [buf |-> o.buf, reply |-> o.reply, sentlen |-> x.sentlen, tot |-> x.tot]
        /\ x.sentlen = o.sentlen /\ SetOut(x)
    BY <1>11, <1>14, <2>1, <2>2
  <2>4. Ret' = 0 /\ \A y : InFlight(y)' => Faithful(y)'
    <3>1. CASE ReadsOn
      <4>1. PICK w : w = ReadOp(conn, querybuf, qgen)
        OBVIOUS
      <4>2. ring' = <<w>> /\ w.kind = "READABLE" /\ w.ret = 0
        BY <1>3, <1>14, <3>1, <4>1 DEF SetCreateReadEvent, Prepare, ReadOp
      <4> QED
        BY <1>3, <4>2, OnePrepared
    <3>2. CASE ~ReadsOn
      <4>1. ring' = <<>>
        BY <1>3, <1>14, <3>2 DEF NothingPrepared
      <4> QED
        BY <1>3, <4>1, NonePrepared
    <3> QED
      BY <3>1, <3>2
  <2>5. StreamInv'
    BY <1>10, <1>14, <2>3, <2>4
  <2>6. closing' = closing \/ (closing = "no" /\ closing' = "drained" /\ closeAfter = TRUE)
    BY <1>5, <1>14 DEF CloseWhenDrained, FreeAsync
  <2> QED
    BY <1>3, <1>5, <2>5, <2>6
<1> QED
  BY <1>8, <1>12, <1>13, <1>14 DEF WriteDone, o

\* Every step keeps the invariant, if no message is pushed to a client that is waiting.
LEMMA StreamInvStep ==
  ASSUME Pushes = FALSE
  PROVE  StreamInv /\ [Next]_vars => StreamInv'
<1> SUFFICES ASSUME StreamInv, [Next]_vars PROVE StreamInv'
  OBVIOUS
<1>1. CASE Poll
  BY <1>1, PollStream
<1>2. CASE Dispatch
  BY <1>2, ReadDoneStream, WriteDoneStream DEF Dispatch
<1>3. CASE FlushPendingWrites
  BY <1>3, FlushStream
<1>4. CASE Push
  BY <1>4, PushStream
<1>5. CASE FreeClientsInAsyncFreeQueue
  BY <1>5, FreeStream
<1>6. CASE Accept
  BY <1>6, AcceptStream
<1>7. CASE \E i \in DOMAIN ring : RingRead(i)
  BY <1>7, RingReadStream
<1>8. CASE \E i \in DOMAIN ring : RingWrite(i)
  BY <1>8, RingWriteStream
<1>9. CASE \E i \in DOMAIN ring : RingFail(i)
  BY <1>9, RingFailStream
<1>10. CASE ResizeQueryBuffer \/ KillClient \/ PeerSend \/ PeerRead \/ PeerClose \/ UNCHANGED vars
  BY <1>10, AsideSteps
<1> QED
  BY <1>1, <1>2, <1>3, <1>4, <1>5, <1>6, <1>7, <1>8, <1>9, <1>10 DEF Next

\* It holds when the first connection was accepted.
LEMMA StreamInvInit == Init => StreamInv
<1> SUFFICES ASSUME Init PROVE StreamInv
  OBVIOUS
<1>1. ConversationInv
  BY ConversationInit
<1>2. /\ buf = <<>> /\ reply = <<>> /\ sentlen = 0 /\ totwritten = 0 /\ produced = 0
      /\ wire = <<>> /\ closing = "no" /\ closeAfter = FALSE /\ ring = <<ReadOp(1, <<>>, 0)>>
      /\ cq = <<>> /\ fired = <<>> /\ querybuf = <<>> /\ inbox = <<>> /\ qtail.parts = <<>>
  BY DEF Init
<1>3. PICK w : w = ReadOp(1, <<>>, 0)
  OBVIOUS
<1>4. w.kind = "READABLE" /\ w.ret = 0
  BY <1>3 DEF ReadOp
<1>5. ASSUME NEW op, InFlight(op) PROVE op = w
  BY <1>2, <1>3, <1>5 DEF InFlight, InRing, InQueue, InFired
<1>6. \E op : InFlight(op)
  BY <1>1, <1>2 DEF ConversationInv, Quiet
<1>7. Faithful(w) /\ Ret = 0
  BY <1>2, <1>4, <1>5, <1>6, RetIs DEF RetFacts, Written, Faithful, InFired
<1>8. Holds(Out, 0, 0) /\ Run(0, 0 + sentlen + Ret) = <<>>
  <2>1. Laid(<<>>, <<>>, 0, 0) /\ 0 \in Nat
    BY LaidNothing
  <2>2. Run(0, 0) = <<>> /\ 0 + sentlen + Ret = 0
    BY <1>2, <1>7, RunFacts
  <2> QED
    BY <1>2, <2>1, <2>2, WithinZero, OutFacts DEF Holds
<1>9. WireAndOutput
  BY <1>2, <1>8 DEF WireAndOutput
<1>10. PartsOK
  <2>1. <<>> \in Seq(Parts)
    OBVIOUS
  <2> QED
    BY <1>2, <2>1 DEF PartsOK
<1> QED
  BY <1>1, <1>2, <1>5, <1>7, <1>9, <1>10 DEF StreamInv

\* The invariant of the stream holds in every state.
LEMMA StreamInvariant ==
  ASSUME Pushes = FALSE
  PROVE  Spec => []StreamInv
<1>1. StreamInv /\ [Next]_vars => StreamInv'
  BY StreamInvStep
<1> QED
  BY <1>1, StreamInvInit, PTL DEF Spec

-----------------------------------------------------------------------------
(* Steps of the client as steps of the stream. *)

\* What the mapping of ReplyStream gives.
Pend == IF freed THEN <<>> ELSE SubSeq(Unsent, 1 + Taken, Len(Unsent))

StreamState ==
  IF closing \in {"aborted", "killed"} THEN "aborted"
  ELSE IF closing = "drained" THEN "done"
  ELSE IF closeAfter THEN "last" ELSE "open"

\* While the client lives, the socket has the units up to Len(wire), pending are the others.
PendIsRun ==
  /\ wire = Run(0, Len(wire)) /\ Len(wire) \in Nat /\ produced \in Nat
  /\ Len(wire) <= produced /\ Pend = Run(Len(wire), produced)
  /\ ~HasPending(Out) => Len(wire) = produced

\* What is still to be sent to a client is the run behind what the peer has been sent.
LEMMA PendRun == StreamInv /\ freed = FALSE => PendIsRun
<1> SUFFICES ASSUME StreamInv, freed = FALSE PROVE PendIsRun
  OBVIOUS
<1>1. PICK a : Holds(Out, a, produced) /\ wire = Run(0, a + sentlen + Ret)
  BY DEF StreamInv, WireAndOutput
<1>2. Laid(buf, reply, a, produced) /\ Within(buf, reply, sentlen)
  BY <1>1, OutFacts DEF Holds
<1>3. a \in Nat /\ sentlen \in Nat /\ produced \in Nat
  BY <1>2, LaidFacts DEF Within
<1>4. /\ Unsent = Run(a + sentlen, produced) /\ a + sentlen \in Nat /\ a + sentlen <= produced
      /\ buf = <<>> /\ reply = <<>> <=> a + sentlen = produced
  <2>1. Unsent = UnsentOf(buf, reply, sentlen)
    BY DEF Unsent, Listed, UnsentOf
  <2> QED
    BY <1>2, <2>1, UnsentRun
<1>5. Ret \in Nat /\ a + sentlen + Ret <= produced /\ (~HasPending(Out) => Ret = 0)
  <2>1. CASE Ret = 0
    BY <1>4, <2>1
  <2>2. CASE Ret # 0
    <3>1. PICK op : InFlight(op)
      BY <2>2, RetIs DEF RetFacts, StreamInv, ConversationInv
    <3>2. Faithful(op) /\ Ret = Written(op)
      BY <3>1, RetIs DEF RetFacts, StreamInv
    <3>3. /\ op.kind = "WRITABLE" /\ Ret = op.ret /\ op.ret \in Int /\ op.ret > 0
          /\ WriteOf(op, Out) /\ op.ret <= Len(op.cells)
      BY <2>2, <3>2 DEF Written, Faithful
    <3>4. /\ HasPending(Out) /\ Len(op.cells) \in Nat
          /\ Len(op.cells) <= Len(Object(Out)) - sentlen
      BY <3>3, OutFacts DEF WriteOf
    <3>5. Len(Object(Out)) \in Nat /\ a + Len(Object(Out)) <= produced
      BY <1>1, <3>4, ObjectIs
    <3> QED
      BY <1>3, <3>3, <3>4, <3>5
  <2> QED
    BY <2>1, <2>2
<1> DEFINE x == a + sentlen
           w == a + sentlen + Ret
<1>6. x \in Nat /\ x <= produced /\ w \in Nat /\ 0 <= w /\ w = x + Ret /\ w <= produced
      /\ Ret \in 0..(produced - x) /\ w - 0 = w
  BY <1>3, <1>4, <1>5
<1>7. Unsent = Run(x, produced) /\ wire = Run(0, w)
  BY <1>1, <1>4
<1> HIDE DEF x, w
<1>8. Len(wire) = w
  <2>1. Len(Run(0, w)) = w - 0
    BY <1>6, RunFacts
  <2> QED
    BY <1>6, <1>7, <2>1
<1>9. Len(Unsent) = produced - x
  BY <1>3, <1>6, <1>7, RunFacts
<1>10. 1 + Taken = Ret + 1
  <2>1. Taken = w - (produced - (produced - x))
    BY <1>8, <1>9 DEF Taken
  <2> QED
    BY <1>3, <1>5, <1>6, <2>1
<1>11. Pend = Run(w, produced)
  <2>1. Pend = SubSeq(Run(x, produced), Ret + 1, produced - x)
    BY <1>7, <1>9, <1>10 DEF Pend
  <2>2. SubSeq(Run(x, produced), Ret + 1, produced - x) = Run(x + Ret, produced)
    BY <1>3, <1>6, RunSplit
  <2> QED
    BY <1>6, <2>1, <2>2
<1>12. ~HasPending(Out) => w = produced
  BY <1>4, <1>5, <1>6, OutFacts DEF HasPending, x
<1> QED
  BY <1>3, <1>6, <1>7, <1>8, <1>11, <1>12 DEF PendIsRun

\* The client is there.
Living == freed = FALSE

\* What is still to be sent after a step.
LEMMA PendRunNext == StreamInv' /\ freed' = FALSE => PendIsRun'
<1>1. StreamInv /\ Living => PendIsRun
  BY PendRun DEF Living
<1>2. StreamInv' /\ Living' => PendIsRun'
  BY <1>1, PTL
<1> QED
  BY <1>2 DEF Living

\* The socket takes none, some or all of what is pending; the connection stays as it is,
\* or ends: aborted, or drained when it was to close after its reply.
LEMMA StreamMoves ==
  ASSUME StreamInv, StreamInv', freed = FALSE, freed' = FALSE, produced' = produced,
         closeAfter' = closeAfter, Len(wire) <= Len(wire'),
         \/ closing' = closing
         \/ closing = "no" /\ closing' = "drained" /\ closeAfter = TRUE
         \/ closing = "no" /\ closing' \in {"aborted", "killed"}
  PROVE  [RS!Next]_RS!rsvars
<1> DEFINE w == Len(wire)
           v == Len(wire')
           n == v - w
<1>1. /\ wire = Run(0, w) /\ w \in Nat /\ produced \in Nat /\ w <= produced
      /\ Pend = Run(w, produced)
  BY PendRun DEF PendIsRun
<1>2. /\ wire' = Run(0, v) /\ v \in Nat /\ v <= produced /\ Pend' = Run(v, produced)
      /\ ~HasPending(Out)' => v = produced
  BY PendRunNext DEF PendIsRun
<1>3. closing \in {"no", "drained", "aborted", "killed"} /\ closeAfter \in BOOLEAN
  BY DEF StreamInv, ConversationInv
<1>4. w <= v
  OBVIOUS
<1>5. closing' = "drained" => v = produced
  BY <1>2 DEF StreamInv
<1> HIDE DEF w, v
<1>6. /\ n \in 0..(produced - w) /\ n \in Nat /\ w + n = v
      /\ (v # w => n # 0)
  BY <1>1, <1>2, <1>4
<1> HIDE DEF n
<1>7. Len(Pend) = produced - w
  BY <1>1, RunFacts
<1>8. Pend' = SubSeq(Pend, n + 1, Len(Pend)) /\ SubSeq(Pend, 1, n) = Run(w, v)
  <2>1. /\ SubSeq(Run(w, produced), n + 1, produced - w) = Run(w + n, produced)
        /\ SubSeq(Run(w, produced), 1, n) = Run(w, w + n)
    BY <1>1, <1>6, RunSplit
  <2> QED
    BY <1>1, <1>2, <1>6, <1>7, <2>1
<1>9. wire' = wire \o SubSeq(Pend, 1, n)
  <2>1. Run(0, w) \o Run(w, v) = Run(0, v)
    <3>1. 0 \in Nat /\ 0 <= w
      BY <1>1
    <3> QED
      BY <1>1, <1>2, <1>4, <3>1, RunConcat
  <2> QED
    BY <1>1, <1>2, <1>8, <2>1
<1>10. CASE closing' = closing /\ v = w
  <2>1. UNCHANGED <<Pend, wire, StreamState>>
    BY <1>1, <1>2, <1>10 DEF StreamState
  <2> QED
    BY <2>1 DEF RS!rsvars, Pend, StreamState
<1>11. CASE closing' = closing /\ v # w
  <2>1. n \in 1..Len(Pend)
    BY <1>6, <1>7, <1>11
  <2>2. StreamState' = StreamState
    BY <1>11 DEF StreamState
  <2>3. RS!Deliver
    BY <1>8, <1>9, <2>1, <2>2 DEF RS!Deliver, Pend, StreamState
  <2> QED
    BY <2>3 DEF RS!Next
<1>12. CASE closing = "no" /\ closing' = "drained" /\ closeAfter = TRUE
  <2>1. StreamState = "last" /\ StreamState' = "done"
    BY <1>12 DEF StreamState
  <2>2. Pend' = <<>>
    BY <1>2, <1>5, <1>12, RunFacts
  <2>3. n \in 0..Len(Pend)
    BY <1>6, <1>7
  <2>4. RS!DeliverAndClose
    BY <1>8, <1>9, <2>1, <2>2, <2>3 DEF RS!DeliverAndClose, Pend, StreamState
  <2> QED
    BY <2>4 DEF RS!Next
<1>13. CASE closing = "no" /\ closing' \in {"aborted", "killed"}
  <2>1. StreamState \in {"open", "last"} /\ StreamState' = "aborted"
    BY <1>13 DEF StreamState
  <2>2. n \in 0..Len(Pend)
    BY <1>6, <1>7
  <2>3. RS!DeliverAndClose
    BY <1>8, <1>9, <2>1, <2>2 DEF RS!DeliverAndClose, Pend, StreamState
  <2> QED
    BY <2>3 DEF RS!Next
<1> QED
  BY <1>10, <1>11, <1>12, <1>13

\* A step that leaves the wire alone, what is produced and the connection's end.
LEMMA StreamRests ==
  ASSUME StreamInv, StreamInv', freed' = freed,
         UNCHANGED <<wire, produced, closing, closeAfter>>
  PROVE  [RS!Next]_RS!rsvars
<1>1. CASE freed = FALSE
  <2>1. Len(wire) <= Len(wire')
    <3>1. Len(wire) \in Nat
      BY <1>1, PendRun DEF PendIsRun
    <3> QED
      BY <3>1
  <2> QED
    BY <1>1, <2>1, StreamMoves
<1>2. CASE freed = TRUE
  <2>1. UNCHANGED <<Pend, wire, StreamState>>
    BY <1>2 DEF Pend, StreamState
  <2> QED
    BY <2>1 DEF RS!rsvars, Pend, StreamState
<1> QED
  BY <1>1, <1>2 DEF StreamInv, ConversationInv

\* Replies that are added are pending behind all others.
LEMMA StreamGrows ==
  ASSUME StreamInv, StreamInv', freed = FALSE, freed' = FALSE, wire' = wire,
         closing = "no", closing' = "no", closeAfter = FALSE, produced < produced'
  PROVE  RS!Next
<1> DEFINE w == Len(wire)
           top == produced'
<1>1. /\ w \in Nat /\ produced \in Nat /\ w <= produced /\ Pend = Run(w, produced)
  BY PendRun DEF PendIsRun
<1>2. top \in Nat /\ Pend' = Run(w, top)
  BY PendRunNext DEF PendIsRun
<1>3. produced < top
  OBVIOUS
<1> HIDE DEF w, top
<1>4. RS!IsStrictPrefix(Pend, Pend')
  BY <1>1, <1>2, <1>3, RunPrefix DEF RS!IsStrictPrefix, RS!IsPrefix
<1>5. \A j \in (Len(Pend) + 1)..Len(Pend') : Pend'[j] \in Nat
  <2>1. \A j \in (Len(Pend) + 1)..Len(Pend') : Pend'[j] \in (produced + 1)..top
    BY <1>1, <1>2, <1>3, RunPrefix
  <2>2. (produced + 1)..top \subseteq Nat
    BY <1>1, <1>2
  <2> QED
    BY <2>1, <2>2
<1>6. StreamState = "open" /\ StreamState' \in {"open", "last"}
  BY DEF StreamState
<1>7. RS!Produce
  BY <1>4, <1>5, <1>6 DEF RS!Produce, Pend, StreamState
<1> QED
  BY <1>7 DEF RS!Next

\* freeClient(): what is pending for a client that is aborted is dropped; a client that
\* is freed after its reply has nothing pending.
LEMMA FreeIsDiscard ==
  ASSUME StreamInv, FreeClientsInAsyncFreeQueue
  PROVE  [RS!Next]_RS!rsvars
<1>1. /\ freed = FALSE /\ freed' = TRUE /\ closing # "no" /\ closing' = closing
      /\ closeAfter' = closeAfter /\ wire' = wire
  BY DEF FreeClientsInAsyncFreeQueue, peervars, StreamInv, ConversationInv
<1>2. Pend' = <<>> /\ StreamState' = StreamState
  BY <1>1 DEF Pend, StreamState
<1>3. CASE closing \in {"aborted", "killed"}
  <2>1. StreamState = "aborted"
    BY <1>3 DEF StreamState
  <2>2. RS!Discard
    BY <1>1, <1>2, <2>1 DEF RS!Discard, Pend, StreamState
  <2> QED
    BY <2>2 DEF RS!Next
<1>4. CASE closing = "drained"
  <2>1. Len(wire) = produced /\ produced \in Nat /\ Pend = Run(Len(wire), produced)
    BY <1>1, <1>4, PendRun DEF PendIsRun, StreamInv
  <2>2. Pend = <<>>
    BY <2>1, RunFacts
  <2> QED
    BY <1>1, <1>2, <2>2 DEF RS!rsvars, Pend, StreamState
<1> QED
  BY <1>1, <1>3, <1>4 DEF StreamInv, ConversationInv

\* The descriptor of a client that was freed is used again.
LEMMA AcceptIsReopen ==
  ASSUME StreamInv, StreamInv', Accept
  PROVE  RS!Next
<1>1. /\ freed = TRUE /\ freed' = FALSE /\ closeAfter' = FALSE /\ closing' = "no"
      /\ wire' = <<>> /\ produced' = 0 /\ closing # "no"
  BY DEF Accept, StreamInv, ConversationInv, FreedEmpty
<1>2. Pend = <<>> /\ StreamState \in {"done", "aborted"} /\ StreamState' = "open"
  BY <1>1 DEF Pend, StreamState, StreamInv, ConversationInv
<1>3. Pend' = <<>>
  <2>1. Pend' = Run(Len(wire'), produced')
    BY <1>1, PendRunNext DEF PendIsRun
  <2>2. Len(wire') = 0
    BY <1>1
  <2> QED
    BY <1>1, <2>1, <2>2, RunFacts
<1>4. RS!Reopen
  BY <1>1, <1>2, <1>3 DEF RS!Reopen, Pend, StreamState
<1> QED
  BY <1>4 DEF RS!Next

\* The socket takes the units of a write.
LEMMA RingWriteDelivers ==
  ASSUME StreamInv, StreamInv', NEW i \in DOMAIN ring, RingWrite(i)
  PROVE  [RS!Next]_RS!rsvars
<1>1. /\ freed = FALSE /\ freed' = FALSE /\ UNCHANGED <<produced, closing, closeAfter>>
  BY DEF RingWrite, Own, lifevars, StreamInv, ConversationInv
<1>2. PICK n \in 1..Len(ring[i].cells) :
        wire' = wire \o [j \in 1..n |-> Load(ring[i].cells[j])]
  BY DEF RingWrite
<1> DEFINE new == [j \in 1..n |-> Load(ring[i].cells[j])]
           values == Nat \cup {Load(ring[i].cells[j]) : j \in 1..n}
<1>3. n \in Nat
  OBVIOUS
<1>4. new \in Seq(values)
  BY <1>3
<1>5. wire \in Seq(values)
  <2>1. wire = Run(0, Len(wire)) /\ Len(wire) \in Nat
    BY <1>1, PendRun DEF PendIsRun
  <2>2. wire \in Seq(Nat)
    <3> DEFINE w == Len(wire)
    <3>1. wire = Run(0, w) /\ w \in Nat /\ 0 \in Nat /\ 0 <= w
      BY <2>1
    <3> HIDE DEF w
    <3> QED
      BY <3>1, RunFacts
  <2> QED
    BY <2>2
<1> HIDE DEF new, values
<1>6. Len(wire \o new) = Len(wire) + Len(new) /\ Len(new) \in Nat /\ Len(wire) \in Nat
  BY <1>4, <1>5, ConcatProperties, LenProperties
<1>7. Len(wire) <= Len(wire')
  BY <1>2, <1>6 DEF new
<1> QED
  BY <1>1, <1>7, StreamMoves

\* Every step of the client is a step of the stream, or leaves it alone.
LEMMA StreamStep ==
  ASSUME Pushes = FALSE
  PROVE  StreamInv /\ [Next]_vars => [RS!Next]_RS!rsvars
<1> SUFFICES ASSUME StreamInv, [Next]_vars PROVE [RS!Next]_RS!rsvars
  OBVIOUS
<1>1. StreamInv'
  BY StreamInvStep
<1>2. ASSUME freed = FALSE, wire' = wire PROVE Len(wire) <= Len(wire')
  <2>1. Len(wire) \in Nat
    BY <1>2, PendRun DEF PendIsRun
  <2> QED
    BY <1>2, <2>1
<1>3. freed \in BOOLEAN /\ closeAfter \in BOOLEAN
  BY DEF StreamInv, ConversationInv
<1>4. CASE Dispatch /\ Head(fired).mask = "READABLE" /\ ReadDone
  <2>1. /\ freed = FALSE /\ freed' = FALSE /\ wire' = wire
        /\ closing' = closing \/ (closing = "no" /\ closing' = "aborted")
        /\ produced \in Nat /\ produced' \in Nat /\ produced' >= produced
        /\ produced' # produced =>
             closing = "no" /\ closing' = "no" /\ closeAfter = FALSE
        /\ produced' = produced => closeAfter' = closeAfter
    <3>1. freed' = freed /\ wire' = wire
      BY <1>4 DEF Dispatch, peervars
    <3>2. freed = FALSE
      BY <1>4, ReadDoneStream
    <3> QED
      BY <1>4, <3>1, <3>2, ReadDoneStream, PendRun DEF PendIsRun
  <2>2. CASE produced' = produced
    BY <1>1, <1>2, <2>1, <2>2, StreamMoves
  <2>3. CASE produced' # produced
    <3>1. produced < produced'
      BY <2>1, <2>3
    <3> QED
      BY <1>1, <2>1, <2>3, <3>1, StreamGrows
  <2> QED
    BY <2>2, <2>3
<1>5. CASE Dispatch /\ Head(fired).mask = "WRITABLE" /\ WriteDone
  <2>1. /\ freed = FALSE /\ freed' = freed /\ wire' = wire
        /\ produced' = produced /\ closeAfter' = closeAfter
        /\ \/ closing' = closing
           \/ closing = "no" /\ closing' = "drained" /\ closeAfter = TRUE
    BY <1>5, WriteDoneStream DEF Dispatch, peervars
  <2> QED
    BY <1>1, <1>2, <2>1, StreamMoves
<1>6. CASE Push
  <2>1. /\ freed = FALSE /\ freed' = FALSE /\ wire' = wire /\ closing = "no"
        /\ closing' = "no" /\ closeAfter = FALSE /\ produced' = produced + 1
    BY <1>3, <1>6 DEF Push, lifevars, peervars
  <2>2. produced < produced'
    <3>1. produced \in Nat
      BY <2>1, PendRun DEF PendIsRun
    <3> QED
      BY <2>1, <3>1
  <2> QED
    BY <1>1, <2>1, <2>2, StreamGrows
<1>7. CASE KillClient
  <2>1. /\ freed = FALSE /\ freed' = FALSE /\ wire' = wire /\ produced' = produced
        /\ closeAfter' = closeAfter /\ closing = "no" /\ closing' = "killed"
    BY <1>3, <1>7 DEF KillClient, lifevars, peervars
  <2> QED
    BY <1>1, <1>2, <2>1, StreamMoves
<1>8. CASE FreeClientsInAsyncFreeQueue
  BY <1>8, FreeIsDiscard
<1>9. CASE Accept
  BY <1>1, <1>9, AcceptIsReopen
<1>10. CASE \E i \in DOMAIN ring : RingWrite(i)
  BY <1>1, <1>10, RingWriteDelivers
<1>11. CASE \/ Poll \/ FlushPendingWrites \/ ResizeQueryBuffer
            \/ PeerSend \/ PeerRead \/ PeerClose \/ UNCHANGED vars
            \/ \E i \in DOMAIN ring : RingRead(i) \/ RingFail(i)
  <2>1. UNCHANGED <<freed, wire, produced, closing, closeAfter>>
    <3>1. CASE \E i \in DOMAIN ring : RingRead(i) \/ RingFail(i)
      BY <3>1 DEF RingRead, RingFail, lifevars, peervars
    <3>2. CASE \/ Poll \/ FlushPendingWrites \/ ResizeQueryBuffer
               \/ PeerSend \/ PeerRead \/ PeerClose \/ UNCHANGED vars
      BY <3>2 DEF Poll, FlushPendingWrites, ResizeQueryBuffer, PeerSend, PeerRead, PeerClose,
         vars, lifevars, peervars
    <3> QED
      BY <1>11, <3>1, <3>2
  <2> QED
    BY <1>1, <2>1, StreamRests
<1>12. Dispatch => \/ Head(fired).mask = "READABLE" /\ ReadDone
                   \/ Head(fired).mask = "WRITABLE" /\ WriteDone
  BY DEF Dispatch
<1> QED
  BY <1>4, <1>5, <1>6, <1>7, <1>8, <1>9, <1>10, <1>11, <1>12 DEF Next

\* Initially nothing is pending or delivered.
LEMMA StreamInit == Init => RS!Init
<1> SUFFICES ASSUME Init PROVE RS!Init
  OBVIOUS
<1>1. /\ StreamInv /\ freed = FALSE /\ wire = <<>> /\ closing = "no"
      /\ closeAfter = FALSE /\ produced = 0
  BY StreamInvInit DEF Init
<1>2. Pend = Run(0, 0)
  <2>1. Len(wire) = 0
    BY <1>1
  <2> QED
    BY <1>1, <2>1, PendRun DEF PendIsRun
<1>3. Pend = <<>>
  BY <1>2, RunFacts
<1> QED
  BY <1>1, <1>3 DEF RS!Init, Pend

\* The KBAIO client implements ReplyStream when no message is pushed to a client that
\* waits for a request (with one, a completed read may be accounted for as a write: run
\* KbaioPush): what writeDoneToClientKbaio() accounts for is what the write before it sent,
\* so that every unit reaches the socket once and in order, on each of the connections that
\* use the descriptor in turn; a client that closes after its reply is freed with nothing
\* left to send.
THEOREM StreamAlwaysInOrderKbaio ==
  ASSUME Pushes = FALSE
  PROVE  Spec => StreamInOrder
<1>1. StreamInv /\ [Next]_vars => [RS!Next]_RS!rsvars
  BY StreamStep
<1>2. Spec => []StreamInv
  BY StreamInvariant
<1> QED
  BY <1>1, <1>2, StreamInit, PTL DEF Spec, StreamInOrder, RS!Spec
=============================================================================

---------------------------- MODULE KbaioClient ----------------------------
(***************************************************************************)
(* A client of the KBAIO backend (networking_kbaio.c on ae_kbaio.c, Redis  *)
(* 6.0.20; 4.0.14 has the same protocol).  Reads and writes are operations *)
(* of an io_uring: a client that waits for a request has a read in the     *)
(* ring, a client that sends a reply has a write, and each completion      *)
(* handler prepares the next operation.  The two share one kbaio_event and *)
(* one result per descriptor.                                              *)
(***************************************************************************)
EXTENDS Integers, Sequences, SequencesExt

CONSTANTS
  MaxPushed,       \* bound: no message is pushed once so many units were produced
  MaxParts,        \* bound: request parts sent by the peer of a connection
  MaxConns,        \* bound: connections accepted, one after the other, on the descriptor
  MaxErr,          \* bound: failed operations
  BufCap,          \* units in c->buf
  BlockCap,        \* units in one clientReplyBlock
  SockCap,         \* units the socket's send buffer holds
  NetMax,          \* NET_MAX_WRITES_PER_EVENT
  MaxQuery,        \* client_max_querybuf_len
  ReplySizes,      \* how many units a command may reply with
  MultiPart,       \* a request may arrive in several parts
  Pushes           \* a client may be sent a message while its read is in flight

ASSUME KbaioConstantsAssumption ==
  /\ {MaxPushed, MaxParts, MaxConns, MaxErr, NetMax, MaxQuery} \subseteq Nat
  /\ {BufCap, BlockCap, SockCap} \subseteq Nat \ {0}
  /\ ReplySizes \subseteq Nat
  /\ {MultiPart, Pushes} \subseteq BOOLEAN

VARIABLES
  conn,            \* which connection has the descriptor
  freed,           \* its client was freed
  buf, reply,      \* c->buf[0..bufpos), and c->reply: blocks, each a sequence of units
  sentlen,         \* c->sentlen, into buf or, when buf is empty, the head block
  totwritten,      \* c->totwritten
  querybuf,        \* c->querybuf: the parts not yet parsed
  qgen,            \* which allocation c->querybuf is
  qtail,           \* what a read left behind the end of c->querybuf, and where
  submitted,       \* c->submitted_query
  queued,          \* in server.clients_pending_write
  closeAfter,      \* CLIENT_CLOSE_AFTER_REPLY
  closing,         \* CLIENT_CLOSE_ASAP with its reason: "no", "drained", "aborted", "killed"
  evtype,          \* events[fd].type of the backend
  ring,            \* prepared operations
  cq,              \* completed ones, in order of completion
  fired,           \* eventLoop->fired: masks, each with the operation that completed
  res,             \* eventLoop->events[fd].res
  inbox,           \* parts sent by the peer and not read
  sent,            \* how many parts it has sent
  peerClosed,      \* it has closed its end
  wire,            \* units the socket took
  peerRead,        \* how many of them the peer has read
  errors,          \* failures so far
  produced         \* units produced so far

outvars == <<buf, reply, sentlen, totwritten>>
queryvars == <<querybuf, qgen, submitted>>
lifevars == <<conn, freed, closeAfter, closing>>
loopvars == <<fired, res>>
peervars == <<inbox, sent, peerClosed, wire, peerRead>>
vars == <<outvars, queryvars, qtail, queued, lifevars, evtype, ring, cq, loopvars,
          peervars, errors, produced>>

-----------------------------------------------------------------------------
(* Requests.  A part is a run of bytes of a request; the last one makes it    *)
(* complete, and executing it replies with some units and may ask to close.  *)

Part == [last : {TRUE}, size : ReplySizes, quit : {FALSE}]
          \cup [last : {TRUE}, size : ReplySizes \ {0}, quit : {TRUE}]
          \cup (IF MultiPart THEN [last : {FALSE}, size : {0}, quit : {FALSE}] ELSE {})

\* Bytes that no read of this client put there.
JunkPart == [last |-> FALSE, size |-> 0, quit |-> FALSE]

(* Output.                                                                   *)

Out == [buf |-> buf, reply |-> reply, sentlen |-> sentlen, tot |-> totwritten]

SetOut(o) ==
  /\ buf' = o.buf /\ reply' = o.reply
  /\ sentlen' = o.sentlen /\ totwritten' = o.tot

\* (variant: the list is forgotten)
HasPendingInBuffer(o) == o.buf # <<>>

HasPending(o) == o.buf # <<>> \/ o.reply # <<>>

\* The object the next write comes from.
Object(o) == IF o.buf # <<>> THEN o.buf ELSE Head(o.reply)

ObjectName(o) == IF o.buf # <<>> THEN <<"buf", 0>> ELSE <<"block", Object(o)[1]>>

\* (variant: the part already sent is sent again)
CellsFromStart(o) == [i \in 1..Len(Object(o)) |-> <<ObjectName(o), i>>]

\* c->wiov: addresses of the unsent part; a block is named by its first unit.
Cells(o) ==
  [i \in 1..(Len(Object(o)) - o.sentlen) |-> <<ObjectName(o), o.sentlen + i>>]

\* What an address holds now; Junk once the memory was released.
Junk == 0
Load(cell) ==
  LET places == IF cell[1][1] = "buf" THEN {buf}
                ELSE {reply[i] : i \in {j \in DOMAIN reply : reply[j][1] = cell[1][2]}}
  IN  IF \E s \in places : cell[2] \in DOMAIN s
      THEN (CHOOSE s \in places : cell[2] \in DOMAIN s)[cell[2]] ELSE Junk

\* The accounting of writeDoneToClientKbaio() for n > 0 units.
Ack(o, n) ==
  LET s == o.sentlen + n
      done == HasPending(o) /\ s = Len(Object(o)) IN
  [buf     |-> IF done THEN <<>> ELSE o.buf,
   reply   |-> IF done /\ o.buf = <<>> THEN Tail(o.reply) ELSE o.reply,
   sentlen |-> IF done THEN 0 ELSE s,
   tot     |-> o.tot + n]

\* _addReplyToBuffer(), _addReplyProtoToList() for one unit.
AddUnit(o, u) ==
  LET n == Len(o.reply) IN
  IF n = 0 /\ Len(o.buf) < BufCap THEN [o EXCEPT !.buf = Append(@, u)]
  ELSE IF n > 0 /\ Len(o.reply[n]) < BlockCap THEN [o EXCEPT !.reply[n] = Append(@, u)]
  ELSE [o EXCEPT !.reply = Append(@, <<u>>)]

AddUnits(o, from, to) == FoldLeft(AddUnit, o, [i \in 1..(to - from + 1) |-> from + i - 1])

\* prepareClientToWrite() queues a client only when it has nothing pending yet.
MustQueue(o, q) == q \/ ~HasPending(o)

-----------------------------------------------------------------------------
(* The backend. *)

Operations == ring \o cq \o [i \in DOMAIN fired |-> fired[i].op]

ReadInFlight == \E i \in DOMAIN Operations : Operations[i].kind = "READABLE"

\* Is this operation one of the client that has the descriptor now?
Own(op) == op.conn = conn /\ ~freed

Room == SockCap - (Len(wire) - peerRead)

\* aeCreateFileEventWithBuf(): one operation more, and the event's type is its.
Prepare(op) == ring' = Append(ring, op) /\ evtype' = op.kind

NothingPrepared == UNCHANGED <<ring, evtype>>

\* setCreateReadEventKbaio(): a read behind the end of the query buffer.
ReadOp(c, q, g) ==
  [kind |-> "READABLE", conn |-> c, cells |-> <<>>, base |-> <<g, Len(q)>>, ret |-> 0]

SetCreateReadEvent == Prepare(ReadOp(conn, querybuf, qgen)) /\ submitted' = submitted + 1

\* writeToClientKbaio(): a write of the next object, if there is one.
WriteOp(o) ==
  [kind |-> "WRITABLE", conn |-> conn, cells |-> Cells(o), base |-> <<0, 0>>, ret |-> 0]

WriteToClient(o) == IF HasPending(o) THEN Prepare(WriteOp(o)) ELSE NothingPrepared

\* freeClientAsync(): idempotent.
FreeAsync(reason) == IF closing = "no" THEN reason ELSE closing

-----------------------------------------------------------------------------
(* Completion handlers. *)

\* The n parts that now are behind the end of the query buffer.
Received(n) ==
  [i \in 1..n |->
     IF qtail.at = <<qgen, Len(querybuf)>> /\ i \in DOMAIN qtail.parts
     THEN qtail.parts[i] ELSE JunkPart]

\* processInputBuffer(): every complete request is executed, until one asks to close.
Execute(s, part) ==
  IF s.quit \/ closing # "no" \/ ~part.last THEN [s EXCEPT !.rest = Append(@, part)]
  ELSE [rest |-> <<>>,
        quit |-> part.quit,
        made |-> s.made + part.size,
        queued |-> IF part.size = 0 THEN s.queued ELSE MustQueue(s.out, s.queued),
        out |-> AddUnits(s.out, s.made + 1, s.made + part.size)]

ProcessInputBuffer(q) ==
  FoldLeft(Execute,
           [rest |-> <<>>, quit |-> closeAfter, made |-> produced, queued |-> queued,
            out |-> Out], q)

\* (variant: the next request is read before this one is answered)
NextReadPrepared == Prepare(ReadOp(conn, querybuf, qgen))

\* What is prepared when a read is done (line 93): nothing, the reply will be.
AfterRead == NothingPrepared

\* readDoneFromClientKbaio()
ReadDone ==
  /\ AfterRead
  /\ LET q == querybuf \o Received(res)
         s == ProcessInputBuffer(q) IN
     \/ /\ res < 0
        /\ UNCHANGED <<outvars, queryvars, queued, closeAfter, closing, produced>>
     \/ /\ res = 0
        /\ closing' = FreeAsync("aborted")
        /\ UNCHANGED <<outvars, queryvars, queued, closeAfter, produced>>
     \/ /\ res > 0 /\ Len(q) > MaxQuery
        /\ querybuf' = q
        /\ closing' = FreeAsync("aborted")
        /\ UNCHANGED <<outvars, qgen, submitted, queued, closeAfter, produced>>
     \/ /\ res > 0 /\ Len(q) <= MaxQuery
        /\ querybuf' = s.rest /\ submitted' = submitted - 1
        /\ SetOut(s.out)
        /\ queued' = s.queued /\ closeAfter' = s.quit /\ produced' = s.made
        /\ UNCHANGED <<qgen, closing>>

\* (variant: the next request is read although the client is to be closed)
ReadsOnAlways == TRUE

\* (variant: the next request is not read)
ReadsOnNever == FALSE

\* Is the next request to be read once everything is sent?
ReadsOn == ~closeAfter

\* (variant: the client is not freed when everything is sent)
KeepWhenDrained == closing

CloseWhenDrained == IF closeAfter THEN FreeAsync("drained") ELSE closing

\* The limit on what is written in one event (lines 148-150, without maxmemory).
OverLimit(o) == o.tot > NetMax

\* writeDoneToClientKbaio()
WriteDone ==
  /\ UNCHANGED <<querybuf, qgen, queued, closeAfter, produced>>
  /\ LET o == Ack(Out, res) IN
     \/ /\ res <= 0
        /\ NothingPrepared /\ UNCHANGED <<outvars, submitted, closing>>
     \/ /\ res > 0 /\ OverLimit(o)
        /\ SetOut(o)
        /\ NothingPrepared /\ UNCHANGED <<submitted, closing>>
     \/ /\ res > 0 /\ ~OverLimit(o) /\ HasPending(o)
        /\ SetOut(o)
        /\ WriteToClient(o) /\ UNCHANGED <<submitted, closing>>
     \/ /\ res > 0 /\ ~OverLimit(o) /\ ~HasPending(o)
        /\ SetOut([o EXCEPT !.sentlen = 0, !.tot = 0])
        /\ closing' = CloseWhenDrained
        /\ IF ReadsOn THEN SetCreateReadEvent ELSE NothingPrepared /\ UNCHANGED submitted

-----------------------------------------------------------------------------
(* The event loop. *)

\* beforeSleep() has nothing to do.
MaySleep == fired = <<>> /\ (freed \/ (~queued /\ closing = "no"))

\* aeApiPoll(): everything completed is reaped; the masks come from the event's type
\* of now, the result is kept per descriptor.
Poll ==
  /\ MaySleep /\ cq # <<>>
  /\ fired' = [i \in DOMAIN cq |-> [mask |-> evtype, op |-> cq[i]]]
  /\ res' = Last(cq).ret
  /\ cq' = <<>>
  /\ UNCHANGED <<outvars, queryvars, qtail, queued, lifevars, evtype, ring, peervars,
                 errors, produced>>

\* aeProcessEvents() and connSocketEventHandler() for one fired event.
Dispatch ==
  /\ ~freed /\ fired # <<>>
  /\ \/ Head(fired).mask = "READABLE" /\ ReadDone
     \/ Head(fired).mask = "WRITABLE" /\ WriteDone
  /\ fired' = Tail(fired)
  /\ UNCHANGED <<qtail, conn, freed, cq, res, peervars, errors>>

\* handleClientsWithPendingWrites()
FlushPendingWrites ==
  /\ ~freed /\ fired = <<>> /\ queued
  /\ queued' = FALSE
  /\ IF closing = "no" THEN WriteToClient(Out) ELSE NothingPrepared
  /\ UNCHANGED <<outvars, queryvars, qtail, lifevars, cq, loopvars, peervars, errors,
                 produced>>

\* Another client's command, or the service of a blocked client, sends a message.
Push ==
  /\ ~freed /\ closing = "no" /\ ~closeAfter /\ produced < MaxPushed
  /\ Pushes \/ ~ReadInFlight
  /\ queued' = MustQueue(Out, queued)
  /\ SetOut(AddUnit(Out, produced + 1))
  /\ produced' = produced + 1
  /\ UNCHANGED <<queryvars, qtail, lifevars, evtype, ring, cq, loopvars, peervars, errors>>

\* (variant: the query buffer is resized without looking at submitted_query)
ResizeAnyTime == TRUE

ResizeAllowed == submitted = 0

\* clientsCronResizeQueryBuffer(): the buffer moves.
ResizeQueryBuffer ==
  /\ ~freed /\ fired = <<>> /\ ResizeAllowed
  /\ qgen' = 1 - qgen
  /\ UNCHANGED <<outvars, querybuf, submitted, qtail, queued, lifevars, evtype, ring, cq,
                 loopvars, peervars, errors, produced>>

\* freeClientAsync() from CLIENT KILL, the timeout of idle clients, output limits.
KillClient ==
  /\ ~freed /\ closing = "no"
  /\ closing' = "killed"
  /\ UNCHANGED <<outvars, queryvars, qtail, queued, conn, freed, closeAfter, evtype, ring,
                 cq, loopvars, peervars, errors, produced>>

\* freeClientsInAsyncFreeQueue(): freeClient() closes the descriptor (connSocketClose())
\* and leaves the ring alone.
FreeClientsInAsyncFreeQueue ==
  /\ ~freed /\ fired = <<>> /\ closing # "no"
  /\ freed' = TRUE /\ queued' = FALSE
  /\ buf' = <<>> /\ reply' = <<>> /\ sentlen' = 0 /\ totwritten' = 0
  /\ querybuf' = <<>> /\ qgen' = 0 /\ submitted' = 0
  /\ UNCHANGED <<qtail, conn, closeAfter, closing, evtype, ring, cq, loopvars, peervars,
                 errors, produced>>

\* acceptTcpHandler(): a connection gets the descriptor of the one that was closed.
Accept ==
  /\ freed /\ conn < MaxConns /\ Operations = <<>>
  /\ conn' = conn + 1 /\ freed' = FALSE /\ closeAfter' = FALSE /\ closing' = "no"
  /\ Prepare(ReadOp(conn + 1, <<>>, 0)) /\ submitted' = 1
  /\ qtail' = [at |-> <<0, 0>>, parts |-> <<>>]
  /\ inbox' = <<>> /\ sent' = 0 /\ peerClosed' = FALSE /\ wire' = <<>> /\ peerRead' = 0
  /\ produced' = 0
  /\ UNCHANGED <<outvars, querybuf, qgen, queued, cq, loopvars, errors>>

-----------------------------------------------------------------------------
(* The ring.  What becomes of an operation that outlives its client is left open; *)
(* the descriptor is then not used again.                                         *)

Completes(i, n) ==
  /\ ring' = RemoveAt(ring, i)
  /\ cq' = Append(cq, [ring[i] EXCEPT !.ret = n])

\* A read takes what is there, or finds the end of the stream.
RingRead(i) ==
  /\ Own(ring[i]) /\ ring[i].kind = "READABLE"
  /\ \/ \E n \in 1..Len(inbox) :
          /\ Completes(i, n)
          /\ qtail' = [at |-> ring[i].base, parts |-> SubSeq(inbox, 1, n)]
          /\ inbox' = SubSeq(inbox, n + 1, Len(inbox))
     \/ /\ inbox = <<>> /\ peerClosed
        /\ Completes(i, 0)
        /\ UNCHANGED <<qtail, inbox>>
  /\ UNCHANGED <<outvars, queryvars, queued, lifevars, evtype, loopvars, sent, peerClosed,
                 wire, peerRead, errors, produced>>

\* A write takes some of the units that are at its addresses now.
RingWrite(i) ==
  /\ Own(ring[i]) /\ ring[i].kind = "WRITABLE"
  /\ \E n \in 1..Len(ring[i].cells) :
       /\ n <= Room
       /\ wire' = wire \o [j \in 1..n |-> Load(ring[i].cells[j])]
       /\ Completes(i, n)
  /\ UNCHANGED <<outvars, queryvars, qtail, queued, lifevars, evtype, loopvars, inbox, sent,
                 peerClosed, peerRead, errors, produced>>

\* An operation fails: a write to a peer that has gone, or for another reason.
RingFail(i) ==
  /\ Own(ring[i])
  /\ \/ ring[i].kind = "WRITABLE" /\ peerClosed /\ UNCHANGED errors
     \/ errors < MaxErr /\ errors' = errors + 1
  /\ Completes(i, -1)
  /\ UNCHANGED <<outvars, queryvars, qtail, queued, lifevars, evtype, loopvars, peervars,
                 produced>>

(* The peer. *)

PeerSend ==
  /\ ~freed /\ ~peerClosed /\ sent < MaxParts
  /\ \E part \in Part : inbox' = Append(inbox, part)
  /\ sent' = sent + 1
  /\ UNCHANGED <<outvars, queryvars, qtail, queued, lifevars, evtype, ring, cq, loopvars,
                 peerClosed, wire, peerRead, errors, produced>>

PeerRead ==
  /\ ~peerClosed /\ peerRead < Len(wire)
  /\ peerRead' = peerRead + 1
  /\ UNCHANGED <<outvars, queryvars, qtail, queued, lifevars, evtype, ring, cq, loopvars,
                 inbox, sent, peerClosed, wire, errors, produced>>

PeerClose ==
  /\ ~freed /\ ~peerClosed
  /\ peerClosed' = TRUE
  /\ UNCHANGED <<outvars, queryvars, qtail, queued, lifevars, evtype, ring, cq, loopvars,
                 inbox, sent, wire, peerRead, errors, produced>>

-----------------------------------------------------------------------------
\* The first connection was just accepted: its read is prepared.
Init ==
  /\ conn = 1 /\ freed = FALSE /\ closeAfter = FALSE /\ closing = "no"
  /\ buf = <<>> /\ reply = <<>> /\ sentlen = 0 /\ totwritten = 0
  /\ querybuf = <<>> /\ qgen = 0 /\ submitted = 1
  /\ qtail = [at |-> <<0, 0>>, parts |-> <<>>]
  /\ queued = FALSE
  /\ evtype = "READABLE" /\ ring = <<ReadOp(1, <<>>, 0)>> /\ cq = <<>>
  /\ fired = <<>> /\ res = 0
  /\ inbox = <<>> /\ sent = 0 /\ peerClosed = FALSE /\ wire = <<>> /\ peerRead = 0
  /\ errors = 0 /\ produced = 0

RingStep == \E i \in DOMAIN ring : RingRead(i) \/ RingWrite(i)

Next ==
  \/ Poll \/ Dispatch \/ FlushPendingWrites \/ Push \/ ResizeQueryBuffer
  \/ KillClient \/ FreeClientsInAsyncFreeQueue \/ Accept
  \/ \E i \in DOMAIN ring : RingRead(i)
  \/ \E i \in DOMAIN ring : RingWrite(i)
  \/ \E i \in DOMAIN ring : RingFail(i)
  \/ PeerSend \/ PeerRead \/ PeerClose

Spec == Init /\ [][Next]_vars

\* The loop keeps running, the ring executes what it can, the peer reads.
Fairness ==
  /\ WF_vars(Poll) /\ WF_vars(Dispatch) /\ WF_vars(FlushPendingWrites)
  /\ WF_vars(FreeClientsInAsyncFreeQueue)
  /\ WF_vars(RingStep)
  /\ WF_vars(PeerRead)

FairSpec == Spec /\ Fairness

-----------------------------------------------------------------------------
(* Properties. *)

\* Reads and writes of a client alternate: it never has two operations between
\* preparation and dispatch.  Everything the two halves of networking_kbaio.c share
\* (the event's type, the result, sentlen) relies on this.
OneOperation == Len(Operations) <= 1

\* A completion is handed to the connection that prepared the operation: no operation
\* outlives its client, although the descriptor is closed without looking at the ring
\* (connSocketClose()) and used again by the next connection.  A client that is killed
\* from outside is excepted: its operation does outlive it.
CompletionOwned == closing # "killed" => \A i \in DOMAIN Operations : Own(Operations[i])

\* The memory a read goes to is the end of the query buffer, from preparation until
\* the handler has taken the data: this is what submitted_query is for.
QueryBufferStable ==
  \A i \in DOMAIN Operations :
    Own(Operations[i]) /\ Operations[i].kind = "READABLE"
      => Operations[i].base = <<qgen, Len(querybuf)>> /\ submitted > 0

Listed == FlattenSeq(reply)

Unsent ==
  IF buf # <<>> THEN SubSeq(buf, sentlen + 1, Len(buf)) \o Listed
  ELSE SubSeq(Listed, sentlen + 1, Len(Listed))

\* How many of the unsent units the socket has already taken.
Taken == Len(wire) - (produced - Len(Unsent))

\* Units leave memory in stream order, once each (for a single connection).
RS == INSTANCE ReplyStream WITH
        Unit <- Nat,
        pending <- IF freed THEN <<>> ELSE SubSeq(Unsent, 1 + Taken, Len(Unsent)),
        delivered <- wire,
        state <- IF closing \in {"aborted", "killed"} THEN "aborted"
                 ELSE IF closing = "drained" THEN "done"
                 ELSE IF closeAfter THEN "last" ELSE "open"

StreamInOrder == RS!Spec

\* What the peer sends is read, unless the client is being closed or the peer goes.
RequestServed == inbox # <<>> ~> inbox = <<>> \/ closeAfter \/ closing # "no" \/ peerClosed

\* Everything produced (it is bounded) reaches the socket, unless the peer goes or the
\* client is killed.
ReplyDelivered ==
  Len(wire) < produced ~> Len(wire) = produced \/ peerClosed \/ closing = "killed"

\* A client told to close after its reply is freed.
CloseAfterReplyFrees == closeAfter ~> freed \/ peerClosed

\* The loop rests with a live client.
Idle == MaySleep /\ ~freed /\ cq = <<>>

\* setCreateReadEventKbaio() prepares for "more read(2) calls" per request: while a
\* request is incomplete and there is nothing to send, a read is in the ring.
PartialRequestKeepsReading ==
  Idle /\ querybuf # <<>> /\ ~closeAfter /\ ~HasPending(Out) => ReadInFlight

\* "AE_READABLE: fire when descriptor is readable", "AE_WRITABLE: fire when descriptor
\* is writable": the mask of a fired event is that of the operation that completed.
FiredMatchesOperation == \A i \in DOMAIN fired : fired[i].mask = fired[i].op.kind
=============================================================================

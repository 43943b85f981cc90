---------------------------- MODULE KraioWrite ----------------------------
(***************************************************************************)
(* The asynchronous reply path that the 7.0.15 patch kunpeng-iouring adds  *)
(* to networking.c, for one non-replica client.  The event loop thread     *)
(* (AddReply, FlushPendingWrites, EpollOut, Completion, ...), the ring     *)
(* with the kernel behind it (RingWrite, RingFail) and the peer (PeerRead) *)
(* interleave; each handler of the event loop is one action.               *)
(*                                                                         *)
(* Reply data is numbered in units of production 1, 2, 3, ...; a unit      *)
(* stands for any run of bytes that is copied as a whole.  An in-flight    *)
(* operation does not hold units: it holds the addresses ("cells") of the  *)
(* memory its iovecs point to, and the units are read when the ring        *)
(* executes it.                                                            *)
(***************************************************************************)
EXTENDS Integers, Sequences, FiniteSets

CONSTANTS
  MaxUnits,        \* bound: units produced
  BufCaps,         \* sizes the static buffer c->buf takes when it is resized
  BlockCap,        \* units in one clientReplyBlock
  IovMax,          \* iovecs of one writev (IOV_MAX, NET_MAX_WRITES_PER_EVENT)
  NetMax,          \* units one synchronous writeToClient sends before it yields
  SockCap,         \* units the socket's send buffer holds
  MaxIntr,         \* bound: completions with EINTR
  RingMayRefuse,   \* write_async / writev_async may return <= 0
  MayEvict,        \* the eviction timer may run
  MayToggle        \* CONFIG SET iouring_enable may be used

ASSUME ConstantsAssumption ==
  /\ MaxUnits \in Nat /\ BlockCap \in Nat \ {0} /\ IovMax \in Nat \ {0, 1}
  /\ NetMax \in Nat /\ SockCap \in Nat \ {0} /\ MaxIntr \in Nat
  /\ BufCaps # {} /\ BufCaps \subseteq Nat \ {0}
  /\ {RingMayRefuse, MayEvict, MayToggle} \subseteq BOOLEAN

VARIABLES
  \* struct client
  buf,             \* c->buf[0..bufpos): Len(buf) is c->bufpos
  bufcap,          \* c->buf_usable_size; a resize moves the buffer
  sentlen,         \* c->sentlen, into buf or, when buf is empty, the head block
  reply,           \* c->reply: every listed unit with the block that holds it
  replyBytes,      \* c->reply_bytes
  async,           \* CLIENT_ASYNC
  queued,          \* in server.clients_pending_write
  closeAfter,      \* CLIENT_CLOSE_AFTER_REPLY
  closing,         \* CLIENT_CLOSE_ASAP, with the reason: "no", "drained", "aborted"
  freed,           \* freeClient() has run
  \* struct connection and the event loop
  handler,         \* sendReplyToClient is installed for AE_WRITABLE
  conn,            \* conn->state: "connected" or "error"
  \* server globals
  iouring,         \* iouring_enable
  evicting,        \* isEvictionProcRunning
  \* outside the program
  ring,            \* operations the library accepted and has not called back
  wire,            \* units the socket took, in order
  peerRead,        \* how many of them the peer has read
  intr,            \* EINTR completions so far
  produced         \* units produced so far

outvars == <<buf, sentlen, reply, replyBytes>>
lifevars == <<closeAfter, closing, freed>>
linkvars == <<handler, conn>>
globalvars == <<iouring, evicting>>
sockvars == <<wire, peerRead>>
vars == <<outvars, bufcap, async, queued, lifevars, linkvars, globalvars, ring,
          sockvars, intr, produced>>

-----------------------------------------------------------------------------
\* The output buffers as one value, so that handlers can be composed.
Out == [buf |-> buf, sentlen |-> sentlen, reply |-> reply, bytes |-> replyBytes]

SetOut(o) ==
  /\ buf' = o.buf
  /\ sentlen' = o.sentlen
  /\ reply' = o.reply
  /\ replyBytes' = o.bytes

\* clientHasPendingReplies().
HasPending(o) == o.buf # <<>> \/ o.reply # <<>>

\* Where the unsent part of the head block starts (offset, line 268).
HeadOffset(o) == IF o.buf # <<>> THEN 0 ELSE o.sentlen

\* Entries from position n + 1 on.
Drop(s, n) == SubSeq(s, n + 1, Len(s))

\* A sequence without its i-th entry.
Without(s, i) == SubSeq(s, 1, i - 1) \o Drop(s, i)

\* The units of the reply list, in order.
Units(r) == [i \in 1..Len(r) |-> r[i].unit]

\* The blocks that the first n entries of a reply list belong to.
Blocks(r, n) == {r[i].block : i \in 1..n}

\* What remains to be sent, in order.
Unsent(o) ==
  Drop(o.buf, IF o.buf # <<>> THEN o.sentlen ELSE 0)
    \o Drop(Units(o.reply), HeadOffset(o))

\* The addresses the iovecs cover: an index into the static buffer (named by its
\* size, since a resize moves it), a unit's place in a block of the list.
BufCells(o) ==
  [i \in 1..(Len(o.buf) - o.sentlen) |-> <<"buf", bufcap, o.sentlen + i>>]

ListCells(r, n) == [i \in 1..n |-> <<"block", r[i].block, r[i].unit>>]

\* Entries of the list that fit in one writev: whole blocks, IovMax iovecs in all.
IovEntries(o) ==
  LET iovecs == IF o.buf # <<>> THEN IovMax - 1 ELSE IovMax
  IN  Cardinality({i \in 1..Len(o.reply) :
                     Cardinality(Blocks(o.reply, i)) <= iovecs})

\* (variant: the offset into the head block is forgotten)
IovCellsWithoutOffset(o) == BufCells(o) \o ListCells(o.reply, IovEntries(o))

IovCells(o) == BufCells(o) \o Drop(ListCells(o.reply, IovEntries(o)), HeadOffset(o))

\* What a cell holds now; Junk when the memory is no longer part of the output.
\* Blocks are only ever appended to and deleted whole, so a unit stays in its place.
Junk == 0
Load(cell) ==
  IF cell[1] = "buf"
  THEN IF cell[2] = bufcap /\ cell[3] \in DOMAIN buf THEN buf[cell[3]] ELSE Junk
  ELSE IF \E i \in DOMAIN reply : reply[i] = [unit |-> cell[3], block |-> cell[2]]
       THEN cell[3] ELSE Junk

-----------------------------------------------------------------------------
(* Accounting for n > 0 units that the socket took. *)

\* (variant: sentlen survives the end of the buffer)
AckWriteWithoutReset(o, n) ==
  IF o.buf = <<>> THEN o
  ELSE IF o.sentlen + n = Len(o.buf) THEN [o EXCEPT !.buf = <<>>]
  ELSE [o EXCEPT !.sentlen = @ + n]

\* handle_write_callback(): only the static buffer was written.
AckWrite(o, n) ==
  IF o.buf = <<>> THEN o
  ELSE IF o.sentlen + n = Len(o.buf) THEN [o EXCEPT !.buf = <<>>, !.sentlen = 0]
  ELSE [o EXCEPT !.sentlen = @ + n]

\* The entries of blocks that end at or before offset reach of the list.
Covered(r, reach) ==
  {i \in 1..Len(r) :
     i <= reach /\ (reach < Len(r) => r[i].block # r[reach + 1].block)}

\* handle_writev_callback() and the same loop in _writevToClientAsync():
\* static buffer first, then every block that is covered whole is deleted.
AckWritev(o, n) ==
  LET inBuf == IF o.buf # <<>> THEN Len(o.buf) - o.sentlen ELSE 0
      reach == HeadOffset(o) + n - inBuf
      gone == Cardinality(Covered(o.reply, reach))
  IN  IF n < inBuf THEN [o EXCEPT !.sentlen = @ + n]
      ELSE [buf |-> <<>>,
            sentlen |-> reach - gone,
            reply |-> Drop(o.reply, gone),
            bytes |-> o.bytes - BlockCap * Cardinality(Blocks(o.reply, gone))]

Ack(kind, o, n) ==
  IF n = 0 THEN o
  ELSE IF kind = "write" THEN AckWrite(o, n) ELSE AckWritev(o, n)

-----------------------------------------------------------------------------
(* writeToClient() and what it calls. *)

\* write_async() for the static buffer alone, writev_async() when there is a list.
NewOp(o) ==
  [kind |-> IF o.reply = <<>> THEN "write" ELSE "writev",
   cells |-> IovCells(o), st |-> "flight", ret |-> 0, err |-> "none"]

\* One of the library's calls is attempted, and may be refused.
TriesRing == iouring /\ ~evicting
SyncPossible == ~TriesRing \/ RingMayRefuse

Room == SockCap - (Len(wire) - peerRead)

\* (variant: the guard is missing)
NeverAsync(flag) == FALSE

\* The guard at the top of writeToClient(): a write is already in flight.
AlreadyAsync(flag) == flag

\* freeClientAsync(): idempotent.
FreeAsync(reason) == IF closing = "no" THEN reason ELSE closing

\* (variant: CLIENT_CLOSE_AFTER_REPLY is not looked at)
KeepWhenDrained == closing

\* All is sent: a client that was to be closed after its reply is.
CloseWhenDrained == IF closeAfter THEN FreeAsync("drained") ELSE closing

\* (variant: submission returns C_OK, so handleClientsWithPendingWrites() goes on)
HandlerWhenSubmittedOk(caller) == caller = "queue" \/ handler

\* The write handler when the ring took the rest: C_ERR makes every caller stop.
HandlerWhenSubmitted(caller) == handler

\* (variant: sendReplyToClient() leaves the handler installed)
HandlerKept(caller) == handler

\* The write handler when nothing is left: sendReplyToClient() removes it.
HandlerWhenDrained(caller) == handler /\ caller # "handler"

\* The write handler when writeToClient() ends with units still pending and no
\* write in flight: handleClientsWithPendingWrites() installs it, sendReplyToClient()
\* leaves it, callback_after_common() does not look at it.
HandlerWhenStopped(caller) == caller = "queue" \/ handler

\* The loop of writeToClient() from output state o.  In one call it sends m >= 0
\* units synchronously (ring refused, eviction running or iouring off) and then
\* hands the rest to the ring, or has sent all, or stops, or finds the
\* connection broken.  caller says what the caller does with the result.
WriteLoop(o, rest, caller) ==
  \E m \in 0..Len(Unsent(o)) :
    LET p == Ack("writev", o, m) IN
    /\ m <= Room
    /\ m > 0 => SyncPossible
    /\ wire' = wire \o SubSeq(Unsent(o), 1, m)
    /\ \/ \* accepted by the ring: CLIENT_ASYNC is set and C_ERR returned
          /\ HasPending(p)
          /\ TriesRing
          /\ m > 0 => RingMayRefuse
          /\ SetOut(p)
          /\ async' = TRUE
          /\ ring' = Append(rest, NewOp(p))
          /\ handler' = HandlerWhenSubmitted(caller)
          /\ UNCHANGED <<closing, conn, intr>>
       \/ \* everything sent (or nothing was pending)
          /\ ~HasPending(p)
          /\ SetOut([p EXCEPT !.sentlen = 0])
          /\ async' = FALSE
          /\ ring' = rest
          /\ handler' = HandlerWhenDrained(caller)
          /\ closing' = CloseWhenDrained
          /\ UNCHANGED <<conn, intr>>
       \/ \* EAGAIN, EINTR, or the per-event limit was reached
          /\ HasPending(p) /\ SyncPossible
          /\ \/ (m = Room \/ m > NetMax) /\ UNCHANGED intr
             \/ intr < MaxIntr /\ intr' = intr + 1
          /\ SetOut(p)
          /\ async' = FALSE
          /\ ring' = rest
          /\ handler' = HandlerWhenStopped(caller)
          /\ UNCHANGED <<closing, conn>>
       \/ \* any other write error
          /\ HasPending(p) /\ SyncPossible
          /\ SetOut(p)
          /\ async' = FALSE
          /\ ring' = rest
          /\ conn' = "error"
          /\ closing' = FreeAsync("aborted")
          /\ UNCHANGED <<handler, intr>>

\* writeToClient() called outside a completion.
WriteToClient(caller) ==
  IF AlreadyAsync(async)
  THEN \* C_OK at once; handleClientsWithPendingWrites() then installs the handler
       /\ handler' = (handler \/ (caller = "queue" /\ HasPending(Out)))
       /\ UNCHANGED <<outvars, async, ring, wire, closing, conn, intr>>
  ELSE WriteLoop(Out, ring, caller)

-----------------------------------------------------------------------------
(* Event loop actions. *)

\* prepareClientToWrite() and _addReplyToBufferOrList() for one more unit.  A new
\* block is opened when nothing else has room and also for deferred lengths.
AddReply(last) ==
  /\ ~freed /\ closing = "no" /\ ~closeAfter /\ produced < MaxUnits
  /\ queued' = (queued \/ ~HasPending(Out))
  /\ LET u == produced + 1
         tail == {i \in DOMAIN reply : reply[i].block = reply[Len(reply)].block} IN
     \/ /\ reply = <<>> /\ Len(buf) < bufcap
        /\ buf' = Append(buf, u)
        /\ UNCHANGED <<reply, replyBytes>>
     \/ /\ reply # <<>> /\ Cardinality(tail) < BlockCap
        /\ reply' = Append(reply, [unit |-> u, block |-> reply[Len(reply)].block])
        /\ UNCHANGED <<buf, replyBytes>>
     \/ /\ reply' = Append(reply, [unit |-> u, block |-> u])
        /\ replyBytes' = replyBytes + BlockCap
        /\ UNCHANGED buf
  /\ produced' = produced + 1
  /\ closeAfter' = last
  /\ UNCHANGED <<linkvars, globalvars, sockvars, bufcap, sentlen, async,
                 closing, freed, ring, intr>>

\* handleClientsWithPendingWrites(), run before the loop sleeps.
FlushPendingWrites ==
  /\ ~freed /\ queued
  /\ queued' = FALSE
  /\ IF closing = "no" THEN WriteToClient("queue")
     ELSE UNCHANGED <<outvars, async, ring, wire, handler, closing, conn, intr>>
  /\ UNCHANGED <<globalvars, bufcap, closeAfter, freed, peerRead, produced>>

\* The socket is writable (or in error): sendReplyToClient().
EpollOut ==
  /\ ~freed /\ handler
  /\ Room > 0 \/ conn = "error"
  /\ WriteToClient("handler")
  /\ UNCHANGED <<globalvars, bufcap, queued, closeAfter, freed, peerRead,
                 produced>>

\* (variant: the flag is not cleared)
FlagKept(flag) == flag

\* c->flags &= ~CLIENT_ASYNC in write_callback_common().
FlagCleared(flag) == FALSE

\* (variant: nothing is installed)
NoHandlerInstalled == handler

\* installClientWriteHandler().
HandlerInstalled == TRUE

\* Does callback_after_common() wait for EPOLLOUT rather than submit again?
WaitsForEpollout(op) == op.err = "EAGAIN"

\* write_callback_common() with callback_before_common(), handle_*_callback() and
\* callback_after_common(), for operation i, which the ring has completed.
Completion(i) ==
  /\ ~freed /\ ring[i].st = "done"
  /\ LET op == ring[i]
         rest == Without(ring, i)
         p == Ack(op.kind, Out, op.ret) IN
     \/ \* a write error: freeClientAsync() and return
        /\ op.err = "EPIPE" /\ conn = "connected"
        /\ conn' = "error"
        /\ closing' = FreeAsync("aborted")
        /\ async' = FlagCleared(async)
        /\ ring' = rest
        /\ UNCHANGED <<outvars, wire, handler, intr>>
     \/ \* all sent
        /\ ~(op.err = "EPIPE" /\ conn = "connected") /\ ~HasPending(p)
        /\ SetOut([p EXCEPT !.sentlen = 0])
        /\ closing' = CloseWhenDrained
        /\ async' = FlagCleared(async)
        /\ ring' = rest
        /\ UNCHANGED <<linkvars, wire, intr>>
     \/ \* the socket is full: installClientWriteHandler()
        /\ HasPending(p) /\ WaitsForEpollout(op)
        /\ SetOut(p)
        /\ handler' = HandlerInstalled
        /\ async' = FlagCleared(async)
        /\ ring' = rest
        /\ UNCHANGED <<wire, closing, conn, intr>>
     \/ \* more to send: writeToClient(c, 0), whose result is ignored
        /\ ~(op.err = "EPIPE" /\ conn = "connected")
        /\ HasPending(p) /\ ~WaitsForEpollout(op)
        /\ WriteLoop(p, rest, "callback")
  /\ UNCHANGED <<globalvars, bufcap, queued, closeAfter, freed, peerRead,
                 produced>>

\* freeClientAsync() from elsewhere: CLIENT KILL, output limits, a lost peer.
KillClient ==
  /\ ~freed /\ closing = "no"
  /\ closing' = "aborted"
  /\ UNCHANGED <<outvars, linkvars, globalvars, sockvars, bufcap, async, queued,
                 closeAfter, freed, ring, intr, produced>>

\* freeClientsInAsyncFreeQueue(), which the patch also runs in afterSleep().
\* Closing the descriptor is taken to withdraw what the ring still holds.
FreeClientsInAsyncFreeQueue ==
  /\ ~freed /\ closing # "no"
  /\ freed' = TRUE
  /\ buf' = <<>> /\ reply' = <<>> /\ sentlen' = 0 /\ replyBytes' = 0
  /\ async' = FALSE /\ queued' = FALSE /\ handler' = FALSE
  /\ ring' = <<>>
  /\ UNCHANGED <<globalvars, sockvars, bufcap, closeAfter, closing, conn, intr,
                 produced>>

\* (variant: the condition is missing)
ResizeAnyTime == TRUE

\* clientsCronResizeOutputBuffer(): the condition the patch adds, then the
\* reallocation, which moves the buffer.
ResizeAllowed == ~(buf # <<>> \/ sentlen # 0)

\* (variant: the buffer doubles without a limit)
DoubledSize == {2 * bufcap}

\* The sizes it can get: down to or up to what holds its contents.
ResizeTargets == {cap \in BufCaps \ {bufcap} : cap >= Len(buf)}

ResizeOutputBuffer ==
  /\ ~freed /\ ResizeAllowed
  /\ bufcap' \in ResizeTargets
  /\ UNCHANGED <<outvars, lifevars, linkvars, globalvars, sockvars, async,
                 queued, ring, intr, produced>>

\* evictionTimeProc() starts or ends.
ToggleEviction ==
  /\ MayEvict
  /\ evicting' = ~evicting
  /\ UNCHANGED <<outvars, lifevars, linkvars, sockvars, bufcap, async, queued,
                 iouring, ring, intr, produced>>

\* CONFIG SET iouring_enable.
ToggleIouring ==
  /\ MayToggle
  /\ iouring' = ~iouring
  /\ UNCHANGED <<outvars, lifevars, linkvars, sockvars, bufcap, async, queued,
                 evicting, ring, intr, produced>>

-----------------------------------------------------------------------------
(* The ring and the peer. *)

RingWrite(i) ==
  /\ ring[i].st = "flight"
  /\ \E n \in 1..Len(ring[i].cells) :
       /\ n <= Room
       /\ wire' = wire \o [j \in 1..n |-> Load(ring[i].cells[j])]
       /\ ring' = [ring EXCEPT ![i].st = "done", ![i].ret = n]
  /\ UNCHANGED <<outvars, lifevars, linkvars, globalvars, bufcap, async, queued,
                 peerRead, intr, produced>>

RingFail(i) ==
  /\ ring[i].st = "flight"
  /\ \E e \in {"EAGAIN", "EINTR", "EPIPE"} :
       /\ e = "EAGAIN" => Room = 0
       /\ e = "EINTR" => intr < MaxIntr
       /\ intr' = IF e = "EINTR" THEN intr + 1 ELSE intr
       /\ ring' = [ring EXCEPT ![i].st = "done", ![i].err = e]
  /\ UNCHANGED <<outvars, lifevars, linkvars, globalvars, sockvars, bufcap,
                 async, queued, produced>>

PeerRead ==
  /\ peerRead < Len(wire)
  /\ peerRead' = peerRead + 1
  /\ UNCHANGED <<outvars, lifevars, linkvars, globalvars, bufcap, async, queued,
                 ring, wire, intr, produced>>

-----------------------------------------------------------------------------
Init ==
  /\ buf = <<>> /\ bufcap \in BufCaps /\ sentlen = 0
  /\ reply = <<>> /\ replyBytes = 0
  /\ async = FALSE /\ queued = FALSE /\ closeAfter = FALSE
  /\ closing = "no" /\ freed = FALSE
  /\ handler = FALSE /\ conn = "connected"
  /\ iouring = TRUE /\ evicting = FALSE
  /\ ring = <<>> /\ wire = <<>> /\ peerRead = 0 /\ intr = 0 /\ produced = 0

Complete == \E i \in DOMAIN ring : Completion(i)
RingStep == \E i \in DOMAIN ring : RingWrite(i) \/ RingFail(i)

Next ==
  \/ \E last \in BOOLEAN : AddReply(last)
  \/ FlushPendingWrites
  \/ EpollOut
  \/ \E i \in DOMAIN ring : Completion(i)
  \/ KillClient
  \/ FreeClientsInAsyncFreeQueue
  \/ ResizeOutputBuffer
  \/ ToggleEviction
  \/ ToggleIouring
  \/ \E i \in DOMAIN ring : RingWrite(i)
  \/ \E i \in DOMAIN ring : RingFail(i)
  \/ PeerRead

Spec == Init /\ [][Next]_vars

\* The loop keeps iterating, the ring completes what it accepted, the peer reads.
Fairness ==
  /\ WF_vars(FlushPendingWrites)
  /\ WF_vars(EpollOut)
  /\ WF_vars(Complete)
  /\ WF_vars(FreeClientsInAsyncFreeQueue)
  /\ WF_vars(RingStep)
  /\ WF_vars(PeerRead)

FairSpec == Spec /\ Fairness

-----------------------------------------------------------------------------
(* Properties. *)

\* An entry of the reply list: blocks are named by their first unit.
Entry == [unit : Nat, block : Nat]

Op == [kind : {"write", "writev"}, cells : Seq({"buf", "block"} \X Nat \X Nat),
       st : {"flight", "done"}, ret : Nat,
       err : {"none", "EAGAIN", "EINTR", "EPIPE"}]

\* The values every variable takes.
TypeOK ==
  /\ buf \in Seq(Nat) /\ bufcap \in BufCaps /\ sentlen \in Nat
  /\ reply \in Seq(Entry) /\ replyBytes \in Int
  /\ {async, queued, closeAfter, freed, handler, iouring, evicting} \subseteq BOOLEAN
  /\ closing \in {"no", "drained", "aborted"} /\ conn \in {"connected", "error"}
  /\ ring \in Seq(Op) /\ wire \in Seq(Nat)
  /\ peerRead \in Nat /\ intr \in Nat /\ produced \in Nat

\* A client has at most one operation in the ring, and CLIENT_ASYNC says exactly
\* when: a second submission would send the same bytes twice, a flag left set would
\* silence the client for ever (writeToClient() lines 422-428, line 220).
OneInFlight == Len(ring) = IF async THEN 1 ELSE 0

\* Until the ring executes an operation, the memory its iovecs point to holds what
\* is first to be sent: nobody moves, frees or overwrites it (lines 261-285, 450).
StableCells ==
  \A i \in DOMAIN ring : ring[i].st = "flight" =>
    \A j \in DOMAIN ring[i].cells : Load(ring[i].cells[j]) = Unsent(Out)[j]

\* A completion never accounts for more than the buffers still hold, so the loops
\* of handle_writev_callback() never run off the list; and no operation is empty,
\* so write_callback_common() never sees the result 0 on which it would spin.
AckWithinReply ==
  \A i \in DOMAIN ring :
    /\ ring[i].cells # <<>>
    /\ ring[i].ret <= Len(Unsent(Out))
    /\ ring[i].kind = "write" => ring[i].ret <= Len(buf) - sentlen

\* sentlen stays inside the object it indexes and reply_bytes is what the listed
\* blocks occupy, zero for an empty list (the assertion at lines 374-377).
OffsetsConsistent ==
  /\ buf # <<>> => sentlen < Len(buf)
  /\ buf = <<>> /\ reply # <<>> =>
       /\ sentlen < Len(reply)
       /\ reply[sentlen + 1].block = reply[1].block
  /\ ~HasPending(Out) => sentlen = 0
  /\ replyBytes = BlockCap * Cardinality(Blocks(reply, Len(reply)))

\* Pending output always has somebody who will write it: the operation in flight,
\* the pending-write queue or the write handler.  prepareClientToWrite() queues a
\* client only when it has nothing pending, so an orphaned reply stays for ever.
NoOrphanedReply ==
  ~freed /\ closing = "no" /\ HasPending(Out) => async \/ queued \/ handler

\* "Wait for kernel epollout event if tcp write buffer is full" (line 158): a live
\* client whose socket is full, with output that neither the ring nor the queue
\* holds, waits for EPOLLOUT.
FullSocketWaitsForEpollout ==
  ~freed /\ closing = "no" /\ HasPending(Out) /\ Room = 0 /\ ~async /\ ~queued
    => handler

\* "Always return ERR to avoid installing write handler" (line 427): no step that
\* leaves an operation in flight arms the write handler of its client.
HandlerNotArmedInFlight == [][async' /\ ~handler => ~handler']_vars

\* Units leave memory in stream order (ReplyStream), whichever of the ring, the
\* synchronous fallback and their accounting moves them.
RS == INSTANCE ReplyStream WITH
        Unit <- 1..MaxUnits,
        pending <- IF freed THEN <<>>
                   ELSE Drop(Unsent(Out), IF ring = <<>> THEN 0 ELSE ring[1].ret),
        delivered <- wire,
        state <- IF closing = "aborted" THEN "aborted"
                 ELSE IF closing = "drained" THEN "done"
                 ELSE IF closeAfter THEN "last" ELSE "open"

StreamInOrder == RS!Spec

\* Every unit produced reaches the socket, unless the connection is aborted.
ReplyDelivered ==
  \A u \in 1..MaxUnits : produced >= u ~> Len(wire) >= u \/ closing = "aborted"

\* A client told to close after its reply is freed.
CloseAfterReplyFrees == closeAfter ~> freed

\* The write handler of a client with nothing to send is removed: a level-triggered
\* EPOLLOUT would otherwise wake the loop for ever.
HandlerRetired == handler /\ ~HasPending(Out) ~> ~handler \/ HasPending(Out)
=============================================================================

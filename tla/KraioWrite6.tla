--------------------------- MODULE KraioWrite6 ---------------------------
(***************************************************************************)
(* The asynchronous reply path of the 6.0.15 / 6.0.20 patch                *)
(* kunpeng-hw-accel.  It is simpler than the 7.0.15 path (KraioWrite): one *)
(* buffer or block per submission, no synchronous fallback at all, and no  *)
(* guard at the top of writeToClient().  With io-threads off, as modelled, *)
(* sendReplyToClient() is never installed: handleClientsWithPendingWrites()*)
(* would do so only for output that writeToClient() left without a write   *)
(* in flight while returning C_OK, which it never does.                    *)
(* write_async() is declared to return a size_t, and the patch compares it *)
(* with 0 as it is: a negative answer counts as an acceptance.             *)
(***************************************************************************)
EXTENDS KraioLib, Sequences, SequencesExt

CONSTANTS
  MaxUnits,        \* bound: units produced
  BufCap,          \* units in c->buf
  BlockCap,        \* units in one clientReplyBlock
  SockCap,         \* units the socket's send buffer holds
  MaxErr           \* bound: completions with an error other than EAGAIN

ASSUME Constants6Assumption ==
  /\ {MaxUnits, MaxErr} \subseteq Nat
  /\ {BufCap, BlockCap, SockCap} \subseteq Nat \ {0}

VARIABLES
  buf,             \* c->buf[0..bufpos)
  sentlen,         \* c->sentlen, into buf or, when buf is empty, the head block
  reply,           \* c->reply: blocks, each the sequence of its units
  async,           \* CLIENT_ASYNC
  queued,          \* in server.clients_pending_write
  handler,         \* sendReplyToClient is installed
  closeAfter,      \* CLIENT_CLOSE_AFTER_REPLY
  closing,         \* CLIENT_CLOSE_ASAP with its reason: "no", "drained", "aborted"
  freed,           \* freeClient() has run
  ring,            \* accepted operations that have not called back
  wire,            \* units the socket took
  peerRead,        \* how many of them the peer has read
  errors,          \* errors so far
  refused,         \* history: "no", a refusal was "seen" (C_ERR), or it was "missed"
  produced         \* units produced so far

outvars == <<buf, sentlen, reply>>
lifevars == <<closeAfter, closing, freed>>
sockvars == <<wire, peerRead>>
vars == <<outvars, async, queued, handler, lifevars, ring, sockvars, errors, refused,
          produced>>

-----------------------------------------------------------------------------
Out == [buf |-> buf, sentlen |-> sentlen, reply |-> reply]

SetOut(o) == buf' = o.buf /\ sentlen' = o.sentlen /\ reply' = o.reply

HasPending(o) == o.buf # <<>> \/ o.reply # <<>>

\* The object the next write comes from: c->buf, or the head block.
Object(o) == IF o.buf # <<>> THEN o.buf ELSE Head(o.reply)

\* (variant: the part already sent is sent again)
CellsFromStart(o) ==
  LET name == IF o.buf # <<>> THEN <<"buf", 0>> ELSE <<"block", Object(o)[1]>>
  IN  [i \in 1..Len(Object(o)) |-> <<name, i>>]

\* Addresses of the unsent part of that object; a block is named by its first unit.
Cells(o) ==
  LET name == IF o.buf # <<>> THEN <<"buf", 0>> ELSE <<"block", Object(o)[1]>>
  IN  [i \in 1..(Len(Object(o)) - o.sentlen) |-> <<name, o.sentlen + i>>]

\* What an address holds now; Junk once the memory was released.
Junk == 0
Load(cell) ==
  LET places == IF cell[1][1] = "buf" THEN {buf}
                ELSE {reply[i] : i \in {j \in DOMAIN reply : reply[j][1] = cell[1][2]}}
  IN  IF \E s \in places : cell[2] \in DOMAIN s
      THEN (CHOOSE s \in places : cell[2] \in DOMAIN s)[cell[2]] ELSE Junk

\* All the blocks as one sequence of units.
Listed == FlattenSeq(reply)

Unsent ==
  IF buf # <<>> THEN SubSeq(buf, sentlen + 1, Len(buf)) \o Listed
  ELSE SubSeq(Listed, sentlen + 1, Len(Listed))

\* (variant: sentlen is kept when an object ends)
AckKeepingSentlen(o, n) ==
  IF o.sentlen + n < Len(Object(o)) THEN [o EXCEPT !.sentlen = @ + n]
  ELSE IF o.buf # <<>> THEN [o EXCEPT !.buf = <<>>]
  ELSE [o EXCEPT !.reply = Tail(@)]

\* The accounting of writeCallback() for n > 0 units.
Ack(o, n) ==
  IF o.sentlen + n # Len(Object(o)) THEN [o EXCEPT !.sentlen = @ + n]
  ELSE IF o.buf # <<>> THEN [o EXCEPT !.buf = <<>>, !.sentlen = 0]
  ELSE [o EXCEPT !.reply = Tail(@), !.sentlen = 0]

-----------------------------------------------------------------------------
Room == SockCap - (Len(wire) - peerRead)

\* freeClientAsync(): idempotent.
FreeAsync(reason) == IF closing = "no" THEN reason ELSE closing

\* (variant: CLIENT_CLOSE_AFTER_REPLY is not looked at)
KeepWhenDrained == closing

\* All is sent: a client that was to be closed after its reply is.
CloseWhenDrained == IF closeAfter THEN FreeAsync("drained") ELSE closing

\* An operation for the object that is next.
NewOp(o) == [cells |-> Cells(o), st |-> "flight", ret |-> 0, err |-> "none"]

\* (variant: the flag is forgotten)
FlagNotSet == FALSE

\* CLIENT_ASYNC once write_async() has accepted (lines 127, 136).
FlagSet == TRUE

\* write_async(...) <= 0, the refusal of lines 126 and 135, does not hold.
Accepted(n) == TakenUnsigned(n)

\* writeToClient() from output state o and flag, with rest in the ring besides, when
\* write_async() answers n.  It fails (C_ERR) for an answer of 0; a negative one sets
\* CLIENT_ASYNC although the ring has taken nothing.
WriteToClient(o, rest, flag, n) ==
  \/ /\ ~HasPending(o)
     /\ async' = flag /\ ring' = rest /\ UNCHANGED refused
  \/ /\ HasPending(o) /\ Accepted(n)
     /\ async' = FlagSet
     /\ ring' = IF n = 1 THEN Append(rest, NewOp(o)) ELSE rest
     /\ refused' = IF n = 1 THEN refused ELSE "missed"
  \/ /\ HasPending(o) /\ ~Accepted(n)
     /\ async' = flag /\ ring' = rest /\ refused' = "seen"

-----------------------------------------------------------------------------
(* Actions of the event loop. *)

\* prepareClientToWrite() queues a client only when it has nothing pending yet.
MustQueue == queued \/ ~HasPending(Out)

\* prepareClientToWrite() and _addReplyToBuffer() / _addReplyProtoToList().
AddReply(last) ==
  /\ ~freed /\ closing = "no" /\ ~closeAfter /\ produced < MaxUnits
  /\ queued' = MustQueue
  /\ LET u == produced + 1
         tail == reply[Len(reply)] IN
     \/ reply = <<>> /\ Len(buf) < BufCap /\ buf' = Append(buf, u) /\ UNCHANGED reply
     \/ /\ reply # <<>> /\ Len(tail) < BlockCap
        /\ reply' = [reply EXCEPT ![Len(reply)] = Append(tail, u)]
        /\ UNCHANGED buf
     \/ reply' = Append(reply, <<u>>) /\ UNCHANGED buf
  /\ produced' = produced + 1
  /\ closeAfter' = last
  /\ UNCHANGED <<sentlen, async, handler, closing, freed, ring, sockvars, errors, refused>>

\* handleClientsWithPendingWrites(): the client leaves the queue; when writeToClient()
\* fails it is skipped, otherwise the handler is installed for output that is not in
\* flight (lines 142-145).
FlushPendingWrites ==
  /\ ~freed /\ queued
  /\ queued' = FALSE
  /\ \/ closing # "no" /\ UNCHANGED <<async, ring, handler, refused>>
     \/ /\ closing = "no"
        /\ \E n \in Results :
             /\ WriteToClient(Out, ring, async, n)
             /\ handler' = IF HasPending(Out) /\ Accepted(n) THEN ~async' ELSE handler
  /\ UNCHANGED <<outvars, lifevars, sockvars, errors, produced>>

\* (variant: only the list is looked at)
MoreInList(o) == o.reply # <<>>

\* Does writeCallback() go on (line 116)?
MoreToSend(o) == HasPending(o)

\* writeCallback() for operation i: after an error the connection may be found broken
\* (EPIPE) or not; the result of the writeToClient() at its end is ignored.
Completion(i) ==
  /\ ~freed /\ ring[i].st = "done"
  /\ LET op == ring[i]
         rest == SubSeq(ring, 1, i - 1) \o SubSeq(ring, i + 1, Len(ring))
         p == IF op.ret = 0 THEN Out ELSE Ack(Out, op.ret) IN
     \/ /\ op.err = "EPIPE"
        /\ closing' = FreeAsync("aborted")
        /\ async' = FALSE /\ ring' = rest
        /\ UNCHANGED <<outvars, handler, refused>>
     \/ /\ ~MoreToSend(p)
        /\ SetOut([p EXCEPT !.sentlen = 0])
        /\ closing' = CloseWhenDrained
        /\ async' = FALSE /\ ring' = rest
        /\ UNCHANGED <<handler, refused>>
     \/ /\ MoreToSend(p)
        /\ SetOut(p)
        /\ \E n \in Results : WriteToClient(p, rest, FALSE, n)
        /\ handler' = (handler /\ ~async')
        /\ UNCHANGED closing
  /\ UNCHANGED <<queued, closeAfter, freed, sockvars, errors, produced>>

\* freeClientAsync() from elsewhere.
KillClient ==
  /\ ~freed /\ closing = "no"
  /\ closing' = "aborted"
  /\ UNCHANGED <<outvars, async, queued, handler, closeAfter, freed, ring, sockvars,
                 errors, refused, produced>>

\* freeClientsInAsyncFreeQueue(); closing the descriptor withdraws the operation.
FreeClientsInAsyncFreeQueue ==
  /\ ~freed /\ closing # "no"
  /\ freed' = TRUE
  /\ buf' = <<>> /\ reply' = <<>> /\ sentlen' = 0
  /\ async' = FALSE /\ queued' = FALSE /\ handler' = FALSE
  /\ ring' = <<>>
  /\ UNCHANGED <<closeAfter, closing, sockvars, errors, refused, produced>>

-----------------------------------------------------------------------------
(* The ring and the peer. *)

RingWrite(i) ==
  /\ ring[i].st = "flight"
  /\ \E n \in 1..Len(ring[i].cells) :
       /\ n <= Room
       /\ wire' = wire \o [j \in 1..n |-> Load(ring[i].cells[j])]
       /\ ring' = [ring EXCEPT ![i].st = "done", ![i].ret = n]
  /\ UNCHANGED <<outvars, async, queued, handler, lifevars, peerRead, errors, refused,
                 produced>>

RingFail(i) ==
  /\ ring[i].st = "flight"
  /\ \E e \in {"EAGAIN", "EINTR", "EPIPE"} :
       /\ e = "EAGAIN" => Room = 0
       /\ e # "EAGAIN" => errors < MaxErr
       /\ errors' = IF e = "EAGAIN" THEN errors ELSE errors + 1
       /\ ring' = [ring EXCEPT ![i].st = "done", ![i].err = e]
  /\ UNCHANGED <<outvars, async, queued, handler, lifevars, sockvars, refused, produced>>

PeerRead ==
  /\ peerRead < Len(wire)
  /\ peerRead' = peerRead + 1
  /\ UNCHANGED <<outvars, async, queued, handler, lifevars, ring, wire, errors, refused,
                 produced>>

-----------------------------------------------------------------------------
Init ==
  /\ buf = <<>> /\ sentlen = 0 /\ reply = <<>>
  /\ async = FALSE /\ queued = FALSE /\ handler = FALSE
  /\ closeAfter = FALSE /\ closing = "no" /\ freed = FALSE
  /\ ring = <<>> /\ wire = <<>> /\ peerRead = 0 /\ errors = 0 /\ refused = "no" /\ produced = 0

Complete == \E i \in DOMAIN ring : Completion(i)
RingStep == \E i \in DOMAIN ring : RingWrite(i) \/ RingFail(i)

Next ==
  \/ \E last \in BOOLEAN : AddReply(last)
  \/ FlushPendingWrites
  \/ \E i \in DOMAIN ring : Completion(i)
  \/ KillClient
  \/ FreeClientsInAsyncFreeQueue
  \/ \E i \in DOMAIN ring : RingWrite(i)
  \/ \E i \in DOMAIN ring : RingFail(i)
  \/ PeerRead

Spec == Init /\ [][Next]_vars

\* The loop keeps iterating, the ring completes what it accepted, the peer reads.
Fairness ==
  /\ WF_vars(FlushPendingWrites)
  /\ WF_vars(Complete)
  /\ WF_vars(FreeClientsInAsyncFreeQueue)
  /\ WF_vars(RingStep)
  /\ WF_vars(PeerRead)

FairSpec == Spec /\ Fairness

-----------------------------------------------------------------------------
(* Properties. *)

Op == [cells : Seq(({"buf", "block"} \X Nat) \X Nat),
       st : {"flight", "done"}, ret : Nat,
       err : {"none", "EAGAIN", "EINTR", "EPIPE"}]

\* The values every variable takes.
TypeOK ==
  /\ buf \in Seq(Nat) /\ sentlen \in Nat /\ reply \in Seq(Seq(Nat))
  /\ {async, queued, handler, closeAfter, freed} \subseteq BOOLEAN
  /\ refused \in {"no", "seen", "missed"}
  /\ closing \in {"no", "drained", "aborted"}
  /\ ring \in Seq(Op) /\ wire \in Seq(Nat)
  /\ {peerRead, errors, produced} \subseteq Nat

\* A client has at most one operation in the ring although writeToClient() does not
\* look at CLIENT_ASYNC: what protects it is that prepareClientToWrite() queues only
\* a client with nothing pending (lines 123-138).  The flag says whether there is one,
\* except that it stays set, with nothing in the ring, when the unsigned comparison of
\* lines 126 and 135 has taken a negative answer for an acceptance.
OneInFlight ==
  /\ Len(ring) <= 1
  /\ async <=> ring # <<>> \/ (refused = "missed" /\ ~freed)

\* A completion finds the object it was submitted from, with at least the written
\* units left in it: it never dereferences the head of an empty list (line 91).
CompletionFindsObject ==
  \A i \in DOMAIN ring :
    /\ HasPending(Out)
    /\ ring[i].cells # <<>>
    /\ ring[i].ret <= Len(Object(Out)) - sentlen
    /\ ring[i].cells[1] = Cells(Out)[1]

\* Units leave memory in stream order, once each.
RS == INSTANCE ReplyStream WITH
        Unit <- 1..MaxUnits,
        pending <- IF freed THEN <<>>
                   ELSE SubSeq(Unsent, 1 + (IF ring = <<>> THEN 0 ELSE ring[1].ret),
                               Len(Unsent)),
        delivered <- wire,
        state <- IF closing = "aborted" THEN "aborted"
                 ELSE IF closing = "drained" THEN "done"
                 ELSE IF closeAfter THEN "last" ELSE "open"

StreamInOrder == RS!Spec

\* Every unit produced reaches the socket, unless the connection is aborted or the ring
\* refuses, whether writeToClient() notices or not: nobody tries again.
ReplyDelivered ==
  \A u \in 1..MaxUnits :
    produced >= u ~> Len(wire) >= u \/ closing = "aborted" \/ refused # "no"

\* A client told to close after its reply is freed, unless the ring refuses.
CloseAfterReplyFrees == closeAfter ~> freed \/ refused # "no"
=============================================================================

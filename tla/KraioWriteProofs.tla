-------------------------- MODULE KraioWriteProofs --------------------------
(***************************************************************************)
(* Machine-checked facts about KraioWrite, for all values of its constants:*)
(* the types, who owns the client's pending output, what an operation in   *)
(* flight points to, that the accounting of completions never runs off the *)
(* reply, and that the path implements ReplyStream.                        *)
(***************************************************************************)
EXTENDS KraioWrite, TLAPS, FiniteSetTheorems, SequenceTheorems

Cell == {"buf", "block"} \X Nat \X Nat

\* The values of Out.
OutType == [buf : Seq(Nat), sentlen : Nat, reply : Seq(Entry), bytes : Int]

-----------------------------------------------------------------------------
(* Sequences. *)

\* Dropping entries from the front stays within the type, and leaves nothing
\* when all are dropped.
LEMMA DropType ==
  ASSUME NEW S, NEW s \in Seq(S), NEW n \in Nat
  PROVE  /\ Drop(s, n) \in Seq(S)
         /\ Len(Drop(s, n)) = IF n <= Len(s) THEN Len(s) - n ELSE 0
<1>1. Len(s) \in Nat /\ n + 1 \in Int /\ Len(s) \in Int
  BY LenProperties
<1>2. \A i \in (n + 1)..Len(s) : s[i] \in S
  BY ElementOfSeq, <1>1
<1>3. QED
  BY <1>1, <1>2, SubSeqProperties DEF Drop

\* Removing one entry of a sequence.
LEMMA WithoutType ==
  ASSUME NEW S, NEW s \in Seq(S), NEW i \in 1..Len(s)
  PROVE  /\ Without(s, i) \in Seq(S)
         /\ Len(Without(s, i)) = Len(s) - 1
<1>1. Len(s) \in Nat /\ i \in Nat /\ i - 1 \in Int
  BY LenProperties
<1>2. /\ SubSeq(s, 1, i - 1) \in Seq(S)
      /\ Len(SubSeq(s, 1, i - 1)) = i - 1
  <2>1. \A j \in 1..(i - 1) : s[j] \in S
    BY ElementOfSeq, <1>1
  <2>2. QED
    BY <1>1, <2>1, SubSeqProperties
<1>3. Drop(s, i) \in Seq(S) /\ Len(Drop(s, i)) = Len(s) - i
  BY <1>1, DropType
<1>4. QED
  BY <1>1, <1>2, <1>3, ConcatProperties DEF Without

\* The blocks of the first n entries are finitely many.
LEMMA BlocksFinite ==
  ASSUME NEW r, NEW n \in Nat
  PROVE  IsFiniteSet(Blocks(r, n)) /\ Cardinality(Blocks(r, n)) \in Nat
<1> DEFINE f == [i \in 1..n |-> r[i].block]
<1>1. f \in Surjection(1..n, Blocks(r, n))
  BY DEF Surjection, Blocks
<1>2. IsFiniteSet(1..n)
  BY FS_Interval
<1>3. IsFiniteSet(Blocks(r, n))
  BY <1>1, <1>2, FS_Surjection
<1>4. QED
  BY <1>3, FS_CardinalityType

\* A subset of 1..n has at most n members.
LEMMA CountType ==
  ASSUME NEW n \in Nat, NEW T \in SUBSET (1..n)
  PROVE  Cardinality(T) \in 0..n
<1>1. IsFiniteSet(1..n) /\ Cardinality(1..n) = n
  BY FS_Interval
<1>2. IsFiniteSet(T) /\ Cardinality(T) <= n
  BY <1>1, FS_Subset
<1>3. QED
  BY <1>2, FS_CardinalityType

\* Blocks that end at or before reach have at most reach entries.
LEMMA CoveredCount ==
  ASSUME NEW r \in Seq(Entry), NEW reach \in Nat
  PROVE  Cardinality(Covered(r, reach)) \in 0..reach
<1>1. Covered(r, reach) \in SUBSET (1..reach)
  BY LenProperties DEF Covered
<1>2. QED
  BY <1>1, CountType

-----------------------------------------------------------------------------
(* The operators on output states keep to their types. *)

\* The fields of a listed entry.
LEMMA EntryFields ==
  ASSUME NEW r \in Seq(Entry), NEW i \in 1..Len(r)
  PROVE  r[i].unit \in Nat /\ r[i].block \in Nat
<1>1. r[i] \in Entry
  BY ElementOfSeq
<1>2. QED
  BY <1>1 DEF Entry

\* What is left to send is a sequence of units.
LEMMA UnsentType ==
  ASSUME NEW o \in OutType
  PROVE  Unsent(o) \in Seq(Nat)
<1>1. o.buf \in Seq(Nat) /\ o.sentlen \in Nat /\ o.reply \in Seq(Entry)
  BY DEF OutType
<1>2. Units(o.reply) \in Seq(Nat)
  <2>1. Len(o.reply) \in Nat
    BY <1>1, LenProperties
  <2>2. \A i \in 1..Len(o.reply) : o.reply[i].unit \in Nat
    BY <1>1, EntryFields
  <2>3. QED
    BY <2>1, <2>2, IsASeq DEF Units
<1>3. /\ (IF o.buf # <<>> THEN o.sentlen ELSE 0) \in Nat
      /\ HeadOffset(o) \in Nat
  BY <1>1 DEF HeadOffset
<1>4. QED
  BY <1>1, <1>2, <1>3, DropType, ConcatProperties DEF Unsent

\* handle_write_callback() keeps sentlen a natural number and the buffers typed.
LEMMA AckWriteType ==
  ASSUME NEW o \in OutType, NEW n \in Nat
  PROVE  AckWrite(o, n) \in OutType
<1>1. /\ o.buf \in Seq(Nat) /\ o.sentlen \in Nat
      /\ o = [buf |-> o.buf, sentlen |-> o.sentlen, reply |-> o.reply,
              bytes |-> o.bytes]
  BY DEF OutType
<1>2. <<>> \in Seq(Nat) /\ o.sentlen + n \in Nat
  BY <1>1, EmptySeq
<1>3. [o EXCEPT !.buf = <<>>, !.sentlen = 0] \in OutType
  BY <1>2 DEF OutType
<1>4. [o EXCEPT !.sentlen = @ + n] \in OutType
  BY <1>2 DEF OutType
<1>5. QED
  BY <1>3, <1>4 DEF AckWrite

\* So does handle_writev_callback(): the offset left in the list, after the blocks
\* it deletes are subtracted, is never negative (it is a size_t in the code).
LEMMA AckWritevType ==
  ASSUME NEW o \in OutType, NEW n \in Nat
  PROVE  AckWritev(o, n) \in OutType
<1> DEFINE inBuf == IF o.buf # <<>> THEN Len(o.buf) - o.sentlen ELSE 0
           reach == HeadOffset(o) + n - inBuf
           gone == Cardinality(Covered(o.reply, reach))
<1>1. /\ o.buf \in Seq(Nat) /\ o.sentlen \in Nat /\ o.reply \in Seq(Entry)
      /\ o.bytes \in Int /\ Len(o.buf) \in Nat
  BY LenProperties DEF OutType
<1>2. inBuf \in Int /\ HeadOffset(o) \in Nat
  BY <1>1 DEF HeadOffset
<1>3. CASE n < inBuf
  <2>1. AckWritev(o, n) = [o EXCEPT !.sentlen = @ + n]
    BY <1>3 DEF AckWritev
  <2>2. o.sentlen + n \in Nat
    BY <1>1
  <2>3. [o EXCEPT !.sentlen = @ + n] \in OutType
    BY <2>2 DEF OutType
  <2>4. QED
    BY <2>1, <2>3
<1>4. CASE ~(n < inBuf)
  <2>1. reach \in Nat
    BY <1>1, <1>2, <1>4
  <2>2. gone \in 0..reach
    BY <2>1, <1>1, CoveredCount
  <2>3. gone \in Nat /\ reach - gone \in Nat
    BY <2>1, <2>2
  <2>4. Drop(o.reply, gone) \in Seq(Entry)
    BY <2>3, <1>1, DropType
  <2>5. Cardinality(Blocks(o.reply, gone)) \in Nat
    BY <2>3, BlocksFinite
  <2>6. o.bytes - BlockCap * Cardinality(Blocks(o.reply, gone)) \in Int
    BY <1>1, <2>5, ConstantsAssumption
  <2>7. AckWritev(o, n) =
          [buf |-> <<>>, sentlen |-> reach - gone, reply |-> Drop(o.reply, gone),
           bytes |-> o.bytes - BlockCap * Cardinality(Blocks(o.reply, gone))]
    BY <1>4 DEF AckWritev
  <2>8. QED
    BY <2>3, <2>4, <2>6, <2>7, EmptySeq DEF OutType
<1>5. QED
  BY <1>3, <1>4

\* Both accounting functions together.
LEMMA AckType ==
  ASSUME NEW o \in OutType, NEW n \in Nat, NEW kind
  PROVE  Ack(kind, o, n) \in OutType
BY AckWriteType, AckWritevType DEF Ack

\* An operation built from well-typed buffers is a well-typed operation.
LEMMA NewOpType ==
  ASSUME NEW o \in OutType, bufcap \in BufCaps
  PROVE  NewOp(o) \in Op
<1>1. /\ o.buf \in Seq(Nat) /\ o.sentlen \in Nat /\ o.reply \in Seq(Entry)
      /\ Len(o.buf) \in Nat /\ Len(o.reply) \in Nat /\ bufcap \in Nat
  BY LenProperties, ConstantsAssumption DEF OutType
<1>2. BufCells(o) \in Seq(Cell)
  <2>1. CASE o.sentlen <= Len(o.buf)
    <3>1. \A i \in 1..(Len(o.buf) - o.sentlen) :
             <<"buf", bufcap, o.sentlen + i>> \in Cell
      BY SMTT(30), <1>1 DEF Cell
    <3>2. Len(o.buf) - o.sentlen \in Nat
      BY <1>1, <2>1
    <3>3. QED
      BY <3>1, <3>2, IsASeq DEF BufCells
  <2>2. CASE o.sentlen > Len(o.buf)
    <3>1. 1..(Len(o.buf) - o.sentlen) = 1..0
      BY <1>1, <2>2
    <3>2. BufCells(o) = [i \in 1..0 |-> <<"buf", bufcap, o.sentlen + i>>]
      BY <3>1 DEF BufCells
    <3>3. \A i \in 1..0 : <<"buf", bufcap, o.sentlen + i>> \in Cell
      OBVIOUS
    <3>4. QED
      BY <3>2, <3>3, IsASeq
  <2>3. QED
    BY <1>1, <2>1, <2>2
<1>3. IovEntries(o) \in 0..Len(o.reply)
  <2> DEFINE iovecs == IF o.buf # <<>> THEN IovMax - 1 ELSE IovMax
             T == {i \in 1..Len(o.reply) :
                     Cardinality(Blocks(o.reply, i)) <= iovecs}
  <2>1. Cardinality(T) \in 0..Len(o.reply)
    BY <1>1, CountType
  <2>2. QED
    BY <2>1 DEF IovEntries
<1>4. ListCells(o.reply, IovEntries(o)) \in Seq(Cell)
  <2>1. \A i \in 1..IovEntries(o) :
           <<"block", o.reply[i].block, o.reply[i].unit>> \in Cell
    <3> SUFFICES ASSUME NEW i \in 1..IovEntries(o)
                 PROVE  <<"block", o.reply[i].block, o.reply[i].unit>> \in Cell
      OBVIOUS
    <3>1. i \in 1..Len(o.reply)
      BY <1>1, <1>3
    <3>2. o.reply[i].unit \in Nat /\ o.reply[i].block \in Nat
      BY <1>1, <3>1, EntryFields
    <3>3. QED
      BY <3>2 DEF Cell
  <2>2. QED
    BY <1>1, <1>3, <2>1, IsASeq DEF ListCells
<1>5. HeadOffset(o) \in Nat
  BY <1>1 DEF HeadOffset
<1>6. IovCells(o) \in Seq(Cell)
  BY <1>2, <1>4, <1>5, DropType, ConcatProperties DEF IovCells
<1>7. QED
  BY <1>6 DEF NewOp, Op, Cell

-----------------------------------------------------------------------------
(* Type correctness. *)

\* The part of TypeOK that writeToClient() can disturb.
WriteVarsOK ==
  /\ buf \in Seq(Nat) /\ sentlen \in Nat /\ reply \in Seq(Entry) /\ replyBytes \in Int
  /\ async \in BOOLEAN /\ handler \in BOOLEAN
  /\ closing \in {"no", "drained", "aborted"} /\ conn \in {"connected", "error"}
  /\ ring \in Seq(Op) /\ wire \in Seq(Nat) /\ intr \in Nat

\* The rest of it.
OtherVarsOK ==
  /\ bufcap \in BufCaps
  /\ queued \in BOOLEAN /\ closeAfter \in BOOLEAN /\ freed \in BOOLEAN
  /\ iouring \in BOOLEAN /\ evicting \in BOOLEAN
  /\ peerRead \in Nat /\ produced \in Nat

\* The two parts are TypeOK.
LEMMA TypeOKParts == TypeOK <=> WriteVarsOK /\ OtherVarsOK
BY DEF TypeOK, WriteVarsOK, OtherVarsOK

\* Writing back a typed output state.
LEMMA SetOutType ==
  ASSUME NEW o \in OutType, SetOut(o)
  PROVE  buf' \in Seq(Nat) /\ sentlen' \in Nat /\ reply' \in Seq(Entry)
         /\ replyBytes' \in Int
BY DEF SetOut, OutType

\* The current buffers are a typed output state.
LEMMA OutIsTyped ==
  ASSUME WriteVarsOK PROVE Out \in OutType
BY DEF WriteVarsOK, Out, OutType

\* Clearing sentlen keeps an output state typed.
LEMMA ResetType ==
  ASSUME NEW o \in OutType PROVE [o EXCEPT !.sentlen = 0] \in OutType
BY DEF OutType

\* The values freeClientAsync() and the handler rules can give.
LEMMA FlagTypes ==
  ASSUME WriteVarsOK, OtherVarsOK, NEW caller
  PROVE  /\ FreeAsync("drained") \in {"no", "drained", "aborted"}
         /\ FreeAsync("aborted") \in {"no", "drained", "aborted"}
         /\ CloseWhenDrained \in {"no", "drained", "aborted"}
         /\ HandlerWhenSubmitted(caller) \in BOOLEAN
         /\ HandlerWhenDrained(caller) \in BOOLEAN
         /\ HandlerWhenStopped(caller) \in BOOLEAN
BY DEF WriteVarsOK, OtherVarsOK, FreeAsync, CloseWhenDrained, HandlerWhenSubmitted,
       HandlerWhenDrained, HandlerWhenStopped

\* The loop of writeToClient() keeps the types, from any typed output state.
LEMMA WriteLoopType ==
  ASSUME WriteVarsOK, OtherVarsOK, NEW o \in OutType, NEW rest \in Seq(Op), NEW caller,
         WriteLoop(o, rest, caller)
  PROVE  WriteVarsOK'
<1>1. PICK m \in 0..Len(Unsent(o)) :
        LET p == Ack("writev", o, m) IN
        /\ wire' = wire \o SubSeq(Unsent(o), 1, m)
        /\ \/ /\ SetOut(p) /\ async' = TRUE
              /\ ring' = Append(rest, NewOp(p))
              /\ handler' = HandlerWhenSubmitted(caller)
              /\ UNCHANGED <<closing, conn, intr>>
           \/ /\ SetOut([p EXCEPT !.sentlen = 0]) /\ async' = FALSE
              /\ ring' = rest
              /\ handler' = HandlerWhenDrained(caller)
              /\ closing' = CloseWhenDrained
              /\ UNCHANGED <<conn, intr>>
           \/ /\ intr' \in {intr, intr + 1}
              /\ SetOut(p) /\ async' = FALSE
              /\ ring' = rest
              /\ handler' = HandlerWhenStopped(caller)
              /\ UNCHANGED <<closing, conn>>
           \/ /\ SetOut(p) /\ async' = FALSE
              /\ ring' = rest
              /\ conn' = "error"
              /\ closing' = FreeAsync("aborted")
              /\ UNCHANGED <<handler, intr>>
  BY DEF WriteLoop
<1> DEFINE p == Ack("writev", o, m)
           q == [p EXCEPT !.sentlen = 0]
<1>2. Unsent(o) \in Seq(Nat) /\ Len(Unsent(o)) \in Nat /\ m \in Nat
  BY UnsentType, LenProperties
<1>3. p \in OutType /\ q \in OutType
  BY <1>2, AckType, ResetType
<1>4. NewOp(p) \in Op
  BY <1>3, NewOpType DEF OtherVarsOK
<1>5. wire' \in Seq(Nat)
  <2>1. \A i \in 1..m : Unsent(o)[i] \in Nat
    BY <1>2, ElementOfSeq
  <2>2. SubSeq(Unsent(o), 1, m) \in Seq(Nat)
    BY <1>2, <2>1, SubSeqProperties
  <2>3. QED
    BY <1>1, <2>2, ConcatProperties DEF WriteVarsOK
<1>6. /\ buf' \in Seq(Nat) /\ sentlen' \in Nat /\ reply' \in Seq(Entry)
      /\ replyBytes' \in Int
  <2> HIDE DEF p, q
  <2>1. SetOut(p) \/ SetOut(q)
    BY <1>1 DEF p, q
  <2>2. QED
    BY <2>1, <1>3, SetOutType
<1>7. ring' \in Seq(Op)
  <2>1. Append(rest, NewOp(p)) \in Seq(Op)
    BY <1>4, AppendProperties
  <2>2. QED
    BY <1>1, <2>1
<1>8. /\ async' \in BOOLEAN /\ handler' \in BOOLEAN
      /\ closing' \in {"no", "drained", "aborted"}
      /\ conn' \in {"connected", "error"}
      /\ intr' \in Nat
  <2>1. async' \in BOOLEAN
    BY <1>1
  <2>2. handler' \in BOOLEAN
    BY <1>1, FlagTypes DEF WriteVarsOK
  <2>3. closing' \in {"no", "drained", "aborted"}
    BY <1>1, FlagTypes DEF WriteVarsOK
  <2>4. conn' \in {"connected", "error"} /\ intr' \in Nat
    BY <1>1 DEF WriteVarsOK
  <2>5. QED
    BY <2>1, <2>2, <2>3, <2>4
<1>9. QED
  BY <1>5, <1>6, <1>7, <1>8 DEF WriteVarsOK

\* The empty sequence has every sequence type of the specification.
LEMMA EmptyTyped == <<>> \in Seq(Nat) /\ <<>> \in Seq(Entry) /\ <<>> \in Seq(Op)
<1>1. \A S : <<>> \in Seq(S)
  BY EmptySeq
<1>2. QED
  BY <1>1

\* Entries of a typed sequence of operations.
LEMMA RingEntry ==
  ASSUME WriteVarsOK, NEW i \in DOMAIN ring
  PROVE  /\ i \in 1..Len(ring) /\ ring[i] \in Op
         /\ ring[i].ret \in Nat
         /\ Without(ring, i) \in Seq(Op)
         /\ Len(Without(ring, i)) = Len(ring) - 1
<1>1. ring \in Seq(Op) /\ i \in 1..Len(ring)
  BY LenProperties DEF WriteVarsOK
<1>2. ring[i] \in Op
  BY <1>1, ElementOfSeq
<1>3. QED
  BY <1>1, <1>2, WithoutType DEF Op

\* Every action keeps TypeOK.
LEMMA TypeStep ==
  ASSUME WriteVarsOK, OtherVarsOK, [Next]_vars
  PROVE  WriteVarsOK' /\ OtherVarsOK'
<1> USE DEF outvars, lifevars, linkvars, globalvars, sockvars
<1>1. ASSUME NEW last \in BOOLEAN, AddReply(last)
      PROVE  WriteVarsOK' /\ OtherVarsOK'
  <2>1. produced + 1 \in Nat /\ OtherVarsOK'
    BY <1>1 DEF AddReply, OtherVarsOK
  <2>2. buf' \in Seq(Nat)
    <3>1. buf' = buf \/ buf' = Append(buf, produced + 1)
      BY <1>1 DEF AddReply
    <3>2. Append(buf, produced + 1) \in Seq(Nat)
      BY <2>1, AppendProperties DEF WriteVarsOK
    <3>3. QED
      BY <3>1, <3>2 DEF WriteVarsOK
  <2>3. reply' \in Seq(Entry)
    <3>1. [unit |-> produced + 1, block |-> produced + 1] \in Entry
      BY <2>1 DEF Entry
    <3>2. ASSUME reply # <<>>
          PROVE  [unit |-> produced + 1, block |-> reply[Len(reply)].block] \in Entry
      <4>1. reply \in Seq(Entry) /\ Len(reply) \in 1..Len(reply)
        BY <3>2, EmptySeq DEF WriteVarsOK
      <4>2. reply[Len(reply)].block \in Nat
        BY <4>1, EntryFields
      <4>3. QED
        BY <2>1, <4>2 DEF Entry
    <3>3. \/ reply' = reply
          \/ /\ reply # <<>>
             /\ reply' = Append(reply, [unit |-> produced + 1,
                                        block |-> reply[Len(reply)].block])
          \/ reply' = Append(reply, [unit |-> produced + 1, block |-> produced + 1])
      BY <1>1 DEF AddReply
    <3>4. reply \in Seq(Entry)
      BY DEF WriteVarsOK
    <3>5. \A e \in Entry : Append(reply, e) \in Seq(Entry)
      BY <3>4, AppendProperties
    <3>6. QED
      BY <3>1, <3>2, <3>3, <3>4, <3>5
  <2>4. replyBytes' \in Int
    BY <1>1, ConstantsAssumption DEF AddReply, WriteVarsOK
  <2>5. QED
    BY <1>1, <2>1, <2>2, <2>3, <2>4 DEF AddReply, WriteVarsOK
<1>2. ASSUME NEW caller, WriteToClient(caller)
      PROVE  WriteVarsOK'
  <2>1. CASE AlreadyAsync(async)
    BY <1>2, <2>1 DEF WriteToClient, WriteVarsOK
  <2>2. CASE ~AlreadyAsync(async)
    <3>1. WriteLoop(Out, ring, caller)
      BY <1>2, <2>2 DEF WriteToClient
    <3>2. QED
      BY <3>1, OutIsTyped, WriteLoopType DEF WriteVarsOK
  <2>3. QED
    BY <2>1, <2>2
<1>3. CASE FlushPendingWrites
  <2>1. OtherVarsOK'
    BY <1>3 DEF FlushPendingWrites, OtherVarsOK
  <2>2. CASE closing = "no"
    BY <1>2, <1>3, <2>1, <2>2 DEF FlushPendingWrites
  <2>3. CASE closing # "no"
    BY <1>3, <2>1, <2>3 DEF FlushPendingWrites, WriteVarsOK
  <2>4. QED
    BY <2>2, <2>3
<1>4. CASE EpollOut
  <2>1. OtherVarsOK'
    BY <1>4 DEF EpollOut, OtherVarsOK
  <2>2. QED
    BY <1>2, <1>4, <2>1 DEF EpollOut
<1>5. ASSUME NEW i \in DOMAIN ring, Completion(i)
      PROVE  WriteVarsOK' /\ OtherVarsOK'
  <2> DEFINE rest == Without(ring, i)
             p == Ack(ring[i].kind, Out, ring[i].ret)
             q == [p EXCEPT !.sentlen = 0]
  <2>1. OtherVarsOK'
    BY <1>5 DEF Completion, OtherVarsOK
  <2>2. rest \in Seq(Op) /\ p \in OutType /\ q \in OutType
    BY RingEntry, OutIsTyped, AckType, ResetType
  <2>3. FlagCleared(async) \in BOOLEAN /\ HandlerInstalled \in BOOLEAN
    BY DEF FlagCleared, HandlerInstalled
  <2> HIDE DEF rest, p, q
  <2>4. \/ /\ conn' = "error" /\ closing' = FreeAsync("aborted")
           /\ async' = FlagCleared(async) /\ ring' = rest
           /\ UNCHANGED <<outvars, wire, handler, intr>>
        \/ /\ SetOut(q) /\ closing' = CloseWhenDrained
           /\ async' = FlagCleared(async) /\ ring' = rest
           /\ UNCHANGED <<linkvars, wire, intr>>
        \/ /\ SetOut(p) /\ handler' = HandlerInstalled
           /\ async' = FlagCleared(async) /\ ring' = rest
           /\ UNCHANGED <<wire, closing, conn, intr>>
        \/ WriteLoop(p, rest, "callback")
    BY <1>5 DEF Completion, rest, p, q
  <2>5. CASE /\ conn' = "error" /\ closing' = FreeAsync("aborted")
             /\ async' = FlagCleared(async) /\ ring' = rest
             /\ UNCHANGED <<outvars, wire, handler, intr>>
    BY <2>1, <2>2, <2>3, <2>5, FlagTypes DEF WriteVarsOK
  <2>6. CASE /\ SetOut(q) /\ closing' = CloseWhenDrained
             /\ async' = FlagCleared(async) /\ ring' = rest
             /\ UNCHANGED <<linkvars, wire, intr>>
    BY <2>1, <2>2, <2>3, <2>6, FlagTypes, SetOutType DEF WriteVarsOK
  <2>7. CASE /\ SetOut(p) /\ handler' = HandlerInstalled
             /\ async' = FlagCleared(async) /\ ring' = rest
             /\ UNCHANGED <<wire, closing, conn, intr>>
    BY <2>1, <2>2, <2>3, <2>7, SetOutType DEF WriteVarsOK
  <2>8. CASE WriteLoop(p, rest, "callback")
    BY <2>1, <2>2, <2>8, WriteLoopType
  <2>9. QED
    BY <2>4, <2>5, <2>6, <2>7, <2>8
<1>6. CASE KillClient
  BY <1>6 DEF KillClient, WriteVarsOK, OtherVarsOK
<1>7. CASE FreeClientsInAsyncFreeQueue
  <2>1. buf' = <<>> /\ reply' = <<>> /\ ring' = <<>>
    BY <1>7 DEF FreeClientsInAsyncFreeQueue
  <2>2. buf' \in Seq(Nat) /\ reply' \in Seq(Entry) /\ ring' \in Seq(Op)
    BY <2>1, EmptyTyped
  <2>3. /\ sentlen' = 0 /\ replyBytes' = 0 /\ freed' = TRUE
        /\ async' = FALSE /\ queued' = FALSE /\ handler' = FALSE
        /\ wire' = wire /\ closing' = closing /\ conn' = conn /\ intr' = intr
        /\ bufcap' = bufcap /\ closeAfter' = closeAfter /\ produced' = produced
        /\ iouring' = iouring /\ evicting' = evicting /\ peerRead' = peerRead
    BY <1>7 DEF FreeClientsInAsyncFreeQueue
  <2>4. WriteVarsOK'
    <3>1. sentlen' \in Nat /\ replyBytes' \in Int /\ intr' \in Nat
      BY <2>3 DEF WriteVarsOK
    <3>2. /\ async' \in BOOLEAN /\ handler' \in BOOLEAN
          /\ closing' \in {"no", "drained", "aborted"}
          /\ conn' \in {"connected", "error"} /\ wire' \in Seq(Nat)
      BY <2>3 DEF WriteVarsOK
    <3>3. QED
      BY <2>2, <3>1, <3>2 DEF WriteVarsOK
  <2>5. OtherVarsOK'
    BY <2>3 DEF OtherVarsOK
  <2>6. QED
    BY <2>4, <2>5
<1>8. CASE ResizeOutputBuffer
  BY <1>8 DEF ResizeOutputBuffer, ResizeTargets, WriteVarsOK, OtherVarsOK
<1>9. CASE ToggleEviction \/ ToggleIouring
  BY ZenonT(40), <1>9 DEF ToggleEviction, ToggleIouring, WriteVarsOK, OtherVarsOK
<1>10. ASSUME NEW i \in DOMAIN ring, RingWrite(i)
       PROVE  WriteVarsOK' /\ OtherVarsOK'
  <2>1. PICK n \in 1..Len(ring[i].cells) :
          /\ wire' = wire \o [j \in 1..n |-> Load(ring[i].cells[j])]
          /\ ring' = [ring EXCEPT ![i].st = "done", ![i].ret = n]
    BY <1>10 DEF RingWrite
  <2>2. /\ i \in 1..Len(ring) /\ ring[i] \in Op /\ ring \in Seq(Op)
        /\ Len(ring[i].cells) \in Nat
        /\ \A j \in 1..Len(ring[i].cells) : ring[i].cells[j] \in Cell
    <3>1. ring[i] \in Op /\ i \in 1..Len(ring)
      BY RingEntry
    <3>2. ring[i].cells \in Seq(Cell)
      BY <3>1 DEF Op, Cell
    <3>3. QED
      BY <3>1, <3>2, LenProperties, ElementOfSeq DEF WriteVarsOK
  <2>3. \A j \in 1..n : Load(ring[i].cells[j]) \in Nat
    <3> SUFFICES ASSUME NEW c \in Cell PROVE Load(c) \in Nat
      BY <2>2
    <3>1. c[3] \in Nat /\ Junk \in Nat
      BY DEF Cell, Junk
    <3>2. ASSUME c[3] \in DOMAIN buf PROVE buf[c[3]] \in Nat
      BY <3>2, LenProperties, ElementOfSeq DEF WriteVarsOK
    <3>3. QED
      BY <3>1, <3>2 DEF Load
  <2>4. wire' \in Seq(Nat)
    <3>1. n \in Nat /\ wire \in Seq(Nat)
      BY <2>2 DEF WriteVarsOK
    <3>2. [j \in 1..n |-> Load(ring[i].cells[j])] \in Seq(Nat)
      <4> HIDE DEF WriteVarsOK
      <4>1. QED
        BY <3>1, <2>3, IsASeq
    <3>3. QED
      BY <2>1, <3>1, <3>2, ConcatProperties
  <2>5. ring' \in Seq(Op)
    <3>1. [ring[i] EXCEPT !.st = "done", !.ret = n] \in Op
      <4>1. n \in Nat
        BY <2>2
      <4>2. QED
        BY <2>2, <4>1 DEF Op
    <3>2. ring' = [ring EXCEPT ![i] = [ring[i] EXCEPT !.st = "done", !.ret = n]]
      BY <2>1, <2>2
    <3>3. QED
      BY <2>2, <3>1, <3>2, ExceptSeq
  <2>6. QED
    BY <1>10, <2>4, <2>5 DEF RingWrite, WriteVarsOK, OtherVarsOK
<1>11. ASSUME NEW i \in DOMAIN ring, RingFail(i)
       PROVE  WriteVarsOK' /\ OtherVarsOK'
  <2>1. PICK e \in {"EAGAIN", "EINTR", "EPIPE"} :
          /\ intr' \in {intr, intr + 1}
          /\ ring' = [ring EXCEPT ![i].st = "done", ![i].err = e]
    BY <1>11 DEF RingFail
  <2>2. i \in 1..Len(ring) /\ ring[i] \in Op /\ ring \in Seq(Op)
    BY RingEntry DEF WriteVarsOK
  <2>3. ring' \in Seq(Op)
    <3>1. [ring[i] EXCEPT !.st = "done", !.err = e] \in Op
      BY <2>2 DEF Op
    <3>2. ring' = [ring EXCEPT ![i] = [ring[i] EXCEPT !.st = "done", !.err = e]]
      BY <2>1, <2>2
    <3>3. QED
      BY <2>2, <3>1, <3>2, ExceptSeq
  <2>4. QED
    BY <1>11, <2>1, <2>3 DEF RingFail, WriteVarsOK, OtherVarsOK
<1>12. CASE PeerRead
  BY <1>12 DEF PeerRead, WriteVarsOK, OtherVarsOK
<1>13. CASE UNCHANGED vars
  BY <1>13 DEF vars, WriteVarsOK, OtherVarsOK
<1>14. QED
  BY <1>1, <1>3, <1>4, <1>5, <1>6, <1>7, <1>8, <1>9, <1>10, <1>11, <1>12, <1>13
  DEF Next

\* Initially the types hold.
LEMMA TypeInit == Init => WriteVarsOK /\ OtherVarsOK
<1> SUFFICES ASSUME Init PROVE WriteVarsOK /\ OtherVarsOK
  OBVIOUS
<1>1. buf \in Seq(Nat) /\ reply \in Seq(Entry) /\ ring \in Seq(Op) /\ wire \in Seq(Nat)
  <2>1. buf = <<>> /\ reply = <<>> /\ ring = <<>> /\ wire = <<>>
    BY DEF Init
  <2>2. QED
    BY <2>1, EmptyTyped
<1>2. /\ sentlen = 0 /\ replyBytes = 0 /\ async = FALSE /\ handler = FALSE
      /\ closing = "no" /\ conn = "connected" /\ intr = 0
  BY DEF Init
<1>3. OtherVarsOK
  <2>1. /\ bufcap \in BufCaps /\ peerRead = 0 /\ produced = 0
        /\ queued = FALSE /\ closeAfter = FALSE /\ freed = FALSE
        /\ iouring = TRUE /\ evicting = FALSE
    BY DEF Init
  <2>2. QED
    BY <2>1 DEF OtherVarsOK
<1>4. WriteVarsOK
  <2>1. sentlen \in Nat /\ replyBytes \in Int /\ intr \in Nat
    BY <1>2
  <2>2. /\ async \in BOOLEAN /\ handler \in BOOLEAN
        /\ closing \in {"no", "drained", "aborted"}
        /\ conn \in {"connected", "error"}
    BY <1>2
  <2>3. QED
    BY <1>1, <2>1, <2>2 DEF WriteVarsOK
<1>5. QED
  BY <1>3, <1>4

\* Type correctness of the write path; in particular sentlen, from which the code
\* subtracts, never becomes negative.
THEOREM TypeCorrect == Spec => []TypeOK
<1>1. WriteVarsOK /\ OtherVarsOK /\ [Next]_vars => (WriteVarsOK /\ OtherVarsOK)'
  BY TypeStep
<1>2. QED
  BY <1>1, TypeInit, TypeOKParts, PTL DEF Spec

-----------------------------------------------------------------------------
(* One operation in flight per client, the write handler, and replies that nobody would write. *)

\* An operation in flight stands for pending output.
FlightHasPending == async => HasPending(Out)

\* A client that is queued while an operation is in flight already waits for
\* EPOLLOUT as well: it was sent from there and queued before.
QueuedInFlightHasHandler == queued /\ async => handler

\* The inductive invariant behind OneInFlight and HandlerNotArmedInFlight.
FlightInv ==
  /\ WriteVarsOK
  /\ OtherVarsOK
  /\ OneInFlight
  /\ FlightHasPending
  /\ QueuedInFlightHasHandler

-----------------------------------------------------------------------------
\* What writeToClient()'s loop does to the flag, the ring and the write handler.
LEMMA WriteLoopOutcome ==
  ASSUME NEW o, NEW rest, NEW caller, WriteLoop(o, rest, caller)
  PROVE  \E p :
           \/ /\ HasPending(p) /\ TriesRing /\ SetOut(p)
              /\ async' = TRUE /\ ring' = Append(rest, NewOp(p))
              /\ handler' = handler
              /\ closing' = closing
           \/ /\ ~HasPending(p) /\ SetOut(p)
              /\ async' = FALSE /\ ring' = rest
           \/ SyncPossible /\ async' = FALSE /\ ring' = rest
<1>1. PICK m \in 0..Len(Unsent(o)) :
        LET p == Ack("writev", o, m) IN
        \/ /\ HasPending(p) /\ TriesRing /\ SetOut(p) /\ async' = TRUE
           /\ ring' = Append(rest, NewOp(p))
           /\ handler' = HandlerWhenSubmitted(caller)
           /\ UNCHANGED <<closing, conn, intr>>
        \/ /\ ~HasPending(p) /\ SetOut([p EXCEPT !.sentlen = 0])
           /\ async' = FALSE /\ ring' = rest
        \/ SyncPossible /\ async' = FALSE /\ ring' = rest
  BY DEF WriteLoop
<1> DEFINE p == Ack("writev", o, m)
           q == [p EXCEPT !.sentlen = 0]
<1>2. ~HasPending(p) => ~HasPending(q)
  BY DEF HasPending
<1> HIDE DEF p, q
<1>3. CASE /\ HasPending(p) /\ TriesRing /\ SetOut(p) /\ async' = TRUE
           /\ ring' = Append(rest, NewOp(p))
           /\ handler' = HandlerWhenSubmitted(caller)
           /\ UNCHANGED <<closing, conn, intr>>
  BY <1>3, Zenon DEF HandlerWhenSubmitted
<1>4. CASE ~HasPending(p) /\ SetOut(q) /\ async' = FALSE /\ ring' = rest
  BY <1>2, <1>4, Zenon
<1>5. CASE SyncPossible /\ async' = FALSE /\ ring' = rest
  BY <1>5, Zenon
<1>6. QED
  BY <1>1, <1>3, <1>4, <1>5, Zenon DEF p, q

\* After output state p is written back, the client has what p has pending.
LEMMA PendingAfterSetOut ==
  ASSUME NEW p, SetOut(p)
  PROVE  HasPending(Out)' <=> HasPending(p)
BY DEF SetOut, Out, HasPending

\* With no other operation left in the ring, the loop leaves the flag and the ring
\* in agreement, and a new operation has output behind it.
LEMMA WriteLoopFlight ==
  ASSUME NEW o, NEW rest \in Seq(Op), Len(rest) = 0, NEW caller,
         WriteLoop(o, rest, caller)
  PROVE  /\ OneInFlight' /\ FlightHasPending'
         /\ async' => handler' = handler
<1>1. PICK p :
        \/ /\ HasPending(p) /\ SetOut(p)
           /\ async' = TRUE /\ ring' = Append(rest, NewOp(p))
           /\ handler' = handler
        \/ async' = FALSE /\ ring' = rest
  BY WriteLoopOutcome
<1>2. CASE /\ HasPending(p) /\ SetOut(p)
           /\ async' = TRUE /\ ring' = Append(rest, NewOp(p))
           /\ handler' = handler
  <2>1. Len(Append(rest, NewOp(p))) = 1
    BY LenProperties
  <2>2. OneInFlight'
    BY <1>2, <2>1 DEF OneInFlight
  <2>3. FlightHasPending'
    BY <1>2, PendingAfterSetOut DEF FlightHasPending
  <2>4. QED
    BY <1>2, <2>2, <2>3
<1>3. CASE async' = FALSE /\ ring' = rest
  BY <1>3 DEF OneInFlight, FlightHasPending
<1>4. QED
  BY <1>1, <1>2, <1>3

\* writeToClient() from the queue or the write handler.
LEMMA WriteToClientFlight ==
  ASSUME FlightInv, NEW caller, WriteToClient(caller)
  PROVE  /\ OneInFlight' /\ FlightHasPending'
         /\ async' => async \/ handler' = handler
         /\ async => async' /\ (handler => handler')
         /\ async /\ caller # "queue" => handler' = handler
<1>1. CASE AlreadyAsync(async)
  <2>1. /\ handler' = (handler \/ (caller = "queue" /\ HasPending(Out)))
        /\ async' = async /\ ring' = ring /\ buf' = buf /\ reply' = reply
        /\ async
    BY <1>1 DEF WriteToClient, AlreadyAsync, outvars
  <2>2. OneInFlight' /\ FlightHasPending'
    BY <2>1 DEF FlightInv, OneInFlight, FlightHasPending, HasPending, Out
  <2>3. QED
    BY <2>1, <2>2 DEF FlightInv, WriteVarsOK
<1>2. CASE ~AlreadyAsync(async)
  <2>1. WriteLoop(Out, ring, caller) /\ ~async
    BY <1>2 DEF WriteToClient, AlreadyAsync
  <2>2. ring \in Seq(Op) /\ Len(ring) = 0
    BY <2>1 DEF FlightInv, OneInFlight, WriteVarsOK
  <2>3. QED
    BY <2>1, <2>2, WriteLoopFlight
<1>3. QED
  BY <1>1, <1>2

\* A completion is of the only operation: nothing is left in the ring but what the
\* callback submits itself, and the flag is cleared unless it does.
LEMMA CompletionFlight ==
  ASSUME FlightInv, NEW i \in DOMAIN ring, Completion(i)
  PROVE  /\ OneInFlight' /\ FlightHasPending'
         /\ async
         /\ async' => handler' = handler
<1>1. async /\ Len(ring) = 1
  <2>1. Len(ring) # 0
    BY RingEntry, LenProperties DEF FlightInv, WriteVarsOK
  <2>2. QED
    BY <2>1 DEF FlightInv, OneInFlight
<1>2. Without(ring, i) \in Seq(Op) /\ Len(Without(ring, i)) = 0
  BY <1>1, RingEntry DEF FlightInv
<1>3. \/ async' = FALSE /\ ring' = Without(ring, i)
      \/ WriteLoop(Ack(ring[i].kind, Out, ring[i].ret), Without(ring, i), "callback")
  BY DEF Completion, FlagCleared
<1>4. CASE async' = FALSE /\ ring' = Without(ring, i)
  BY <1>1, <1>2, <1>4 DEF OneInFlight, FlightHasPending
<1>5. CASE WriteLoop(Ack(ring[i].kind, Out, ring[i].ret), Without(ring, i), "callback")
  BY <1>1, <1>2, <1>5, WriteLoopFlight
<1>6. QED
  BY <1>3, <1>4, <1>5

-----------------------------------------------------------------------------
\* Every step keeps the invariant, and none that leaves an operation in flight
\* arms the write handler.
LEMMA FlightStep ==
  ASSUME FlightInv, [Next]_vars
  PROVE  FlightInv' /\ (async' /\ ~handler => ~handler')
<1> USE DEF outvars, lifevars, linkvars, globalvars, sockvars
<1>1. WriteVarsOK' /\ OtherVarsOK'
  BY TypeStep DEF FlightInv
<1>2. SUFFICES /\ OneInFlight' /\ FlightHasPending' /\ QueuedInFlightHasHandler'
               /\ async' /\ ~handler => ~handler'
  BY <1>1 DEF FlightInv
<1>3. ASSUME UNCHANGED <<buf, reply, async, handler, queued, ring>>
      PROVE  /\ OneInFlight' /\ FlightHasPending' /\ QueuedInFlightHasHandler'
             /\ async' /\ ~handler => ~handler'
  BY <1>3 DEF FlightInv, OneInFlight, FlightHasPending, QueuedInFlightHasHandler,
              HasPending, Out
<1>4. ASSUME NEW last \in BOOLEAN, AddReply(last)
      PROVE  /\ OneInFlight' /\ FlightHasPending' /\ QueuedInFlightHasHandler'
             /\ async' /\ ~handler => ~handler'
  <2>1. /\ async' = async /\ handler' = handler /\ ring' = ring
        /\ queued' = (queued \/ ~HasPending(Out))
    BY <1>4 DEF AddReply
  <2>2. \/ buf' = Append(buf, produced + 1) /\ reply' = reply
        \/ buf' = buf /\ \E e : reply' = Append(reply, e)
    BY <1>4 DEF AddReply
  <2>3. HasPending(Out)'
    <3>1. /\ buf \in Seq(Nat) /\ reply \in Seq(Entry) 
      BY DEF FlightInv, WriteVarsOK
    <3>2. buf' # <<>> \/ reply' # <<>>
      BY <2>2, <3>1, LenProperties
    <3>3. QED
      BY <3>2 DEF HasPending, Out
  <2>4. QED
    BY <2>1, <2>3 DEF FlightInv, OneInFlight, FlightHasPending, QueuedInFlightHasHandler
<1>5. CASE FlushPendingWrites
  <2>1. queued' = FALSE /\ QueuedInFlightHasHandler'
    BY <1>5 DEF FlushPendingWrites, QueuedInFlightHasHandler
  <2>2. CASE closing = "no"
    <3>1. WriteToClient("queue") /\ queued
      BY <1>5, <2>2 DEF FlushPendingWrites
    <3>2. async => handler
      BY <3>1 DEF FlightInv, QueuedInFlightHasHandler
    <3>3. QED
      BY <2>1, <3>1, <3>2, WriteToClientFlight
  <2>3. CASE closing # "no"
    <3>1. UNCHANGED <<buf, reply, async, handler, ring>>
      BY <1>5, <2>3 DEF FlushPendingWrites
    <3>2. QED
      BY <2>1, <3>1 DEF FlightInv, OneInFlight, FlightHasPending, HasPending, Out
  <2>4. QED
    BY <2>2, <2>3
<1>6. CASE EpollOut
  <2>1. WriteToClient("handler") /\ handler /\ queued' = queued
    BY <1>6 DEF EpollOut
  <2>2. async' => handler'
    BY <2>1, WriteToClientFlight
  <2>3. QueuedInFlightHasHandler'
    BY <2>2 DEF QueuedInFlightHasHandler
  <2>4. QED
    BY <2>1, <2>3, WriteToClientFlight
<1>7. ASSUME NEW i \in DOMAIN ring, Completion(i)
      PROVE  /\ OneInFlight' /\ FlightHasPending' /\ QueuedInFlightHasHandler'
             /\ async' /\ ~handler => ~handler'
  <2>1. queued' = queued
    BY <1>7 DEF Completion
  <2>2. async /\ (async' => handler' = handler)
    BY <1>7, CompletionFlight
  <2>3. QueuedInFlightHasHandler'
    BY <2>1, <2>2 DEF FlightInv, QueuedInFlightHasHandler
  <2>4. QED
    BY <1>7, <2>2, <2>3, CompletionFlight
<1>8. CASE FreeClientsInAsyncFreeQueue
  <2>1. async' = FALSE /\ handler' = FALSE /\ ring' = <<>>
    BY <1>8 DEF FreeClientsInAsyncFreeQueue
  <2>2. QED
    BY <2>1 DEF OneInFlight, FlightHasPending, QueuedInFlightHasHandler
<1>9. CASE KillClient \/ ResizeOutputBuffer \/ ToggleEviction \/ ToggleIouring \/ PeerRead
  BY <1>3, <1>9 DEF KillClient, ResizeOutputBuffer, ToggleEviction, ToggleIouring, PeerRead
<1>10. ASSUME NEW i \in DOMAIN ring, RingWrite(i) \/ RingFail(i)
       PROVE  /\ OneInFlight' /\ FlightHasPending' /\ QueuedInFlightHasHandler'
              /\ async' /\ ~handler => ~handler'
  <2>1. /\ UNCHANGED <<buf, reply, async, handler, queued>>
        /\ \E r : ring' = [ring EXCEPT ![i] = r]
    BY <1>10 DEF RingWrite, RingFail
  <2>2. DOMAIN ring' = DOMAIN ring
    BY <2>1
  <2>3. Len(ring') = Len(ring)
    BY <1>1, <2>2, LenProperties DEF FlightInv, WriteVarsOK
  <2>4. QED
    BY <2>1, <2>3 DEF FlightInv, OneInFlight, FlightHasPending,
                      QueuedInFlightHasHandler, HasPending, Out
<1>11. CASE UNCHANGED vars
  BY <1>3, <1>11 DEF vars
<1>12. QED
  BY <1>4, <1>5, <1>6, <1>7, <1>8, <1>9, <1>10, <1>11 DEF Next

\* The invariant holds initially.
LEMMA FlightInit == Init => FlightInv
<1> SUFFICES ASSUME Init PROVE FlightInv
  OBVIOUS
<1>1. async = FALSE /\ ring = <<>>
  BY DEF Init
<1>2. OneInFlight /\ FlightHasPending /\ QueuedInFlightHasHandler
  BY <1>1 DEF OneInFlight, FlightHasPending, QueuedInFlightHasHandler
<1>3. QED
  BY <1>2, TypeInit DEF FlightInv

\* The invariant holds throughout.
LEMMA FlightAlways == Spec => []FlightInv
<1>1. FlightInv /\ [Next]_vars => FlightInv'
  BY FlightStep
<1>2. QED
  BY <1>1, FlightInit, PTL DEF Spec

\* A client never has two operations in the ring, and CLIENT_ASYNC is set exactly
\* while it has one: the guard of writeToClient() and write_callback_common()'s
\* clearing of the flag suffice, whatever the fallbacks do in between.
THEOREM SingleFlight == Spec => []OneInFlight
<1>1. FlightInv => OneInFlight
  BY DEF FlightInv
<1>2. QED
  BY <1>1, FlightAlways, PTL

\* "Always return ERR to avoid installing write handler" (line 427): an operation
\* in flight is never accompanied by a newly armed write handler, although
\* writeToClient()'s early C_OK would let handleClientsWithPendingWrites() arm it.
THEOREM HandlerStaysUnarmed == Spec => HandlerNotArmedInFlight
<1>1. FlightInv /\ [Next]_vars => [async' /\ ~handler => ~handler']_vars
  BY FlightStep
<1>2. QED
  BY <1>1, FlightAlways, PTL DEF Spec, HandlerNotArmedInFlight

-----------------------------------------------------------------------------
\* The part of NoOrphanedReply's invariant about the globals.
RingAlwaysTried == iouring /\ ~evicting

\* While every submission is tried and accepted, writeToClient()'s loop never stops
\* halfway: either the ring holds the rest or there is none.
LEMMA WriteLoopNoOrphan ==
  ASSUME ~RingMayRefuse, RingAlwaysTried, NEW o, NEW rest, NEW caller,
         WriteLoop(o, rest, caller)
  PROVE  async' \/ ~HasPending(Out)'
<1>1. ~SyncPossible
  BY DEF SyncPossible, TriesRing, RingAlwaysTried
<1>2. PICK p : \/ async' = TRUE
               \/ ~HasPending(p) /\ SetOut(p)
  BY <1>1, WriteLoopOutcome
<1>3. QED
  BY <1>2, PendingAfterSetOut

\* The same of writeToClient().
LEMMA WriteToClientNoOrphan ==
  ASSUME ~RingMayRefuse, RingAlwaysTried, NEW caller, WriteToClient(caller)
  PROVE  async' \/ ~HasPending(Out)'
<1>1. CASE AlreadyAsync(async)
  BY <1>1 DEF WriteToClient, AlreadyAsync
<1>2. CASE ~AlreadyAsync(async)
  BY <1>2, WriteLoopNoOrphan DEF WriteToClient
<1>3. QED
  BY <1>1, <1>2

\* Every step keeps pending output owned, as long as the ring is always used.
LEMMA NoOrphanStep ==
  ASSUME ~RingMayRefuse, ~MayEvict, ~MayToggle, RingAlwaysTried, NoOrphanedReply,
         [Next]_vars
  PROVE  RingAlwaysTried' /\ NoOrphanedReply'
<1> USE DEF outvars, lifevars, linkvars, globalvars, sockvars
<1>1. ASSUME UNCHANGED <<buf, reply, async, handler, queued, closing, freed>>
      PROVE  NoOrphanedReply'
  BY <1>1 DEF NoOrphanedReply, HasPending, Out
<1>2. ASSUME NEW last \in BOOLEAN, AddReply(last)
      PROVE  RingAlwaysTried' /\ NoOrphanedReply'
  <2>1. /\ UNCHANGED <<globalvars, async, handler>>
        /\ queued' = (queued \/ ~HasPending(Out))
        /\ ~freed /\ closing = "no"
    BY <1>2 DEF AddReply
  <2>2. QED
    BY <2>1 DEF NoOrphanedReply, RingAlwaysTried
<1>3. CASE FlushPendingWrites
  <2>1. UNCHANGED globalvars
    BY <1>3 DEF FlushPendingWrites
  <2>2. CASE closing = "no"
    BY <1>3, <2>1, <2>2, WriteToClientNoOrphan
    DEF FlushPendingWrites, NoOrphanedReply, RingAlwaysTried
  <2>3. CASE closing # "no"
    BY <1>3, <2>1, <2>3 DEF FlushPendingWrites, NoOrphanedReply, RingAlwaysTried
  <2>4. QED
    BY <2>2, <2>3
<1>4. CASE EpollOut
  BY <1>4, WriteToClientNoOrphan DEF EpollOut, NoOrphanedReply, RingAlwaysTried
<1>5. ASSUME NEW i \in DOMAIN ring, Completion(i)
      PROVE  RingAlwaysTried' /\ NoOrphanedReply'
  <2> DEFINE rest == Without(ring, i)
             p == Ack(ring[i].kind, Out, ring[i].ret)
             q == [p EXCEPT !.sentlen = 0]
  <2>1. ~HasPending(p) => ~HasPending(q)
    BY DEF HasPending
  <2>2. UNCHANGED globalvars
    BY <1>5 DEF Completion
  <2> HIDE DEF rest, p, q
  <2>3. \/ closing' = FreeAsync("aborted")
        \/ ~HasPending(p) /\ SetOut(q)
        \/ handler' = HandlerInstalled
        \/ WriteLoop(p, rest, "callback")
    BY <1>5 DEF Completion, rest, p, q
  <2>4. ASSUME closing' = FreeAsync("aborted") PROVE NoOrphanedReply'
    <3>1. closing' # "no"
      BY <2>4 DEF FreeAsync
    <3>2. QED
      BY <3>1 DEF NoOrphanedReply
  <2>5. ASSUME ~HasPending(p), SetOut(q) PROVE NoOrphanedReply'
    <3>1. ~HasPending(Out)'
      BY <2>1, <2>5, PendingAfterSetOut
    <3>2. QED
      BY <3>1 DEF NoOrphanedReply
  <2>6. ASSUME handler' = HandlerInstalled PROVE NoOrphanedReply'
    BY <2>6 DEF HandlerInstalled, NoOrphanedReply
  <2>7. ASSUME WriteLoop(p, rest, "callback") PROVE NoOrphanedReply'
    <3>1. async' \/ ~HasPending(Out)'
      BY <2>7, WriteLoopNoOrphan
    <3>2. QED
      BY <3>1 DEF NoOrphanedReply
  <2>8. QED
    BY <2>2, <2>3, <2>4, <2>5, <2>6, <2>7 DEF RingAlwaysTried
<1>6. CASE KillClient \/ FreeClientsInAsyncFreeQueue
  <2>1. UNCHANGED globalvars /\ (closing' # "no" \/ freed')
    BY <1>6 DEF KillClient, FreeClientsInAsyncFreeQueue
  <2>2. QED
    BY <2>1 DEF NoOrphanedReply, RingAlwaysTried
<1>7. CASE ToggleEviction \/ ToggleIouring
  BY <1>7 DEF ToggleEviction, ToggleIouring
<1>8. CASE ResizeOutputBuffer \/ PeerRead
  <2>1. UNCHANGED <<buf, reply, async, handler, queued, closing, freed, iouring, evicting>>
    BY <1>8 DEF ResizeOutputBuffer, PeerRead
  <2>2. QED
    BY <1>1, <2>1 DEF RingAlwaysTried
<1>9. ASSUME NEW i \in DOMAIN ring, RingWrite(i) \/ RingFail(i)
      PROVE  RingAlwaysTried' /\ NoOrphanedReply'
  <2>1. UNCHANGED <<buf, reply, async, handler, queued, closing, freed, iouring, evicting>>
    BY <1>9 DEF RingWrite, RingFail
  <2>2. QED
    BY <1>1, <2>1 DEF RingAlwaysTried
<1>10. CASE UNCHANGED vars
  BY <1>1, <1>10 DEF vars, RingAlwaysTried
<1>11. QED
  BY <1>2, <1>3, <1>4, <1>5, <1>6, <1>7, <1>8, <1>9, <1>10 DEF Next

\* While the library accepts every call, no eviction runs and iouring-enable stays
\* on, pending output always has somebody who will write it: the flag, the queue or
\* the handler.  The three assumptions are what the run KraioFallbackStuck drops.
THEOREM AsyncNeverOrphans ==
  ASSUME ~RingMayRefuse, ~MayEvict, ~MayToggle
  PROVE  Spec => []NoOrphanedReply
<1>1. Init => RingAlwaysTried /\ NoOrphanedReply
  <2>1. Init => buf = <<>> /\ reply = <<>> /\ iouring = TRUE /\ evicting = FALSE
    BY DEF Init
  <2>2. QED
    BY <2>1 DEF RingAlwaysTried, NoOrphanedReply, HasPending, Out
<1>2. RingAlwaysTried /\ NoOrphanedReply /\ [Next]_vars
        => (RingAlwaysTried /\ NoOrphanedReply)'
  BY NoOrphanStep
<1>3. QED
  BY <1>1, <1>2, PTL DEF Spec

-----------------------------------------------------------------------------
(* The buffers, unit by unit. *)

\* The entries of one block stand together, and blocks follow in order of creation.
Ordered(r) == \A i, j \in 1..Len(r) : i <= j => r[i].block <= r[j].block

\* Unsent units of the static buffer.
InBuf(o) == IF o.buf # <<>> THEN Len(o.buf) - o.sentlen ELSE 0

\* Unsent units in all.
Left(o) == InBuf(o) + Len(o.reply) - HeadOffset(o)

\* The entry of the list that is the j-th unsent unit.
Place(o, j) == HeadOffset(o) + j - InBuf(o)

\* The j-th unsent unit, and its address while the static buffer has size cap.
UnitAt(o, j) == IF j <= InBuf(o) THEN o.buf[o.sentlen + j] ELSE o.reply[Place(o, j)].unit

CellAt(o, cap, j) ==
  IF j <= InBuf(o) THEN <<"buf", cap, o.sentlen + j>>
  ELSE <<"block", o.reply[Place(o, j)].block, o.reply[Place(o, j)].unit>>

\* Output buffers as the program leaves them when top units have been produced.
OutOK(o, top) ==
  /\ Ordered(o.reply)
  /\ \A i \in 1..Len(o.reply) : o.reply[i].block <= top
  /\ o.buf # <<>> => o.sentlen < Len(o.buf)
  /\ o.buf = <<>> /\ o.reply # <<>> =>
       /\ o.sentlen < Len(o.reply)
       /\ o.reply[o.sentlen + 1].block = o.reply[1].block
  /\ ~HasPending(o) => o.sentlen = 0
  /\ o.bytes = BlockCap * Cardinality(Blocks(o.reply, Len(o.reply)))

\* An operation describes the first unsent units of o; what it reports is part of them.
Describes(op, o, cap) ==
  /\ Len(op.cells) \in 1..Left(o)
  /\ \A j \in 1..Len(op.cells) : op.cells[j] = CellAt(o, cap, j)
  /\ op.ret <= Len(op.cells)
  /\ op.kind = "write" => Len(op.cells) <= InBuf(o)
  /\ op.st = "flight" => op.err = "none" /\ op.ret = 0
  /\ op.err # "none" => op.ret = 0

\* What the invariant adds to FlightInv.
Memory ==
  /\ OutOK(Out, produced)
  /\ \A i \in 1..Len(ring) : Describes(ring[i], Out, bufcap)
  /\ closing = "drained" => ~HasPending(Out)
  /\ freed => ~async

\* The inductive invariant.
MemInv == FlightInv /\ Memory

-----------------------------------------------------------------------------
(* Sequences and counting. *)

\* The entries that Drop leaves.
LEMMA DropFacts ==
  ASSUME NEW S, NEW s \in Seq(S), NEW n \in 0..Len(s)
  PROVE  /\ Drop(s, n) \in Seq(S)
         /\ Len(Drop(s, n)) = Len(s) - n
         /\ \A i \in 1..(Len(s) - n) : Drop(s, n)[i] = s[n + i]
<1>1. Len(s) \in Nat /\ n + 1 \in Int /\ Len(s) \in Int /\ n \in Nat
  BY LenProperties
<1>2. \A i \in (n + 1)..Len(s) : s[i] \in S
  BY ElementOfSeq, <1>1
<1>3. \A i \in 1..(Len(s) - (n + 1) + 1) : SubSeq(s, n + 1, Len(s))[i] = s[n + 1 + i - 1]
  BY <1>1, <1>2, SubSeqProperties
<1>4. \A i \in 1..(Len(s) - n) : n + 1 + i - 1 = n + i
  BY <1>1
<1>5. Len(s) - (n + 1) + 1 = Len(s) - n
  BY <1>1
<1>6. Drop(s, n) \in Seq(S) /\ Len(Drop(s, n)) = Len(s) - n
  BY <1>1, DropType
<1> QED
  BY <1>3, <1>4, <1>5, <1>6 DEF Drop

\* A set of numbers up to n that has every smaller number with each of its members
\* is an interval, and its size is its greatest member.
LEMMA PrefixCount ==
  ASSUME NEW n \in Nat, NEW T \in SUBSET (1..n),
         \A i \in T, k \in 1..n : k <= i => k \in T
  PROVE  Cardinality(T) \in 0..n /\ T = 1..Cardinality(T)
<1> DEFINE M == {i \in Nat \ {0} : i \notin T}
<1>1. n + 1 \in M /\ M \subseteq Nat
  OBVIOUS
<1>2. IsWellFoundedOn(OpToRel(<, Nat), Nat)
  BY NatLessThanWellFounded
<1>3. PICK x \in M : \A y \in M : ~ (<<y, x>> \in OpToRel(<, Nat))
  BY <1>1, <1>2, WFMin
<1>4. x \in Nat \ {0} /\ x \notin T /\ \A y \in M : ~ (y < x)
  BY <1>1, <1>3 DEF OpToRel
<1>5. \A y \in 1..(x - 1) : y \in T
  <2> TAKE y \in 1..(x - 1)
  <2>1. y \in Nat \ {0} /\ y < x
    BY <1>4
  <2> QED
    BY <2>1, <1>4
<1>6. \A y \in T : y < x
  <2> TAKE y \in T
  <2> SUFFICES ASSUME x <= y PROVE FALSE
    BY <1>4
  <2>1. x \in 1..n
    BY <1>4
  <2> QED
    BY <2>1, <1>4
<1> HIDE DEF M
<1>7. T = 1..(x - 1)
  <2>1. \A y \in T : y \in 1..(x - 1)
    BY <1>4, <1>6
  <2> QED
    BY <1>5, <2>1
<1>8. x - 1 \in Nat /\ Cardinality(1..(x - 1)) = x - 1
  BY <1>4, FS_Interval
<1>9. x - 1 <= n
  <2> SUFFICES ASSUME n < x - 1 PROVE FALSE
    BY <1>8
  <2>1. x - 1 \in T
    BY <1>7, <1>8
  <2> QED
    BY <2>1, <1>8
<1> QED
  BY <1>7, <1>8, <1>9

-----------------------------------------------------------------------------
(* What is unsent, and what a part of it leaves. *)

\* The measures of output buffers.
LEMMA OutParts ==
  ASSUME NEW o \in OutType, NEW top, OutOK(o, top)
  PROVE  /\ o.buf \in Seq(Nat) /\ o.sentlen \in Nat /\ o.reply \in Seq(Entry) /\ o.bytes \in Int
         /\ Len(o.buf) \in Nat /\ Len(o.reply) \in Nat
         /\ o.buf = <<>> <=> Len(o.buf) = 0
         /\ o.reply = <<>> <=> Len(o.reply) = 0
         /\ InBuf(o) \in Nat /\ HeadOffset(o) \in 0..Len(o.reply) /\ Left(o) \in Nat
         /\ o.buf # <<>> => InBuf(o) > 0 /\ HeadOffset(o) = 0 /\ InBuf(o) = Len(o.buf) - o.sentlen
         /\ o.buf = <<>> => InBuf(o) = 0 /\ HeadOffset(o) = o.sentlen
         /\ HasPending(o) <=> Left(o) > 0
<1>1. /\ o.buf \in Seq(Nat) /\ o.sentlen \in Nat /\ o.reply \in Seq(Entry) /\ o.bytes \in Int
      /\ Len(o.buf) \in Nat /\ Len(o.reply) \in Nat
  BY LenProperties DEF OutType
<1>2. (o.buf = <<>> <=> Len(o.buf) = 0) /\ (o.reply = <<>> <=> Len(o.reply) = 0)
  BY <1>1, EmptySeq
<1>3. /\ o.buf # <<>> => o.sentlen < Len(o.buf)
      /\ o.buf = <<>> /\ o.reply # <<>> => o.sentlen < Len(o.reply)
      /\ o.buf = <<>> /\ o.reply = <<>> => o.sentlen = 0
  BY DEF OutOK, HasPending
<1> QED
  BY <1>1, <1>2, <1>3, SMTT(30) DEF InBuf, HeadOffset, Left, HasPending

\* What remains to be sent has Left units, and UnitAt says which.
LEMMA UnsentFacts ==
  ASSUME NEW o \in OutType, NEW top, OutOK(o, top)
  PROVE  /\ Unsent(o) \in Seq(Nat)
         /\ Len(Unsent(o)) = Left(o)
         /\ \A j \in 1..Left(o) : Unsent(o)[j] = UnitAt(o, j)
<1> DEFINE skip == IF o.buf # <<>> THEN o.sentlen ELSE 0
           head == HeadOffset(o)
           u == Units(o.reply)
           b == Drop(o.buf, skip)
           r == Drop(u, head)
<1>1. /\ o.buf \in Seq(Nat) /\ o.sentlen \in Nat /\ o.reply \in Seq(Entry)
      /\ Len(o.buf) \in Nat /\ Len(o.reply) \in Nat
      /\ InBuf(o) \in Nat /\ HeadOffset(o) \in 0..Len(o.reply) /\ Left(o) \in Nat
      /\ o.buf # <<>> => InBuf(o) = Len(o.buf) - o.sentlen
      /\ o.buf = <<>> => InBuf(o) = 0 /\ Len(o.buf) = 0
  BY OutParts
<1>2. skip \in 0..Len(o.buf) /\ Len(o.buf) - skip = InBuf(o) /\ head \in 0..Len(o.reply)
  BY <1>1
<1> HIDE DEF skip, head
<1>3. /\ b \in Seq(Nat) /\ Len(b) = InBuf(o)
      /\ \A i \in 1..InBuf(o) : b[i] = o.buf[skip + i]
  <2>1. /\ b \in Seq(Nat) /\ Len(b) = Len(o.buf) - skip
        /\ \A i \in 1..(Len(o.buf) - skip) : b[i] = o.buf[skip + i]
    BY <1>1, <1>2, DropFacts
  <2> QED
    BY <1>2, <2>1
<1>4. u \in Seq(Nat) /\ Len(u) = Len(o.reply) /\ \A i \in 1..Len(o.reply) : u[i] = o.reply[i].unit
  <2>1. \A i \in 1..Len(o.reply) : o.reply[i].unit \in Nat
    BY <1>1, EntryFields
  <2>2. u \in Seq(Nat)
    BY <1>1, <2>1, IsASeq DEF Units
  <2>3. DOMAIN u = 1..Len(o.reply)
    BY DEF Units
  <2>4. Len(u) = Len(o.reply)
    BY <1>1, <2>2, <2>3, LenProperties
  <2> QED
    BY <2>2, <2>4 DEF Units
<1> HIDE DEF u
<1>5. /\ r \in Seq(Nat) /\ Len(r) = Len(o.reply) - head
      /\ \A i \in 1..(Len(o.reply) - head) : r[i] = u[head + i]
  <2>1. u \in Seq(Nat) /\ Len(u) = Len(o.reply) /\ head \in 0..Len(u)
    BY <1>2, <1>4
  <2>2. /\ r \in Seq(Nat) /\ Len(r) = Len(u) - head
        /\ \A i \in 1..(Len(u) - head) : r[i] = u[head + i]
    BY <2>1, DropFacts
  <2> QED
    BY <2>1, <2>2
<1> HIDE DEF b, r
<1>6. Unsent(o) = b \o r
  BY DEF Unsent, b, r, u, skip, head
<1>7. /\ Unsent(o) \in Seq(Nat) /\ Len(Unsent(o)) = Len(b) + Len(r)
      /\ \A i \in 1..(Len(b) + Len(r)) :
           Unsent(o)[i] = IF i <= Len(b) THEN b[i] ELSE r[i - Len(b)]
  <2>1. b \in Seq(Nat) /\ r \in Seq(Nat)
    BY <1>3, <1>5
  <2> HIDE DEF u, head, skip
  <2>2. /\ b \o r \in Seq(Nat) /\ Len(b \o r) = Len(b) + Len(r)
        /\ \A i \in 1..(Len(b) + Len(r)) :
             (b \o r)[i] = IF i <= Len(b) THEN b[i] ELSE r[i - Len(b)]
    BY <2>1, ConcatProperties
  <2> QED
    BY <1>6, <2>2
<1>8. Len(b) + Len(r) = Left(o)
  BY <1>1, <1>3, <1>5 DEF Left, head
<1>9. /\ InBuf(o) \in Nat /\ head \in Nat /\ Len(o.reply) \in Nat /\ Left(o) \in Nat
      /\ head <= Len(o.reply) /\ Left(o) = InBuf(o) + Len(o.reply) - head
      /\ Len(b) = InBuf(o)
  BY <1>1, <1>2, <1>3 DEF Left, head
<1>10. ASSUME NEW j \in 1..Left(o) PROVE Unsent(o)[j] = UnitAt(o, j)
  <2>0. j \in Nat /\ 1 <= j /\ j <= Left(o)
    BY <1>9
  <2>1. CASE j <= InBuf(o)
    <3>1. o.buf # <<>> /\ skip = o.sentlen
      BY <1>1, <2>0, <2>1 DEF skip
    <3>2. Unsent(o)[j] = b[j] /\ b[j] = o.buf[skip + j]
      BY <1>3, <1>7, <1>8, <1>9, <2>0, <2>1
    <3> QED
      BY <2>1, <3>1, <3>2 DEF UnitAt
  <2>2. CASE ~ (j <= InBuf(o))
    <3> DEFINE k == j - InBuf(o)
    <3>1. k \in 1..(Len(o.reply) - head) /\ head + k \in 1..Len(o.reply)
      BY <1>9, <2>0, <2>2
    <3>2. Place(o, j) = head + k
      BY <1>9, <2>0 DEF Place, head
    <3> HIDE DEF k
    <3>3. Unsent(o)[j] = r[k]
      BY <1>7, <1>8, <1>9, <2>0, <2>2 DEF k
    <3>4. r[k] = u[head + k] /\ u[head + k] = o.reply[head + k].unit
      BY <1>4, <1>5, <3>1
    <3> QED
      BY <2>2, <3>2, <3>3, <3>4 DEF UnitAt
  <2> QED
    BY <2>1, <2>2
<1> QED
  BY <1>7, <1>8, <1>10

\* The blocks that a completion covers whole are the first ones, and the entry it
\* stops at belongs to the first block that it leaves.
LEMMA CoveredFacts ==
  ASSUME NEW r \in Seq(Entry), Ordered(r), NEW reach \in 0..Len(r)
  PROVE  LET gone == Cardinality(Covered(r, reach)) IN
         /\ gone \in 0..reach
         /\ reach = Len(r) => gone = Len(r)
         /\ reach < Len(r) => /\ gone < Len(r)
                              /\ r[gone + 1].block = r[reach + 1].block
                              /\ gone > 0 => r[gone].block < r[gone + 1].block
<1> DEFINE T == Covered(r, reach)
           gone == Cardinality(T)
<1>1. Len(r) \in Nat /\ reach \in Nat
  BY LenProperties
<1>2. \A i \in 1..Len(r) : r[i].block \in Nat
  BY EntryFields
<1>3. T \in SUBSET (1..Len(r)) /\ T \in SUBSET (1..reach)
  BY <1>1 DEF Covered
<1>4. ASSUME NEW i \in T, NEW k \in 1..Len(r), k <= i PROVE k \in T
  <2>1. i \in 1..Len(r) /\ i <= reach /\ r[k].block <= r[i].block
    BY <1>3, <1>4 DEF Ordered, Covered
  <2>2. ASSUME reach < Len(r) PROVE r[k].block # r[reach + 1].block
    <3>1. reach + 1 \in 1..Len(r) /\ i <= reach + 1
      BY <1>1, <2>1, <2>2
    <3>2. r[i].block <= r[reach + 1].block /\ r[i].block # r[reach + 1].block
      BY <2>1, <2>2, <3>1 DEF Ordered, Covered
    <3> QED
      BY <1>2, <2>1, <3>1, <3>2
  <2> QED
    BY <1>4, <2>1, <2>2, <1>1 DEF Covered
<1>5. gone \in 0..Len(r) /\ T = 1..gone
  BY <1>1, <1>3, <1>4, PrefixCount
<1>6. gone \in 0..reach
  BY <1>1, <1>3, CountType
<1>7. ASSUME reach = Len(r) PROVE gone = Len(r)
  <2>1. \A i \in 1..Len(r) : i \in T
    BY <1>1, <1>7 DEF Covered
  <2>2. T = 1..Len(r)
    BY <1>3, <2>1
  <2>3. \A n \in Nat : Cardinality(1..n) = n
    BY FS_Interval
  <2> QED
    BY <1>1, <2>2, <2>3
<1>8. ASSUME reach < Len(r)
      PROVE  /\ gone < Len(r)
             /\ r[gone + 1].block = r[reach + 1].block
             /\ gone > 0 => r[gone].block < r[gone + 1].block
  <2>1. gone < Len(r) /\ gone + 1 \in 1..Len(r) /\ reach + 1 \in 1..Len(r)
    BY <1>1, <1>6, <1>8
  <2>2. gone + 1 \notin T
    BY <1>5, <1>6
  <2>3. r[gone + 1].block = r[reach + 1].block
    <3>1. CASE gone = reach
      BY <3>1
    <3>2. CASE gone + 1 <= reach
      BY <1>8, <2>1, <2>2, <3>2 DEF Covered
    <3> QED
      BY <1>1, <1>6, <3>1, <3>2
  <2>4. ASSUME gone > 0 PROVE r[gone].block < r[gone + 1].block
    <3>1. gone \in T /\ gone \in 1..Len(r) /\ gone <= reach + 1
      BY <1>1, <1>5, <1>6, <2>1, <2>4
    <3>2. r[gone].block # r[reach + 1].block
      BY <3>1, <1>8 DEF Covered
    <3>3. r[gone].block <= r[reach + 1].block
      BY <3>1, <2>1 DEF Ordered
    <3> QED
      BY <1>2, <2>1, <2>3, <3>1, <3>2, <3>3
  <2> QED
    BY <2>1, <2>3, <2>4
<1> QED
  BY <1>6, <1>7, <1>8

\* A list cut between two blocks occupies what its parts occupy.
LEMMA BlocksSplit ==
  ASSUME NEW r \in Seq(Entry), Ordered(r), NEW gone \in 0..Len(r),
         gone > 0 /\ gone < Len(r) => r[gone].block < r[gone + 1].block
  PROVE  /\ Cardinality(Blocks(r, gone)) \in Nat
         /\ Cardinality(Blocks(Drop(r, gone), Len(r) - gone)) \in Nat
         /\ Cardinality(Blocks(r, Len(r))) =
              Cardinality(Blocks(r, gone)) + Cardinality(Blocks(Drop(r, gone), Len(r) - gone))
<1> DEFINE d == Drop(r, gone)
           F == Blocks(r, gone)
           L == Blocks(d, Len(r) - gone)
<1>1. Len(r) \in Nat /\ gone \in Nat /\ Len(r) - gone \in Nat
  BY LenProperties
<1>2. \A i \in 1..Len(r) : r[i].block \in Nat
  BY EntryFields
<1>3. \A i \in 1..(Len(r) - gone) : d[i] = r[gone + i]
  BY DropFacts
<1> HIDE DEF d
<1>4. /\ IsFiniteSet(F) /\ Cardinality(F) \in Nat
      /\ IsFiniteSet(L) /\ Cardinality(L) \in Nat
  BY <1>1, BlocksFinite
<1>5. Blocks(r, Len(r)) = F \cup L
  <2>1. ASSUME NEW i \in 1..Len(r) PROVE r[i].block \in F \cup L
    <3>1. CASE i <= gone
      BY <1>1, <3>1 DEF Blocks
    <3>2. CASE ~ (i <= gone)
      <4>1. i - gone \in 1..(Len(r) - gone) /\ gone + (i - gone) = i
        BY <1>1, <3>2, SMTT(30)
      <4>2. d[i - gone] = r[i]
        BY <1>3, <4>1
      <4> QED
        BY <4>1, <4>2 DEF Blocks
    <3> QED
      BY <3>1, <3>2
  <2>2. ASSUME NEW i \in 1..gone PROVE r[i].block \in Blocks(r, Len(r))
    <3>1. i \in 1..Len(r)
      BY <1>1
    <3> QED
      BY <3>1 DEF Blocks
  <2>3. ASSUME NEW i \in 1..(Len(r) - gone) PROVE d[i].block \in Blocks(r, Len(r))
    <3>1. gone + i \in 1..Len(r)
      BY <1>1
    <3> QED
      BY <1>3, <3>1 DEF Blocks
  <2> QED
    BY <2>1, <2>2, <2>3 DEF Blocks
<1>6. F \cap L = {}
  <2> SUFFICES ASSUME NEW i \in 1..gone, NEW k \in 1..(Len(r) - gone), r[i].block = d[k].block
               PROVE  FALSE
    BY DEF Blocks
  <2>1. /\ i \in 1..Len(r) /\ gone \in 1..Len(r) /\ gone + 1 \in 1..Len(r)
        /\ gone + k \in 1..Len(r) /\ i <= gone /\ gone + 1 <= gone + k
        /\ gone > 0 /\ gone < Len(r)
    BY <1>1
  <2>2. r[i].block <= r[gone].block /\ r[gone + 1].block <= r[gone + k].block
    BY <2>1 DEF Ordered
  <2>3. r[gone].block < r[gone + 1].block /\ r[i].block = r[gone + k].block
    BY <2>1, <1>3
  <2> QED
    BY <1>2, <2>1, <2>2, <2>3
<1>7. Cardinality(F \cup L) = Cardinality(F) + Cardinality(L) - Cardinality(F \cap L)
  BY <1>4, FS_Union
<1>8. Cardinality(F \cap L) = 0
  BY <1>6, FS_EmptySet
<1> HIDE DEF F, L
<1>9. Cardinality(F \cup L) = Cardinality(F) + Cardinality(L)
  BY <1>4, <1>7, <1>8
<1> QED
  BY <1>4, <1>5, <1>9 DEF F, L, d

\* p is what o leaves when its first n units are gone.
Leaves(o, n, p, top) ==
  /\ p \in OutType /\ OutOK(p, top)
  /\ Left(p) = Left(o) - n
  /\ \A j \in 1..Left(p) : UnitAt(p, j) = UnitAt(o, j + n)

\* Accounting within the static buffer.
LEMMA BufferAck ==
  ASSUME NEW o \in OutType, NEW top, OutOK(o, top), NEW n \in 1..InBuf(o), n < InBuf(o)
  PROVE  Leaves(o, n, [o EXCEPT !.sentlen = @ + n], top)
<1> DEFINE p == [o EXCEPT !.sentlen = @ + n]
<1>1. /\ o.buf \in Seq(Nat) /\ o.sentlen \in Nat /\ o.reply \in Seq(Entry)
      /\ Len(o.buf) \in Nat /\ Len(o.reply) \in Nat
      /\ InBuf(o) \in Nat /\ HeadOffset(o) \in 0..Len(o.reply) /\ Left(o) \in Nat
      /\ o.buf = <<>> => InBuf(o) = 0
      /\ o.buf # <<>> => InBuf(o) = Len(o.buf) - o.sentlen /\ HeadOffset(o) = 0
  BY OutParts
<1>2. o.buf # <<>> /\ n \in Nat
  BY <1>1
<1>3. /\ p \in OutType /\ p.buf = o.buf /\ p.reply = o.reply /\ p.bytes = o.bytes
      /\ p.sentlen = o.sentlen + n
  <2>1. o.sentlen + n \in Nat
    BY <1>1, <1>2
  <2> QED
    BY <2>1 DEF OutType
<1> HIDE DEF p
<1>4. InBuf(p) = InBuf(o) - n /\ HeadOffset(p) = 0
  BY <1>1, <1>2, <1>3 DEF InBuf, HeadOffset
<1>5. OutOK(p, top)
  <2>1. p.sentlen < Len(p.buf)
    BY <1>1, <1>2, <1>3
  <2>2. HasPending(p)
    BY <1>2, <1>3 DEF HasPending
  <2> QED
    BY <1>2, <1>3, <2>1, <2>2 DEF OutOK
<1>6. Left(p) = Left(o) - n
  <2>1. Left(p) = InBuf(o) - n + Len(o.reply) - 0 /\ Left(o) = InBuf(o) + Len(o.reply) - 0
    BY <1>1, <1>2, <1>3, <1>4 DEF Left
  <2> QED
    BY <1>1, <1>2, <2>1, SMTT(30)
<1>7. ASSUME NEW j \in 1..Left(p) PROVE UnitAt(p, j) = UnitAt(o, j + n)
  <2>1. j \in Nat /\ InBuf(o) \in Nat /\ n \in Nat
    BY <1>1, <1>2, <1>6
  <2>2. j <= InBuf(p) <=> j + n <= InBuf(o)
    BY <1>4, <2>1
  <2>3. p.sentlen + j = o.sentlen + (j + n)
    BY <1>1, <1>2, <1>3, <2>1
  <2>4. Place(p, j) = Place(o, j + n)
    BY <1>1, <1>2, <1>4, <2>1 DEF Place
  <2> QED
    BY <1>3, <2>2, <2>3, <2>4 DEF UnitAt
<1> QED
  BY <1>3, <1>5, <1>6, <1>7 DEF Leaves, p

\* What handle_writev_callback() leaves once the static buffer is sent and the reply
\* list up to entry reach.
Rest(o, reach) ==
  LET gone == Cardinality(Covered(o.reply, reach)) IN
  [buf |-> <<>>, sentlen |-> reach - gone, reply |-> Drop(o.reply, gone),
   bytes |-> o.bytes - BlockCap * Cardinality(Blocks(o.reply, gone))]

\* Accounting beyond it.
LEMMA ListAck ==
  ASSUME NEW o \in OutType, NEW top, OutOK(o, top), NEW n \in InBuf(o)..Left(o)
  PROVE  Leaves(o, n, Rest(o, HeadOffset(o) + n - InBuf(o)), top)
<1> DEFINE reach == HeadOffset(o) + n - InBuf(o)
           r == o.reply
           gone == Cardinality(Covered(r, reach))
           p == Rest(o, reach)
<1>1. /\ r \in Seq(Entry) /\ Len(r) \in Nat /\ o.bytes \in Int
      /\ InBuf(o) \in Nat /\ HeadOffset(o) \in 0..Len(r) /\ Left(o) \in Nat
      /\ Left(o) = InBuf(o) + Len(r) - HeadOffset(o)
  BY OutParts DEF Left
<1>2. n \in Nat /\ reach \in 0..Len(r) /\ reach = HeadOffset(o) + n - InBuf(o)
      /\ Len(r) - reach = Left(o) - n
  BY <1>1, SMTT(30)
<1> HIDE DEF reach
<1>3. /\ Ordered(r) /\ \A i \in 1..Len(r) : r[i].block <= top
      /\ o.bytes = BlockCap * Cardinality(Blocks(r, Len(r)))
  BY DEF OutOK
<1>4. /\ gone \in 0..reach
      /\ reach = Len(r) => gone = Len(r)
      /\ reach < Len(r) => /\ gone < Len(r)
                           /\ r[gone + 1].block = r[reach + 1].block
                           /\ gone > 0 => r[gone].block < r[gone + 1].block
  BY <1>1, <1>2, <1>3, CoveredFacts
<1>5. p = [buf |-> <<>>, sentlen |-> reach - gone, reply |-> Drop(r, gone),
           bytes |-> o.bytes - BlockCap * Cardinality(Blocks(r, gone))]
  BY DEF Rest
<1> HIDE DEF gone, p
<1>6. /\ reach \in Nat /\ gone \in Nat /\ Len(r) \in Nat /\ gone \in 0..Len(r)
      /\ reach - gone \in Nat /\ gone <= reach /\ reach <= Len(r)
  <2>1. Len(r) \in Nat /\ reach \in 0..Len(r) /\ gone \in 0..reach
    BY <1>1, <1>2, <1>4
  <2> QED
    BY <2>1
<1>7. /\ Drop(r, gone) \in Seq(Entry) /\ Len(Drop(r, gone)) = Len(r) - gone
      /\ \A i \in 1..(Len(r) - gone) : Drop(r, gone)[i] = r[gone + i]
  BY <1>1, <1>6, DropFacts
<1>8. /\ p.buf = <<>> /\ p.sentlen = reach - gone /\ p.reply = Drop(r, gone)
      /\ p.bytes = o.bytes - BlockCap * Cardinality(Blocks(r, gone))
  BY <1>5
<1>9. /\ Cardinality(Blocks(r, gone)) \in Nat
      /\ Cardinality(Blocks(Drop(r, gone), Len(r) - gone)) \in Nat
      /\ Cardinality(Blocks(r, Len(r))) =
           Cardinality(Blocks(r, gone)) + Cardinality(Blocks(Drop(r, gone), Len(r) - gone))
  <2>1. ASSUME gone > 0, gone < Len(r) PROVE r[gone].block < r[gone + 1].block
    <3>1. reach < Len(r)
      BY <1>4, <1>6, <2>1
    <3> QED
      BY <1>4, <2>1, <3>1
  <2> QED
    BY <1>1, <1>3, <1>6, <2>1, BlocksSplit
<1>10. p.bytes = BlockCap * Cardinality(Blocks(p.reply, Len(p.reply)))
  <2> DEFINE c == Cardinality(Blocks(r, gone))
             d == Cardinality(Blocks(Drop(r, gone), Len(r) - gone))
  <2>1. p.bytes = BlockCap * (c + d) - BlockCap * c
    BY <1>3, <1>8, <1>9
  <2>2. Cardinality(Blocks(p.reply, Len(p.reply))) = d
    BY <1>7, <1>8
  <2>3. c \in Nat /\ d \in Nat /\ BlockCap \in Nat
    BY <1>9, ConstantsAssumption
  <2> HIDE DEF c, d
  <2>4. p.bytes = BlockCap * d
    BY <2>1, <2>3
  <2> QED
    BY <2>2, <2>4
<1>11. p \in OutType
  <2>1. p.bytes \in Int
    BY <1>1, <1>8, <1>9, ConstantsAssumption
  <2>2. o.bytes - BlockCap * Cardinality(Blocks(r, gone)) \in Int
    BY <2>1, <1>8
  <2> QED
    BY <1>5, <1>6, <1>7, <2>2, EmptySeq DEF OutType
<1>12. p.reply = <<>> <=> gone = Len(r)
  <2>1. p.reply \in Seq(Entry) /\ Len(p.reply) = Len(r) - gone
    BY <1>7, <1>8
  <2>2. p.reply = <<>> <=> Len(p.reply) = 0
    BY <2>1, EmptySeq
  <2>3. Len(r) - gone = 0 <=> gone = Len(r)
    BY <1>6
  <2> QED
    BY <2>1, <2>2, <2>3
<1>13. OutOK(p, top)
  <2>1. Ordered(p.reply)
    <3> SUFFICES ASSUME NEW i \in 1..(Len(r) - gone), NEW k \in 1..(Len(r) - gone), i <= k
                 PROVE  Drop(r, gone)[i].block <= Drop(r, gone)[k].block
      BY <1>7, <1>8 DEF Ordered
    <3>1. gone + i \in 1..Len(r) /\ gone + k \in 1..Len(r) /\ gone + i <= gone + k
      BY <1>1, <1>6
    <3>2. r[gone + i].block <= r[gone + k].block
      BY <1>3, <3>1 DEF Ordered
    <3> QED
      BY <1>7, <3>2
  <2>2. \A i \in 1..Len(p.reply) : p.reply[i].block <= top
    <3> SUFFICES ASSUME NEW i \in 1..(Len(r) - gone) PROVE Drop(r, gone)[i].block <= top
      BY <1>7, <1>8
    <3>1. gone + i \in 1..Len(r)
      BY <1>1, <1>6
    <3> QED
      BY <1>3, <1>7, <3>1
  <2>3. ASSUME p.reply # <<>>
        PROVE  /\ p.sentlen < Len(p.reply)
               /\ p.reply[p.sentlen + 1].block = p.reply[1].block
    <3>1. gone < Len(r) /\ reach < Len(r) /\ r[gone + 1].block = r[reach + 1].block
      <4>1. gone # Len(r)
        BY <1>12, <2>3
      <4>2. reach # Len(r)
        BY <1>4, <4>1
      <4>3. reach < Len(r)
        BY <1>6, <4>2
      <4> QED
        BY <1>4, <4>3
    <3>2. /\ reach - gone + 1 \in 1..(Len(r) - gone) /\ 1 \in 1..(Len(r) - gone)
          /\ gone + (reach - gone + 1) = reach + 1
          /\ reach - gone < Len(r) - gone
      <4>1. gone \in Nat /\ reach \in Nat /\ Len(r) \in Nat /\ gone <= reach /\ reach < Len(r)
        BY <1>6, <3>1
      <4> QED
        BY <4>1
    <3> QED
      BY <1>7, <1>8, <3>1, <3>2
  <2>4. ASSUME ~HasPending(p) PROVE p.sentlen = 0
    <3>1. gone = Len(r)
      BY <1>8, <1>12, <2>4 DEF HasPending
    <3> QED
      BY <1>1, <1>2, <1>6, <1>8, <3>1
  <2> QED
    BY <1>8, <1>10, <2>1, <2>2, <2>3, <2>4 DEF OutOK
<1>14. InBuf(p) = 0 /\ HeadOffset(p) = reach - gone
  BY <1>8 DEF InBuf, HeadOffset
<1>15. Left(p) = Left(o) - n
  <2>1. Left(p) = 0 + (Len(r) - gone) - (reach - gone)
    BY <1>7, <1>8, <1>14 DEF Left
  <2> QED
    BY <1>1, <1>2, <1>6, <2>1
<1>16. ASSUME NEW j \in 1..Left(p) PROVE UnitAt(p, j) = UnitAt(o, j + n)
  <2>1. j \in Nat /\ 1 <= j /\ j <= Len(r) - reach
    BY <1>1, <1>2, <1>15
  <2>2. /\ ~ (j <= InBuf(p)) /\ ~ (j + n <= InBuf(o))
    BY <1>1, <1>14, <2>1
  <2>3. Place(o, j + n) = reach + j
    BY <1>1, <1>2, <2>1 DEF Place
  <2>4. Place(p, j) = reach - gone + j
    BY <1>6, <1>14, <2>1 DEF Place
  <2>5. reach - gone + j \in 1..(Len(r) - gone) /\ gone + (reach - gone + j) = reach + j
    BY <1>1, <1>6, <2>1
  <2>6. p.reply[reach - gone + j] = r[reach + j]
    BY <1>7, <1>8, <2>5
  <2> QED
    BY <2>2, <2>3, <2>4, <2>6 DEF UnitAt
<1> QED
  BY <1>11, <1>13, <1>15, <1>16 DEF Leaves, p, reach

\* Accounting for nothing.
LEMMA NoAck ==
  ASSUME NEW o \in OutType, NEW top, OutOK(o, top)
  PROVE  Leaves(o, 0, o, top)
<1>1. Left(o) \in Nat
  BY OutParts
<1>2. \A j \in 1..Left(o) : j + 0 = j
  BY <1>1
<1> QED
  BY <1>1, <1>2 DEF Leaves

\* Either accounting of a completion leaves the output buffers in order, without
\* exactly the units it reported.
LEMMA AckFacts ==
  ASSUME NEW o \in OutType, NEW top, OutOK(o, top), NEW kind, NEW n \in 0..Left(o),
         kind = "write" => n <= InBuf(o)
  PROVE  Leaves(o, n, Ack(kind, o, n), top)
<1> DEFINE reach == HeadOffset(o) + n - InBuf(o)
<1>1. /\ o.buf \in Seq(Nat) /\ o.sentlen \in Nat /\ o.reply \in Seq(Entry) /\ o.bytes \in Int
      /\ Len(o.buf) \in Nat /\ Len(o.reply) \in Nat
      /\ InBuf(o) \in Nat /\ HeadOffset(o) \in 0..Len(o.reply) /\ Left(o) \in Nat
      /\ o.buf # <<>> => InBuf(o) > 0 /\ HeadOffset(o) = 0 /\ InBuf(o) = Len(o.buf) - o.sentlen
      /\ o.buf = <<>> => InBuf(o) = 0
  BY OutParts
<1>2. n \in Nat
  BY <1>1
<1>3. CASE n = 0
  BY <1>3, NoAck DEF Ack
<1>4. CASE n # 0 /\ n < InBuf(o)
  <2>1. n \in 1..InBuf(o) /\ o.buf # <<>> /\ o.sentlen + n # Len(o.buf)
    BY <1>1, <1>2, <1>4
  <2>2. Ack(kind, o, n) = [o EXCEPT !.sentlen = @ + n]
    BY <1>4, <2>1 DEF Ack, AckWrite, AckWritev, InBuf
  <2> QED
    BY <1>4, <2>1, <2>2, BufferAck
<1>5. CASE n # 0 /\ ~ (n < InBuf(o))
  <2>1. n \in InBuf(o)..Left(o)
    BY <1>1, <1>2, <1>5
  <2>2. Leaves(o, n, Rest(o, reach), top)
    BY <2>1, ListAck
  <2>3. CASE kind # "write"
    <3>1. AckWritev(o, n) = Rest(o, reach)
      BY <1>5 DEF AckWritev, Rest, InBuf
    <3> QED
      BY <1>5, <2>2, <2>3, <3>1 DEF Ack
  <2>4. CASE kind = "write"
    <3>1. n = InBuf(o) /\ o.buf # <<>> /\ o.sentlen + n = Len(o.buf)
      BY <1>1, <1>2, <1>5, <2>4
    <3>2. Ack(kind, o, n) = [o EXCEPT !.buf = <<>>, !.sentlen = 0]
      BY <1>5, <2>4, <3>1 DEF Ack, AckWrite
    <3>3. reach = 0
      BY <1>1, <3>1
    <3>4. Covered(o.reply, 0) = {}
      BY <1>1 DEF Covered
    <3>5. Cardinality(Covered(o.reply, 0)) = 0
      BY <3>4, FS_EmptySet
    <3>6. Drop(o.reply, 0) = o.reply
      BY <1>1, SubSeqFull DEF Drop
    <3>7. Blocks(o.reply, 0) = {}
      BY DEF Blocks
    <3>8. o.bytes - BlockCap * Cardinality(Blocks(o.reply, 0)) = o.bytes
      <4>1. Cardinality(Blocks(o.reply, 0)) = 0
        BY <3>7, FS_EmptySet
      <4>2. BlockCap \in Nat /\ o.bytes \in Int
        BY <1>1, ConstantsAssumption
      <4>3. o.bytes - BlockCap * 0 = o.bytes
        BY <4>2
      <4> QED
        BY <4>1, <4>3
    <3>9. Rest(o, 0) = [buf |-> <<>>, sentlen |-> 0, reply |-> o.reply, bytes |-> o.bytes]
      BY <3>5, <3>6, <3>8 DEF Rest
    <3>10. [o EXCEPT !.buf = <<>>, !.sentlen = 0] =
             [buf |-> <<>>, sentlen |-> 0, reply |-> o.reply, bytes |-> o.bytes]
      <4> DEFINE e == [o EXCEPT !.buf = <<>>, !.sentlen = 0]
      <4>1. <<>> \in Seq(Nat)
        BY EmptySeq
      <4>2. /\ e \in OutType /\ e.buf = <<>> /\ e.sentlen = 0
            /\ e.reply = o.reply /\ e.bytes = o.bytes
        BY <4>1 DEF OutType
      <4> HIDE DEF e
      <4>3. e = [buf |-> e.buf, sentlen |-> e.sentlen, reply |-> e.reply, bytes |-> e.bytes]
        BY <4>2 DEF OutType
      <4> QED
        BY <4>2, <4>3 DEF e
    <3> QED
      BY <2>2, <3>2, <3>3, <3>9, <3>10
  <2> QED
    BY <2>3, <2>4
<1> QED
  BY <1>3, <1>4, <1>5

\* What is unsent after n units are gone.
LEMMA UnsentAfter ==
  ASSUME NEW o \in OutType, NEW top, OutOK(o, top), NEW n \in 0..Left(o),
         NEW p, Leaves(o, n, p, top)
  PROVE  Unsent(p) = Drop(Unsent(o), n)
<1>1. /\ Unsent(o) \in Seq(Nat) /\ Len(Unsent(o)) = Left(o) /\ Left(o) \in Nat
      /\ \A j \in 1..Left(o) : Unsent(o)[j] = UnitAt(o, j)
  BY UnsentFacts, OutParts
<1>2. p \in OutType /\ OutOK(p, top) /\ Left(p) = Left(o) - n
      /\ \A j \in 1..Left(p) : UnitAt(p, j) = UnitAt(o, j + n)
  BY DEF Leaves
<1>3. /\ Unsent(p) \in Seq(Nat) /\ Len(Unsent(p)) = Left(p)
      /\ \A j \in 1..Left(p) : Unsent(p)[j] = UnitAt(p, j)
  BY <1>2, UnsentFacts
<1>4. n \in 0..Len(Unsent(o))
  BY <1>1
<1>5. /\ Drop(Unsent(o), n) \in Seq(Nat) /\ Len(Drop(Unsent(o), n)) = Len(Unsent(o)) - n
      /\ \A j \in 1..(Len(Unsent(o)) - n) : Drop(Unsent(o), n)[j] = Unsent(o)[n + j]
  BY <1>1, <1>4, DropFacts
<1>6. ASSUME NEW j \in 1..Left(p) PROVE Unsent(p)[j] = Drop(Unsent(o), n)[j]
  <2>1. j \in 1..(Left(o) - n) /\ n + j \in 1..Left(o) /\ n + j = j + n
    BY <1>1, <1>2
  <2>2. Drop(Unsent(o), n)[j] = UnitAt(o, n + j)
    BY <1>1, <1>5, <2>1
  <2>3. Unsent(p)[j] = UnitAt(o, j + n)
    BY <1>2, <1>3
  <2> QED
    BY <2>1, <2>2, <2>3
<1>7. Len(Unsent(p)) = Len(Drop(Unsent(o), n))
  BY <1>1, <1>2, <1>3, <1>5
<1> QED
  BY <1>3, <1>5, <1>6, <1>7, SeqEqual

-----------------------------------------------------------------------------
(* Addresses. *)

\* The first block of the list always fits in a writev.
LEMMA HeadBlockFits ==
  ASSUME NEW o \in OutType, NEW top, OutOK(o, top)
  PROVE  /\ IovEntries(o) \in 0..Len(o.reply)
         /\ o.buf = <<>> /\ o.reply # <<>> => HeadOffset(o) < IovEntries(o)
<1> DEFINE iovecs == IF o.buf # <<>> THEN IovMax - 1 ELSE IovMax
           T == {i \in 1..Len(o.reply) : Cardinality(Blocks(o.reply, i)) <= iovecs}
<1>1. o.reply \in Seq(Entry) /\ Len(o.reply) \in Nat /\ o.sentlen \in Nat
  BY OutParts
<1>2. IovEntries(o) = Cardinality(T) /\ T \in SUBSET (1..Len(o.reply))
  BY DEF IovEntries
<1>3. IovEntries(o) \in 0..Len(o.reply)
  BY <1>1, <1>2, CountType
<1>4. ASSUME o.buf = <<>>, o.reply # <<>> PROVE HeadOffset(o) < IovEntries(o)
  <2> DEFINE h == o.sentlen + 1
  <2>1. /\ HeadOffset(o) = o.sentlen /\ o.sentlen < Len(o.reply)
        /\ o.reply[o.sentlen + 1].block = o.reply[1].block /\ Ordered(o.reply)
    BY <1>4 DEF OutOK, HeadOffset
  <2>2. h \in 1..Len(o.reply) /\ 1 \in 1..Len(o.reply)
    BY <1>1, <2>1
  <2>3. \A i \in 1..Len(o.reply) : o.reply[i].block \in Nat
    BY <1>1, EntryFields
  <2>4. ASSUME NEW i \in 1..h PROVE i \in T
    <3>1. ASSUME NEW k \in 1..i PROVE o.reply[k].block = o.reply[1].block
      <4>1. k \in 1..Len(o.reply) /\ 1 <= k /\ k <= h
        BY <1>1, <2>2
      <4>2. o.reply[1].block <= o.reply[k].block /\ o.reply[k].block <= o.reply[h].block
        BY <2>1, <2>2, <4>1 DEF Ordered
      <4> QED
        BY <2>1, <2>2, <2>3, <4>1, <4>2
    <3>2. Blocks(o.reply, i) = {o.reply[1].block}
      <4>1. 1 \in 1..i
        BY <2>2
      <4> QED
        BY <3>1, <4>1 DEF Blocks
    <3>3. Cardinality(Blocks(o.reply, i)) = 1
      BY <3>2, FS_Singleton
    <3>4. 1 <= iovecs /\ i \in 1..Len(o.reply)
      BY <1>1, <2>2, ConstantsAssumption
    <3> QED
      BY <3>3, <3>4
  <2>5. IsFiniteSet(T) /\ Cardinality(T) \in Nat
    <3>1. IsFiniteSet(1..Len(o.reply))
      BY <1>1, FS_Interval
    <3>2. IsFiniteSet(T)
      BY <1>2, <3>1, FS_Subset
    <3> QED
      BY <3>2, FS_CardinalityType
  <2>6. 1..h \in SUBSET T
    BY <2>4
  <2>7. Cardinality(1..h) = h
    <3>1. \A n \in Nat : Cardinality(1..n) = n
      BY FS_Interval
    <3> QED
      BY <1>1, <3>1
  <2> HIDE DEF T
  <2>8. h <= Cardinality(T)
    <3>1. Cardinality(1..h) <= Cardinality(T)
      BY <2>5, <2>6, FS_Subset
    <3> QED
      BY <2>7, <3>1
  <2> QED
    BY <1>1, <1>2, <2>1, <2>5, <2>8
<1> QED
  BY <1>3, <1>4

\* The iovecs of a submission cover a non-empty part of the unsent units, from the
\* first on; without a list, only the static buffer.
LEMMA IovFacts ==
  ASSUME NEW o \in OutType, NEW top, OutOK(o, top), HasPending(o), bufcap \in BufCaps
  PROVE  /\ Len(IovCells(o)) \in 1..Left(o)
         /\ \A j \in 1..Len(IovCells(o)) : IovCells(o)[j] = CellAt(o, bufcap, j)
         /\ o.reply = <<>> => Len(IovCells(o)) <= InBuf(o)
<1> DEFINE head == HeadOffset(o)
           e == IovEntries(o)
           b == BufCells(o)
           l == ListCells(o.reply, e)
           rest == Len(o.reply)
<1>1. /\ o.buf \in Seq(Nat) /\ o.sentlen \in Nat /\ o.reply \in Seq(Entry)
      /\ Len(o.buf) \in Nat /\ rest \in Nat
      /\ o.buf = <<>> <=> Len(o.buf) = 0
      /\ o.reply = <<>> <=> rest = 0
      /\ InBuf(o) \in Nat /\ head \in 0..rest /\ Left(o) \in Nat
      /\ o.buf # <<>> => InBuf(o) > 0 /\ head = 0 /\ InBuf(o) = Len(o.buf) - o.sentlen
      /\ o.buf = <<>> => InBuf(o) = 0
      /\ Left(o) > 0
  BY OutParts
<1>2. bufcap \in Nat
  BY ConstantsAssumption
<1>3. b \in Seq(Cell) /\ Len(b) = InBuf(o) /\ \A i \in 1..InBuf(o) : b[i] = <<"buf", bufcap, o.sentlen + i>>
  <2> DEFINE n == InBuf(o)
             s == o.sentlen
  <2>1. 1..(Len(o.buf) - s) = 1..n /\ n \in Nat /\ s \in Nat
    BY <1>1
  <2>2. b = [i \in 1..n |-> <<"buf", bufcap, s + i>>]
    BY <2>1 DEF BufCells
  <2> HIDE DEF n, s
  <2>3. \A i \in 1..n : <<"buf", bufcap, s + i>> \in Cell
    BY <1>2, <2>1, SMTT(30) DEF Cell
  <2>4. [i \in 1..n |-> <<"buf", bufcap, s + i>>] \in Seq(Cell)
    <3>1. [i \in 1..n |-> <<"buf", bufcap, s + i>>] \in [1..n -> Cell]
      BY <2>3
    <3> QED
      BY <2>1, <3>1, SeqDef
  <2>5. DOMAIN b = 1..n /\ b \in Seq(Cell)
    BY <2>2, <2>4
  <2>6. Len(b) = n
    BY <2>1, <2>5, LenProperties
  <2> QED
    BY <2>2, <2>5, <2>6 DEF n, s
<1>4. e \in 0..rest /\ (o.buf = <<>> => head < e)
  <2>1. e \in 0..rest /\ (o.buf = <<>> /\ o.reply # <<>> => head < e)
    BY HeadBlockFits
  <2>2. o.buf = <<>> => o.reply # <<>>
    BY DEF HasPending
  <2> QED
    BY <2>1, <2>2
<1> HIDE DEF head, e, b
<1>5. head \in Nat /\ e \in Nat /\ rest \in Nat /\ head <= e /\ e <= rest /\ head \in 0..e
  <2>1. o.buf # <<>> => head = 0
    BY <1>1
  <2>2. head \in Nat /\ rest \in Nat /\ e \in 0..rest
    BY <1>1, <1>4
  <2> QED
    BY <1>4, <2>1, <2>2
<1>6. l \in Seq(Cell) /\ Len(l) = e /\ \A i \in 1..e : l[i] = <<"block", o.reply[i].block, o.reply[i].unit>>
  <2>1. ASSUME NEW i \in 1..e PROVE <<"block", o.reply[i].block, o.reply[i].unit>> \in Cell
    <3>1. i \in 1..Len(o.reply)
      BY <1>5
    <3>2. o.reply[i].unit \in Nat /\ o.reply[i].block \in Nat
      BY <1>1, <3>1, EntryFields
    <3> QED
      BY <3>2 DEF Cell
  <2>2. l = [i \in 1..e |-> <<"block", o.reply[i].block, o.reply[i].unit>>]
    BY DEF ListCells
  <2>3. l \in Seq(Cell)
    BY <1>5, <2>1, <2>2, IsASeq
  <2>4. DOMAIN l = 1..e
    BY <2>2
  <2>5. Len(l) = e
    BY <1>5, <2>3, <2>4, LenProperties
  <2> QED
    BY <2>2, <2>3, <2>5
<1> DEFINE d == Drop(l, head)
<1> HIDE DEF l
<1>7. /\ d \in Seq(Cell) /\ Len(d) = e - head
      /\ \A i \in 1..(e - head) : d[i] = l[head + i]
  <2>1. l \in Seq(Cell) /\ Len(l) = e /\ head \in 0..Len(l)
    BY <1>5, <1>6
  <2>2. /\ d \in Seq(Cell) /\ Len(d) = Len(l) - head
        /\ \A i \in 1..(Len(l) - head) : d[i] = l[head + i]
    BY <2>1, DropFacts
  <2> QED
    BY <2>1, <2>2
<1> HIDE DEF d
<1>8. IovCells(o) = b \o d
  BY DEF IovCells, b, d, l, e, head
<1>9. /\ Len(IovCells(o)) = Len(b) + Len(d)
      /\ \A i \in 1..(Len(b) + Len(d)) :
           IovCells(o)[i] = IF i <= Len(b) THEN b[i] ELSE d[i - Len(b)]
  <2>1. b \in Seq(Cell) /\ d \in Seq(Cell)
    BY <1>3, <1>7
  <2>2. /\ Len(b \o d) = Len(b) + Len(d)
        /\ \A i \in 1..(Len(b) + Len(d)) :
             (b \o d)[i] = IF i <= Len(b) THEN b[i] ELSE d[i - Len(b)]
    BY <2>1, ConcatProperties
  <2> QED
    BY <1>8, <2>2
<1>10. /\ Len(b) = InBuf(o) /\ Len(d) = e - head /\ InBuf(o) \in Nat
       /\ Left(o) = InBuf(o) + rest - head
  BY <1>1, <1>3, <1>7 DEF Left, head
<1>11. Len(IovCells(o)) = InBuf(o) + (e - head)
  BY <1>9, <1>10
<1>12. Len(IovCells(o)) \in 1..Left(o)
  <2>1. InBuf(o) > 0 \/ head < e
    BY <1>1, <1>4
  <2> HIDE DEF rest
  <2> QED
    BY <1>5, <1>10, <1>11, <2>1
<1>13. o.reply = <<>> => Len(IovCells(o)) <= InBuf(o)
  <2>1. o.reply = <<>> => rest = 0
    BY <1>1
  <2> HIDE DEF rest
  <2> QED
    BY <1>5, <1>10, <1>11, <2>1
<1>14. ASSUME NEW j \in 1..Len(IovCells(o)) PROVE IovCells(o)[j] = CellAt(o, bufcap, j)
  <2>0. j \in Nat /\ 1 <= j /\ j <= InBuf(o) + (e - head)
    BY <1>5, <1>10, <1>11
  <2>1. CASE j <= InBuf(o)
    <3>1. IovCells(o)[j] = b[j] /\ j \in 1..InBuf(o)
      BY <1>9, <1>10, <1>11, <2>0, <2>1
    <3> QED
      BY <1>3, <2>1, <3>1 DEF CellAt
  <2>2. CASE ~ (j <= InBuf(o))
    <3> DEFINE k == j - InBuf(o)
    <3>1. k \in 1..(e - head) /\ head + k \in 1..e
      BY <1>5, <1>10, <2>0, <2>2, SMTT(30)
    <3>2. Place(o, j) = head + k
      BY <1>5, <1>10, <2>0 DEF Place, head
    <3>3. IovCells(o)[j] = d[k]
      BY <1>9, <1>10, <1>11, <2>0, <2>2
    <3> HIDE DEF k
    <3>4. d[k] = <<"block", o.reply[head + k].block, o.reply[head + k].unit>>
      BY <1>6, <1>7, <3>1
    <3> QED
      BY <2>2, <3>2, <3>3, <3>4 DEF CellAt
  <2> QED
    BY <2>1, <2>2
<1> QED
  BY <1>12, <1>13, <1>14

\* Every address of an unsent unit holds it.
LEMMA LoadFacts ==
  ASSUME Out \in OutType, OutOK(Out, produced), NEW j \in 1..Left(Out)
  PROVE  Load(CellAt(Out, bufcap, j)) = UnitAt(Out, j)
<1>1. /\ Out.buf = buf /\ Out.sentlen = sentlen /\ Out.reply = reply
  BY DEF Out
<1>2. /\ buf \in Seq(Nat) /\ sentlen \in Nat /\ reply \in Seq(Entry)
      /\ Len(buf) \in Nat /\ Len(reply) \in Nat
      /\ InBuf(Out) \in Nat /\ HeadOffset(Out) \in 0..Len(reply) /\ Left(Out) \in Nat
      /\ buf # <<>> => InBuf(Out) = Len(buf) - sentlen
      /\ buf = <<>> => InBuf(Out) = 0
  BY <1>1, OutParts
<1>3. CASE j <= InBuf(Out)
  <2>1. sentlen + j \in 1..Len(buf) /\ DOMAIN buf = 1..Len(buf)
    BY <1>2, <1>3, LenProperties
  <2> DEFINE c == <<"buf", bufcap, sentlen + j>>
  <2>2. CellAt(Out, bufcap, j) = c /\ UnitAt(Out, j) = buf[sentlen + j]
    BY <1>1, <1>3 DEF CellAt, UnitAt
  <2>3. c[1] = "buf" /\ c[2] = bufcap /\ c[3] = sentlen + j
    OBVIOUS
  <2> HIDE DEF c
  <2> QED
    BY <2>1, <2>2, <2>3 DEF Load
<1>4. CASE ~ (j <= InBuf(Out))
  <2> DEFINE k == Place(Out, j)
             c == <<"block", reply[k].block, reply[k].unit>>
  <2>1. k \in 1..Len(reply)
    <3>1. Left(Out) = InBuf(Out) + Len(reply) - HeadOffset(Out)
      BY <1>1 DEF Left
    <3> QED
      BY <1>2, <1>4, <3>1, SMTT(30) DEF Place
  <2> HIDE DEF k
  <2>2. DOMAIN reply = 1..Len(reply) /\ reply[k] \in Entry
    BY <1>2, <2>1, LenProperties, ElementOfSeq
  <2>3. reply[k] = [unit |-> reply[k].unit, block |-> reply[k].block]
    BY <2>2 DEF Entry
  <2>4. CellAt(Out, bufcap, j) = c /\ UnitAt(Out, j) = reply[k].unit
    BY <1>1, <1>4 DEF CellAt, UnitAt, k
  <2>5. c[1] = "block" /\ c[2] = reply[k].block /\ c[3] = reply[k].unit
    OBVIOUS
  <2> HIDE DEF c
  <2> QED
    BY <2>1, <2>2, <2>3, <2>4, <2>5 DEF Load
<1> QED
  BY <1>3, <1>4

-----------------------------------------------------------------------------
(* The steps of the program. *)

\* What the loop of writeToClient() and the end of a completion come to, from output
\* buffers o and an empty ring: the socket takes m units, and the ring takes the rest,
\* or nothing is left, or the rest stays.
Moves(o) ==
  \E m \in 0..Left(o), p \in OutType :
    /\ Leaves(o, m, p, produced)
    /\ SetOut(p)
    /\ wire' = wire \o SubSeq(Unsent(o), 1, m)
    /\ \/ /\ HasPending(p) /\ async' = TRUE /\ ring' = <<NewOp(p)>>
          /\ closing' = closing
       \/ /\ ~HasPending(p) /\ async' = FALSE /\ ring' = <<>>
          /\ closing' = CloseWhenDrained
       \/ /\ HasPending(p) /\ async' = FALSE /\ ring' = <<>>
          /\ closing' \in {closing, FreeAsync("aborted")}

\* Out after SetOut.
LEMMA OutAfter ==
  ASSUME NEW p \in OutType, SetOut(p)
  PROVE  Out' = p
BY DEF SetOut, Out, OutType

\* Clearing sentlen when nothing is pending changes nothing.
LEMMA ResetNothing ==
  ASSUME NEW p \in OutType, NEW top, OutOK(p, top), ~HasPending(p)
  PROVE  [p EXCEPT !.sentlen = 0] = p
<1> DEFINE q == [p EXCEPT !.sentlen = 0]
<1>1. p.sentlen = 0
  BY DEF OutOK
<1>2. q \in OutType /\ q.buf = p.buf /\ q.sentlen = 0 /\ q.reply = p.reply /\ q.bytes = p.bytes
  BY DEF OutType
<1> HIDE DEF q
<1>3. /\ q = [buf |-> q.buf, sentlen |-> q.sentlen, reply |-> q.reply, bytes |-> q.bytes]
      /\ p = [buf |-> p.buf, sentlen |-> p.sentlen, reply |-> p.reply, bytes |-> p.bytes]
  BY <1>2 DEF OutType
<1>4. q = p
  BY <1>1, <1>2, <1>3
<1> QED
  BY <1>4 DEF q

\* The loop of writeToClient().
LEMMA WriteLoopMoves ==
  ASSUME NEW o \in OutType, OutOK(o, produced), NEW caller, WriteLoop(o, <<>>, caller)
  PROVE  Moves(o)
<1>1. PICK m \in 0..Len(Unsent(o)) :
        LET p == Ack("writev", o, m) IN
        /\ wire' = wire \o SubSeq(Unsent(o), 1, m)
        /\ \/ /\ HasPending(p) /\ SetOut(p) /\ async' = TRUE
              /\ ring' = Append(<<>>, NewOp(p))
              /\ UNCHANGED closing
           \/ /\ ~HasPending(p) /\ SetOut([p EXCEPT !.sentlen = 0]) /\ async' = FALSE
              /\ ring' = <<>>
              /\ closing' = CloseWhenDrained
           \/ /\ HasPending(p) /\ SetOut(p) /\ async' = FALSE
              /\ ring' = <<>>
              /\ UNCHANGED closing
           \/ /\ HasPending(p) /\ SetOut(p) /\ async' = FALSE
              /\ ring' = <<>>
              /\ closing' = FreeAsync("aborted")
  BY DEF WriteLoop
<1> DEFINE p == Ack("writev", o, m)
           q == [p EXCEPT !.sentlen = 0]
<1>2. Len(Unsent(o)) = Left(o) /\ m \in 0..Left(o)
  BY UnsentFacts
<1>3. Leaves(o, m, p, produced)
  BY <1>2, AckFacts
<1>4. p \in OutType /\ OutOK(p, produced)
  BY <1>3 DEF Leaves
<1>5. ~HasPending(p) => q = p
  BY <1>4, ResetNothing
<1>6. Append(<<>>, NewOp(p)) = <<NewOp(p)>>
  OBVIOUS
<1> HIDE DEF p, q
<1>7. /\ wire' = wire \o SubSeq(Unsent(o), 1, m)
      /\ SetOut(p)
      /\ \/ /\ HasPending(p) /\ async' = TRUE /\ ring' = <<NewOp(p)>>
            /\ closing' = closing
         \/ /\ ~HasPending(p) /\ async' = FALSE /\ ring' = <<>>
            /\ closing' = CloseWhenDrained
         \/ /\ HasPending(p) /\ async' = FALSE /\ ring' = <<>>
            /\ closing' \in {closing, FreeAsync("aborted")}
  BY <1>1, <1>5, <1>6 DEF p, q
<1> QED
  BY <1>2, <1>3, <1>4, <1>7 DEF Moves

\* Without an operation the ring is empty; with one it holds only that.
LEMMA RingHolds ==
  ASSUME FlightInv
  PROVE  /\ ring \in Seq(Op)
         /\ ~async => ring = <<>>
         /\ async => Len(ring) = 1 /\ DOMAIN ring = {1} /\ 1 \in 1..Len(ring)
<1>1. ring \in Seq(Op) /\ Len(ring) = IF async THEN 1 ELSE 0
  BY DEF FlightInv, WriteVarsOK, OneInFlight
<1>2. DOMAIN ring = 1..Len(ring)
  BY <1>1, LenProperties
<1>3. Len(ring) = 0 => ring = <<>>
  BY <1>1, EmptySeq
<1> QED
  BY <1>1, <1>2, <1>3

\* The one operation and what its completion accounts for.
LEMMA DoneFacts ==
  ASSUME MemInv, NEW i \in DOMAIN ring
  PROVE  LET op == ring[i] IN
         /\ async /\ i = 1 /\ Without(ring, i) = <<>>
         /\ Out \in OutType /\ op \in Op /\ op.ret \in 0..Left(Out)
         /\ Leaves(Out, op.ret, Ack(op.kind, Out, op.ret), produced)
         /\ closing # "drained" /\ ~freed
<1> DEFINE op == ring[i]
<1>1. ring \in Seq(Op) /\ async /\ i = 1 /\ 1 \in 1..Len(ring) /\ Len(ring) = 1
  <2>1. ring \in Seq(Op) /\ DOMAIN ring = 1..Len(ring) /\ Len(ring) = IF async THEN 1 ELSE 0
    BY LenProperties DEF MemInv, FlightInv, WriteVarsOK, OneInFlight
  <2> QED
    BY <2>1
<1>2. Without(ring, i) = <<>>
  <2>1. Without(ring, i) \in Seq(Op) /\ Len(Without(ring, i)) = 0
    BY <1>1, WithoutType, SMTT(30)
  <2> QED
    BY <2>1, EmptySeq
<1>3. Out \in OutType /\ OutOK(Out, produced) /\ Describes(op, Out, bufcap)
  BY <1>1, OutIsTyped DEF MemInv, FlightInv, Memory
<1>4. op \in Op /\ op.ret \in Nat
  BY RingEntry DEF MemInv, FlightInv
<1>5. op.ret \in 0..Left(Out) /\ (op.kind = "write" => op.ret <= InBuf(Out))
  <2>1. Left(Out) \in Nat /\ InBuf(Out) \in Nat
    BY <1>3, OutParts
  <2>2. Len(op.cells) \in 1..Left(Out) /\ op.ret <= Len(op.cells)
        /\ (op.kind = "write" => Len(op.cells) <= InBuf(Out))
    BY <1>3 DEF Describes
  <2>3. Len(op.cells) \in Nat
    BY <2>1, <2>2
  <2> QED
    BY <1>4, <2>1, <2>2, <2>3
<1>6. Leaves(Out, op.ret, Ack(op.kind, Out, op.ret), produced)
  BY <1>3, <1>5, AckFacts
<1>7. closing # "drained" /\ ~freed
  BY <1>1 DEF MemInv, FlightInv, FlightHasPending, Memory
<1> QED
  BY <1>1, <1>2, <1>3, <1>4, <1>5, <1>6, <1>7

\* A completion goes on from what is left behind its units.
LEMMA CompletionMoves ==
  ASSUME MemInv, NEW i \in DOMAIN ring, Completion(i)
  PROVE  Moves(Ack(ring[i].kind, Out, ring[i].ret))
<1> DEFINE op == ring[i]
           p == Ack(op.kind, Out, op.ret)
           q == [p EXCEPT !.sentlen = 0]
<1>1. /\ async /\ Without(ring, i) = <<>>
      /\ Out \in OutType /\ op.ret \in 0..Left(Out)
      /\ Leaves(Out, op.ret, p, produced)
  BY DoneFacts
<1>2. p \in OutType /\ OutOK(p, produced)
  BY <1>1 DEF Leaves
<1>3. ~HasPending(p) => q = p
  BY <1>2, ResetNothing
<1>4. Leaves(p, 0, p, produced) /\ 0 \in 0..Left(p)
  BY <1>2, NoAck, OutParts
<1>5. wire = wire \o SubSeq(Unsent(p), 1, 0)
  <2>1. SubSeq(Unsent(p), 1, 0) = <<>>
    BY SubSeqEmpty
  <2>2. wire \in Seq(Nat)
    BY DEF MemInv, FlightInv, WriteVarsOK
  <2> QED
    BY <2>1, <2>2, ConcatEmptySeq
<1>6. ASSUME op.err = "EPIPE" PROVE p = Out /\ HasPending(p)
  <2>1. Describes(op, Out, bufcap)
    BY SMTT(30) DEF MemInv, Memory, FlightInv, WriteVarsOK
  <2>2. op.ret = 0
    BY <1>6, <2>1 DEF Describes
  <2> QED
    BY <1>1, <2>2 DEF Ack, MemInv, FlightInv, FlightHasPending
<1> SUFFICES Moves(p)
  OBVIOUS
<1> HIDE DEF p, q
<1>7. \/ /\ op.err = "EPIPE" /\ closing' = FreeAsync("aborted") /\ async' = FALSE
         /\ ring' = <<>> /\ UNCHANGED <<outvars, wire>>
      \/ /\ ~HasPending(p) /\ SetOut(q) /\ closing' = CloseWhenDrained /\ async' = FALSE
         /\ ring' = <<>> /\ wire' = wire
      \/ /\ HasPending(p) /\ SetOut(p) /\ closing' = closing /\ async' = FALSE
         /\ ring' = <<>> /\ wire' = wire
      \/ WriteLoop(p, <<>>, "callback")
  BY <1>1 DEF Completion, FlagCleared, p, q
<1>8. CASE /\ op.err = "EPIPE" /\ closing' = FreeAsync("aborted") /\ async' = FALSE
           /\ ring' = <<>> /\ UNCHANGED <<outvars, wire>>
  <2>1. SetOut(p)
    BY <1>6, <1>8 DEF outvars, SetOut, Out
  <2>2. HasPending(p) /\ closing' \in {closing, FreeAsync("aborted")}
    BY <1>6, <1>8
  <2>3. wire' = wire \o SubSeq(Unsent(p), 1, 0)
    BY <1>5, <1>8
  <2> QED
    BY <1>2, <1>4, <1>8, <2>1, <2>2, <2>3 DEF Moves
<1>9. CASE /\ ~HasPending(p) /\ SetOut(q) /\ closing' = CloseWhenDrained /\ async' = FALSE
           /\ ring' = <<>> /\ wire' = wire
  <2>1. SetOut(p) /\ wire' = wire \o SubSeq(Unsent(p), 1, 0)
    BY <1>3, <1>5, <1>9
  <2> QED
    BY <1>2, <1>4, <1>9, <2>1 DEF Moves
<1>10. CASE /\ HasPending(p) /\ SetOut(p) /\ closing' = closing /\ async' = FALSE
            /\ ring' = <<>> /\ wire' = wire
  <2>1. wire' = wire \o SubSeq(Unsent(p), 1, 0) /\ closing' \in {closing, FreeAsync("aborted")}
    BY <1>5, <1>10
  <2> QED
    BY <1>2, <1>4, <1>10, <2>1 DEF Moves
<1>11. CASE WriteLoop(p, <<>>, "callback")
  BY <1>2, <1>11, WriteLoopMoves
<1> QED
  BY <1>7, <1>8, <1>9, <1>10, <1>11

-----------------------------------------------------------------------------
(* One more unit of reply. *)

\* Sequence a is s with e behind it.
Longer(s, e, a) ==
  /\ a # <<>> /\ Len(a) = Len(s) + 1
  /\ \A i \in 1..Len(s) : a[i] = s[i]
  /\ a[Len(s) + 1] = e

\* Append() gives it.
LEMMA LongerByOne ==
  ASSUME NEW S, NEW s \in Seq(S), NEW e \in S
  PROVE  Longer(s, e, Append(s, e))
<1>1. Append(s, e) # <<>> /\ Len(Append(s, e)) = Len(s) + 1
  BY AppendProperties
<1>2. \A i \in 1..Len(s) : Append(s, e)[i] = s[i]
  BY AppendProperties
<1>3. Append(s, e)[Len(s) + 1] = e
  BY AppendProperties
<1> QED
  BY <1>1, <1>2, <1>3 DEF Longer

\* q is o with unit u behind all others; nothing else has moved.
OneMore(o, u, q) ==
  /\ Left(q) = Left(o) + 1 /\ InBuf(o) <= InBuf(q)
  /\ \A j \in 1..Left(o) : UnitAt(q, j) = UnitAt(o, j)
  /\ \A j \in 1..Left(o), cap \in Nat : CellAt(q, cap, j) = CellAt(o, cap, j)
  /\ UnitAt(q, Left(o) + 1) = u

\* _addReplyToBuffer().
LEMMA BufferGrows ==
  ASSUME NEW o \in OutType, NEW top \in Nat, OutOK(o, top), NEW u \in Nat, o.reply = <<>>,
         NEW q \in OutType,
         Longer(o.buf, u, q.buf), q.sentlen = o.sentlen, q.reply = o.reply, q.bytes = o.bytes
  PROVE  OutOK(q, top + 1) /\ OneMore(o, u, q)
<1> DEFINE n == Len(o.buf)
           s == o.sentlen
<1>1. /\ o.buf \in Seq(Nat) /\ s \in Nat /\ n \in Nat /\ Len(o.reply) = 0
      /\ o.buf = <<>> <=> n = 0
      /\ o.buf # <<>> => s < n
      /\ o.buf = <<>> => s = 0
  BY OutParts DEF OutOK, HasPending
<1>2. /\ q.buf # <<>> /\ Len(q.buf) = n + 1
      /\ \A i \in 1..n : q.buf[i] = o.buf[i]
      /\ q.buf[n + 1] = u
  BY DEF Longer
<1>3. q.sentlen = s /\ q.reply = <<>> /\ Len(q.reply) = 0
  BY <1>1
<1> HIDE DEF n
<1>4. InBuf(q) = n + 1 - s /\ HeadOffset(q) = 0 /\ Left(q) = n + 1 - s
  <2>1. InBuf(q) = Len(q.buf) - q.sentlen /\ HeadOffset(q) = 0
    BY <1>2 DEF InBuf, HeadOffset
  <2>2. Left(q) = InBuf(q) + 0 - 0
    BY <1>3, <2>1 DEF Left
  <2>3. InBuf(q) = n + 1 - s
    <3>1. Len(q.buf) = n + 1 /\ q.sentlen = s /\ n \in Nat /\ s \in Nat
      BY <1>1, <1>2, <1>3
    <3> QED
      BY <2>1, <3>1
  <2>4. Left(q) = n + 1 - s + 0 - 0
    BY <2>2, <2>3, Zenon
  <2>5. n + 1 - s + 0 - 0 = n + 1 - s
    BY <1>1
  <2> QED
    BY <2>1, <2>3, <2>4, <2>5, Zenon
<1>5. InBuf(o) = n - s /\ Left(o) = n - s
  <2>1. InBuf(o) = n - s /\ HeadOffset(o) = 0
    BY <1>1 DEF InBuf, HeadOffset, n
  <2>2. Left(o) = InBuf(o) + 0 - 0
    BY <1>1, <2>1 DEF Left
  <2> QED
    BY <1>1, <2>1, <2>2
<1>6. OutOK(q, top + 1)
  <2>1. \A i \in 1..Len(q.reply) : q.reply[i].block <= top + 1
    BY <1>3
  <2>2. Ordered(q.reply)
    BY <1>3 DEF Ordered
  <2>3. q.sentlen < Len(q.buf)
    BY <1>1, <1>2, <1>3
  <2>4. HasPending(q)
    BY <1>2 DEF HasPending
  <2>5. q.bytes = BlockCap * Cardinality(Blocks(q.reply, Len(q.reply)))
    BY DEF OutOK
  <2> QED
    BY <1>2, <2>1, <2>2, <2>3, <2>4, <2>5 DEF OutOK
<1>7. n \in Nat /\ s \in Nat /\ s <= n
  BY <1>1
<1>8. Left(q) = Left(o) + 1 /\ InBuf(o) <= InBuf(q)
  BY <1>4, <1>5, <1>7
<1>9. ASSUME NEW j \in 1..Left(o)
      PROVE  /\ j <= InBuf(q) /\ j <= InBuf(o) /\ q.buf[s + j] = o.buf[s + j]
  <2>1. s + j \in 1..n /\ j <= n - s /\ j <= n + 1 - s
    BY <1>5, <1>7
  <2> QED
    BY <1>2, <1>4, <1>5, <2>1
<1>10. UnitAt(q, Left(o) + 1) = u
  <2>1. Left(o) + 1 <= InBuf(q) /\ s + (Left(o) + 1) = n + 1
    BY <1>4, <1>5, <1>7
  <2> QED
    BY <1>2, <1>3, <2>1 DEF UnitAt
<1>11. \A j \in 1..Left(o) : UnitAt(q, j) = UnitAt(o, j)
  BY <1>3, <1>9 DEF UnitAt
<1>12. \A j \in 1..Left(o), cap \in Nat : CellAt(q, cap, j) = CellAt(o, cap, j)
  BY <1>3, <1>9 DEF CellAt
<1> QED
  BY <1>6, <1>8, <1>10, <1>11, <1>12 DEF OneMore

\* _addReplyProtoToList() and addReplyDeferredLen(): in the last block or a new one.
LEMMA ListGrows ==
  ASSUME NEW o \in OutType, NEW top \in Nat, OutOK(o, top), NEW u \in Nat, NEW b \in Nat,
         NEW q \in OutType,
         q.buf = o.buf, q.sentlen = o.sentlen,
         Longer(o.reply, [unit |-> u, block |-> b], q.reply),
         \/ /\ o.reply # <<>> /\ b = o.reply[Len(o.reply)].block /\ q.bytes = o.bytes
         \/ b = top + 1 /\ q.bytes = o.bytes + BlockCap
  PROVE  OutOK(q, top + 1) /\ OneMore(o, u, q)
<1> DEFINE r == o.reply
           n == Len(r)
           e == [unit |-> u, block |-> b]
<1>1. /\ r \in Seq(Entry) /\ n \in Nat /\ (r = <<>> <=> n = 0)
      /\ o.bytes \in Int
      /\ InBuf(o) \in Nat /\ HeadOffset(o) \in 0..n /\ Left(o) \in Nat
      /\ Left(o) = InBuf(o) + n - HeadOffset(o)
  BY OutParts DEF Left
<1>2. e \in Entry /\ e.unit = u /\ e.block = b
  BY DEF Entry
<1>3. /\ q.reply \in Seq(Entry) /\ q.reply # <<>> /\ Len(q.reply) = n + 1
      /\ \A i \in 1..n : q.reply[i] = r[i]
      /\ q.reply[n + 1] = e
  <2>1. q.reply \in Seq(Entry)
    BY DEF OutType
  <2> HIDE DEF e
  <2>2. Longer(r, e, q.reply)
    BY DEF e
  <2> QED
    BY <2>1, <2>2 DEF Longer
<1> HIDE DEF e
<1>4. /\ Ordered(r) /\ \A i \in 1..n : r[i].block <= top
      /\ o.bytes = BlockCap * Cardinality(Blocks(r, n))
      /\ o.buf # <<>> => o.sentlen < Len(o.buf)
      /\ o.buf = <<>> /\ r # <<>> => o.sentlen < n /\ r[o.sentlen + 1].block = r[1].block
      /\ o.buf = <<>> /\ r = <<>> => o.sentlen = 0
  BY DEF OutOK, HasPending
<1>5. \A i \in 1..n : r[i].block \in Nat
  BY <1>1, EntryFields
<1>6. b <= top + 1 /\ \A i \in 1..n : r[i].block <= b
  <2>1. CASE r # <<>> /\ b = r[n].block
    <3>1. n \in 1..n
      BY <1>1, <2>1
    <3>2. \A i \in 1..n : r[i].block <= r[n].block
      <4>1. \A i \in 1..n : i <= n
        BY <1>1
      <4>2. \A i, k \in 1..n : i <= k => r[i].block <= r[k].block
        BY <1>4 DEF Ordered
      <4> HIDE DEF n
      <4> QED
        BY <3>1, <4>1, <4>2
    <3>3. r[n].block <= top
      BY <1>4, <3>1
    <3> QED
      BY <2>1, <3>2, <3>3
  <2>2. CASE b = top + 1
    BY <1>4, <1>5, <2>2
  <2> QED
    BY <2>1, <2>2
<1>7. Ordered(q.reply)
  <2> SUFFICES ASSUME NEW i \in 1..(n + 1), NEW k \in 1..(n + 1), i <= k
               PROVE  q.reply[i].block <= q.reply[k].block
    BY <1>3 DEF Ordered
  <2> HIDE DEF n
  <2>0. n \in Nat
    BY <1>1
  <2>1. CASE k \in 1..n
    <3>1. i \in 1..n
      BY <2>0, <2>1
    <3> QED
      BY <1>3, <1>4, <2>1, <3>1 DEF Ordered, n
  <2>2. CASE k = n + 1
    <3>1. i \in 1..n \/ i = n + 1
      BY <2>0
    <3>2. b <= b
      OBVIOUS
    <3> QED
      BY <1>2, <1>3, <1>6, <2>2, <3>1, <3>2
  <2>3. k \in 1..n \/ k = n + 1
    BY <2>0
  <2> QED
    BY <2>1, <2>2, <2>3
<1>8. \A i \in 1..(n + 1) : q.reply[i].block <= top + 1
  <2> TAKE i \in 1..(n + 1)
  <2>1. i \in 1..n \/ i = n + 1
    BY <1>1
  <2>2. ASSUME i \in 1..n PROVE q.reply[i].block <= top + 1
    <3>1. q.reply[i].block = r[i].block /\ r[i].block <= top /\ r[i].block \in Nat
      BY <1>3, <1>4, <1>5, <2>2
    <3> QED
      BY <3>1
  <2> QED
    BY <1>2, <1>3, <1>6, <2>1, <2>2
<1>9. q.bytes = BlockCap * Cardinality(Blocks(q.reply, n + 1))
  <2>1. Blocks(q.reply, n + 1) = Blocks(r, n) \cup {b}
    <3>1. \A i \in 1..(n + 1) : i \in 1..n \/ i = n + 1
      BY <1>1
    <3>2. \A i \in 1..n : i \in 1..(n + 1) /\ q.reply[i].block = r[i].block
      <4>1. n \in Nat
        BY <1>1
      <4>2. \A i \in 1..n : q.reply[i].block = r[i].block
        BY <1>3
      <4> HIDE DEF n
      <4> QED
        BY <4>1, <4>2
    <3>3. n + 1 \in 1..(n + 1) /\ q.reply[n + 1].block = b
      BY <1>1, <1>2, <1>3
    <3> QED
      BY <3>1, <3>2, <3>3 DEF Blocks
  <2>2. IsFiniteSet(Blocks(r, n)) /\ Cardinality(Blocks(r, n)) \in Nat
    BY <1>1, BlocksFinite
  <2>3. Cardinality(Blocks(r, n) \cup {b}) =
          IF b \in Blocks(r, n) THEN Cardinality(Blocks(r, n)) ELSE Cardinality(Blocks(r, n)) + 1
    BY <2>2, FS_AddElement
  <2>4. CASE r # <<>> /\ b = r[n].block /\ q.bytes = o.bytes
    <3>1. n \in 1..n
      BY <1>1, <2>4
    <3>2. b \in Blocks(r, n)
      BY <2>4, <3>1 DEF Blocks
    <3> QED
      BY <1>4, <2>1, <2>3, <2>4, <3>2
  <2>5. CASE b = top + 1 /\ q.bytes = o.bytes + BlockCap
    <3>1. b \notin Blocks(r, n)
      <4>1. \A i \in 1..n : r[i].block # b
        BY <1>4, <1>5, <2>5
      <4> QED
        BY <4>1 DEF Blocks
    <3> DEFINE c == Cardinality(Blocks(r, n))
    <3>2. q.bytes = BlockCap * c + BlockCap /\ c \in Nat /\ BlockCap \in Nat
      BY <1>4, <2>2, <2>5, ConstantsAssumption
    <3>3. Cardinality(Blocks(q.reply, n + 1)) = c + 1
      BY <2>1, <2>3, <3>1
    <3> HIDE DEF c
    <3>4. BlockCap * (c + 1) = BlockCap * c + BlockCap
      BY <3>2
    <3> QED
      BY <3>2, <3>3, <3>4
  <2> QED
    BY <2>4, <2>5
<1>10. ASSUME q.buf = <<>>
       PROVE  q.sentlen < n + 1 /\ q.reply[q.sentlen + 1].block = q.reply[1].block
  <2>1. CASE r = <<>>
    <3>1. q.sentlen = 0 /\ n = 0
      BY <1>1, <1>4, <1>10, <2>1
    <3> QED
      BY <3>1
  <2>2. CASE r # <<>>
    <3>1. o.sentlen < n /\ r[o.sentlen + 1].block = r[1].block /\ o.sentlen \in Nat
      BY <1>4, <1>10, <2>2, OutParts
    <3>2. o.sentlen + 1 \in 1..n /\ 1 \in 1..n
      <4>1. n \in Nat
        BY <1>1
      <4> HIDE DEF n
      <4> QED
        BY <3>1, <4>1
    <3>3. q.sentlen < n + 1
      BY <1>1, <3>1
    <3>4. q.reply[o.sentlen + 1] = r[o.sentlen + 1] /\ q.reply[1] = r[1]
      BY <1>3, <3>2
    <3> QED
      BY <3>1, <3>3, <3>4
  <2> QED
    BY <2>1, <2>2
<1>11. OutOK(q, top + 1)
  <2>1. HasPending(q)
    BY <1>3 DEF HasPending
  <2> QED
    BY <1>3, <1>4, <1>7, <1>8, <1>9, <1>10, <2>1 DEF OutOK
<1>12. InBuf(q) = InBuf(o) /\ HeadOffset(q) = HeadOffset(o)
  BY DEF InBuf, HeadOffset
<1>13. Left(q) = Left(o) + 1
  <2>1. Left(q) = InBuf(o) + (n + 1) - HeadOffset(o)
    BY <1>3, <1>12 DEF Left
  <2> QED
    BY <1>1, <2>1, SMTT(30)
<1>14. ASSUME NEW j \in 1..Left(o), ~ (j <= InBuf(o))
       PROVE  Place(q, j) = Place(o, j) /\ q.reply[Place(o, j)] = r[Place(o, j)]
  <2>1. Place(q, j) = Place(o, j)
    BY <1>12 DEF Place
  <2>2. Place(o, j) \in 1..n
    <3>1. /\ n \in Nat /\ InBuf(o) \in Nat /\ HeadOffset(o) \in 0..n
          /\ Left(o) = InBuf(o) + n - HeadOffset(o)
      BY <1>1
    <3> HIDE DEF n
    <3> QED
      BY <1>14, <3>1 DEF Place
  <2> QED
    BY <1>3, <2>1, <2>2
<1>15. UnitAt(q, Left(o) + 1) = u
  <2>1. ~ (Left(o) + 1 <= InBuf(q)) /\ Place(q, Left(o) + 1) = n + 1
    <3>1. /\ n \in Nat /\ InBuf(o) \in Nat /\ HeadOffset(o) \in 0..n
          /\ Left(o) = InBuf(o) + n - HeadOffset(o)
      BY <1>1
    <3> HIDE DEF n
    <3> QED
      BY <1>12, <3>1 DEF Place
  <2> QED
    BY <1>2, <1>3, <2>1 DEF UnitAt
<1>16. InBuf(o) <= InBuf(q)
  BY <1>1, <1>12
<1>17. \A j \in 1..Left(o) : UnitAt(q, j) = UnitAt(o, j)
  BY <1>12, <1>14 DEF UnitAt
<1>18. \A j \in 1..Left(o), cap \in Nat : CellAt(q, cap, j) = CellAt(o, cap, j)
  BY <1>12, <1>14 DEF CellAt
<1> QED
  BY <1>11, <1>13, <1>15, <1>16, <1>17, <1>18 DEF OneMore

-----------------------------------------------------------------------------
(* Every step keeps the invariant. *)

\* What Memory reads is unchanged.
LEMMA SameMemory ==
  ASSUME Memory,
         UNCHANGED <<buf, sentlen, reply, replyBytes, bufcap, produced, ring, closing, freed, async>>
  PROVE  Memory'
<1>1. Out' = Out
  BY DEF Out
<1> QED
  BY <1>1 DEF Memory

\* A fresh operation describes what its output buffers have unsent.
LEMMA NewOpDescribes ==
  ASSUME NEW p \in OutType, NEW top, OutOK(p, top), HasPending(p), bufcap \in BufCaps
  PROVE  Describes(NewOp(p), p, bufcap)
<1> DEFINE op == NewOp(p)
<1>1. /\ Len(IovCells(p)) \in 1..Left(p)
      /\ \A j \in 1..Len(IovCells(p)) : IovCells(p)[j] = CellAt(p, bufcap, j)
      /\ p.reply = <<>> => Len(IovCells(p)) <= InBuf(p)
  BY IovFacts
<1>2. /\ op.cells = IovCells(p) /\ op.st = "flight" /\ op.ret = 0 /\ op.err = "none"
      /\ op.kind = "write" => p.reply = <<>>
  BY DEF NewOp
<1>3. 0 <= Len(IovCells(p))
  <2>1. Left(p) \in Nat
    BY OutParts
  <2> QED
    BY <1>1, <2>1
<1> HIDE DEF op
<1>4. Describes(op, p, bufcap)
  BY <1>1, <1>2, <1>3 DEF Describes
<1> QED
  BY <1>4 DEF op

\* After a move of the loop or of a completion.
LEMMA MovesKeep ==
  ASSUME NEW o, bufcap \in BufCaps, ~freed, closing = "drained" => ~HasPending(o),
         o \in OutType, OutOK(o, produced),
         Moves(o), UNCHANGED <<bufcap, produced, freed>>
  PROVE  Memory'
<1>1. PICK m \in 0..Left(o), p \in OutType :
        /\ Leaves(o, m, p, produced)
        /\ SetOut(p)
        /\ \/ /\ HasPending(p) /\ async' = TRUE /\ ring' = <<NewOp(p)>>
              /\ closing' = closing
           \/ /\ ~HasPending(p) /\ async' = FALSE /\ ring' = <<>>
           \/ /\ HasPending(p) /\ async' = FALSE /\ ring' = <<>>
              /\ closing' \in {closing, FreeAsync("aborted")}
  BY DEF Moves
<1>2. Out' = p /\ OutOK(p, produced)
  BY <1>1, OutAfter DEF Leaves
<1>3. OutOK(Out, produced)'
  BY <1>2
<1>4. HasPending(p) => HasPending(o)
  <2>1. Left(p) = Left(o) - m /\ Left(o) \in Nat
    BY <1>1, OutParts DEF Leaves
  <2>2. (HasPending(p) <=> Left(p) > 0) /\ (HasPending(o) <=> Left(o) > 0)
    BY <1>2, OutParts
  <2> QED
    BY <2>1, <2>2
<1>5. closing' = "drained" => ~HasPending(Out)'
  <2>1. closing # "drained" => FreeAsync("aborted") # "drained"
    BY DEF FreeAsync
  <2>2. HasPending(p) => closing' # "drained"
    BY <1>1, <1>4, <2>1
  <2>3. HasPending(Out)' <=> HasPending(p)
    BY <1>1, PendingAfterSetOut
  <2> QED
    BY <2>2, <2>3
<1>6. \A i \in 1..Len(ring') : Describes(ring'[i], Out', bufcap')
  <2>1. CASE ring' = <<>>
    BY <2>1
  <2>2. CASE HasPending(p) /\ ring' = <<NewOp(p)>>
    <3>1. Describes(NewOp(p), p, bufcap)
      BY <1>2, <2>2, NewOpDescribes
    <3>2. Len(ring') = 1 /\ ring'[1] = NewOp(p)
      BY <2>2
    <3> QED
      BY <1>2, <3>1, <3>2
  <2> QED
    BY <1>1, <2>1, <2>2
<1> QED
  BY <1>3, <1>5, <1>6 DEF Memory

\* prepareClientToWrite() and _addReplyToBufferOrList().
LEMMA AddReplyGrows ==
  ASSUME MemInv, NEW last \in BOOLEAN, AddReply(last), WriteVarsOK'
  PROVE  /\ OutOK(Out', produced + 1)
         /\ OneMore(Out, produced + 1, Out')
<1> DEFINE u == produced + 1
           b == reply[Len(reply)].block
<1>1. /\ buf \in Seq(Nat) /\ reply \in Seq(Entry) /\ produced \in Nat /\ u \in Nat
      /\ Out \in OutType /\ OutOK(Out, produced)
  BY OutIsTyped DEF MemInv, FlightInv, WriteVarsOK, OtherVarsOK, Memory
<1>2. Out' \in OutType
  BY DEF WriteVarsOK, Out, OutType
<1>3. /\ Out.buf = buf /\ Out.sentlen = sentlen /\ Out.reply = reply /\ Out.bytes = replyBytes
      /\ Out'.buf = buf' /\ Out'.sentlen = sentlen /\ Out'.reply = reply' /\ Out'.bytes = replyBytes'
  BY DEF Out, AddReply
<1>4. \/ /\ reply = <<>> /\ buf' = Append(buf, u)
         /\ reply' = reply /\ replyBytes' = replyBytes
      \/ /\ reply # <<>> /\ reply' = Append(reply, [unit |-> u, block |-> b])
         /\ buf' = buf /\ replyBytes' = replyBytes
      \/ /\ reply' = Append(reply, [unit |-> u, block |-> u])
         /\ buf' = buf /\ replyBytes' = replyBytes + BlockCap
  BY DEF AddReply
<1>5. CASE /\ reply = <<>> /\ buf' = Append(buf, u)
           /\ reply' = reply /\ replyBytes' = replyBytes
  <2>1. Longer(buf, u, buf')
    BY <1>1, <1>5, LongerByOne
  <2>2. Longer(Out.buf, u, Out'.buf)
    BY <1>3, <2>1
  <2>3. Out.reply = <<>> /\ Out'.sentlen = Out.sentlen /\ Out'.reply = Out.reply /\ Out'.bytes = Out.bytes
    BY <1>3, <1>5
  <2> QED
    BY <1>1, <1>2, <2>2, <2>3, BufferGrows
<1>6. CASE /\ reply # <<>> /\ reply' = Append(reply, [unit |-> u, block |-> b])
           /\ buf' = buf /\ replyBytes' = replyBytes
  <2>1. Len(reply) \in 1..Len(reply)
    BY <1>1, <1>6, EmptySeq
  <2>2. b \in Nat
    BY <1>1, <2>1, EntryFields
  <2> HIDE DEF b
  <2>3. [unit |-> u, block |-> b] \in Entry
    BY <1>1, <2>2 DEF Entry
  <2>4. Longer(reply, [unit |-> u, block |-> b], reply')
    BY <1>1, <1>6, <2>3, LongerByOne
  <2>5. Longer(Out.reply, [unit |-> u, block |-> b], Out'.reply)
    BY <1>3, <2>4
  <2>6. /\ Out'.buf = Out.buf /\ Out'.sentlen = Out.sentlen
        /\ Out.reply # <<>> /\ b = Out.reply[Len(Out.reply)].block /\ Out'.bytes = Out.bytes
    BY <1>3, <1>6 DEF b
  <2> QED
    BY <1>1, <1>2, <2>2, <2>5, <2>6, ListGrows
<1>7. CASE /\ reply' = Append(reply, [unit |-> u, block |-> u])
           /\ buf' = buf /\ replyBytes' = replyBytes + BlockCap
  <2>1. [unit |-> u, block |-> u] \in Entry
    BY <1>1 DEF Entry
  <2>2. Longer(reply, [unit |-> u, block |-> u], reply')
    BY <1>1, <1>7, <2>1, LongerByOne
  <2>3. Longer(Out.reply, [unit |-> u, block |-> u], Out'.reply)
    BY <1>3, <2>2
  <2>4. /\ Out'.buf = Out.buf /\ Out'.sentlen = Out.sentlen
        /\ Out'.bytes = Out.bytes + BlockCap
    BY <1>3, <1>7
  <2> QED
    BY <1>1, <1>2, <2>3, <2>4, ListGrows
<1> QED
  BY <1>4, <1>5, <1>6, <1>7

\* A reply added while an operation is in flight stays behind what that describes.
LEMMA AddReplyKeeps ==
  ASSUME MemInv, NEW last \in BOOLEAN, AddReply(last), WriteVarsOK'
  PROVE  Memory'
<1>1. OutOK(Out', produced + 1) /\ OneMore(Out, produced + 1, Out')
  BY AddReplyGrows
<1>2. /\ produced' = produced + 1 /\ ring' = ring /\ bufcap' = bufcap
      /\ closing = "no" /\ closing' = closing /\ freed' = freed /\ async' = async
  BY DEF AddReply
<1>3. Left(Out) \in Nat /\ InBuf(Out) \in Nat /\ Out' \in OutType /\ InBuf(Out') \in Nat
  <2>1. Out \in OutType /\ OutOK(Out, produced)
    BY OutIsTyped DEF MemInv, FlightInv, Memory
  <2>2. Out' \in OutType
    BY DEF WriteVarsOK, Out, OutType
  <2> QED
    BY <1>1, <2>1, <2>2, OutParts
<1>4. bufcap \in Nat
  BY ConstantsAssumption DEF MemInv, FlightInv, OtherVarsOK
<1>5. ASSUME NEW i \in 1..Len(ring) PROVE Describes(ring[i], Out', bufcap)
  <2> DEFINE op == ring[i]
  <2>1. Describes(op, Out, bufcap)
    BY DEF MemInv, Memory
  <2> HIDE DEF op
  <2>2. /\ Left(Out') = Left(Out) + 1 /\ InBuf(Out) <= InBuf(Out')
        /\ \A j \in 1..Left(Out) : CellAt(Out', bufcap, j) = CellAt(Out, bufcap, j)
    BY <1>1, <1>4 DEF OneMore
  <2>3. Len(op.cells) \in 1..Left(Out)
    BY <2>1 DEF Describes
  <2>4. Len(op.cells) \in 1..Left(Out') /\ \A j \in 1..Len(op.cells) : j \in 1..Left(Out)
    BY <1>3, <2>2, <2>3
  <2>5. \A j \in 1..Len(op.cells) : op.cells[j] = CellAt(Out', bufcap, j)
    BY <2>1, <2>2, <2>4 DEF Describes
  <2>6. op.kind = "write" => Len(op.cells) <= InBuf(Out')
    BY <1>3, <2>1, <2>2, <2>3 DEF Describes
  <2> QED
    BY <2>1, <2>4, <2>5, <2>6 DEF Describes, op
<1>6. \A i \in 1..Len(ring') : Describes(ring'[i], Out', bufcap')
  BY <1>2, <1>5
<1>7. freed' => ~async'
  BY <1>2 DEF MemInv, Memory
<1> QED
  BY <1>1, <1>2, <1>6, <1>7 DEF Memory

\* The buffers of a client without an operation, as the loop finds them.
LEMMA IdleFacts ==
  ASSUME MemInv
  PROVE  /\ Out \in OutType /\ OutOK(Out, produced) /\ bufcap \in BufCaps
         /\ closing = "drained" => ~HasPending(Out)
         /\ ~async => ring = <<>>
BY OutIsTyped, RingHolds DEF MemInv, FlightInv, Memory, OtherVarsOK

\* writeToClient() from the queue or the write handler: nothing, or a move.
LEMMA WriteToClientMoves ==
  ASSUME MemInv, NEW caller, WriteToClient(caller)
  PROVE  \/ UNCHANGED <<outvars, async, ring, wire, closing>>
         \/ Moves(Out) /\ ring = <<>>
<1>1. CASE AlreadyAsync(async)
  BY <1>1 DEF WriteToClient
<1>2. CASE ~AlreadyAsync(async)
  <2>1. WriteLoop(Out, ring, caller) /\ ~async
    BY <1>2 DEF WriteToClient, AlreadyAsync
  <2>2. Out \in OutType /\ OutOK(Out, produced) /\ ring = <<>>
    BY <2>1, IdleFacts
  <2>3. WriteLoop(Out, <<>>, caller)
    BY <2>1, <2>2
  <2>4. Moves(Out)
    BY <2>2, <2>3, WriteLoopMoves
  <2> QED
    BY <2>2, <2>4
<1> QED
  BY <1>1, <1>2

\* It keeps what the invariant says of the memory.
LEMMA WriteToClientKeeps ==
  ASSUME MemInv, ~freed, NEW caller, WriteToClient(caller), UNCHANGED <<bufcap, produced, freed>>
  PROVE  Memory'
<1>1. CASE UNCHANGED <<outvars, async, ring, wire, closing>>
  BY <1>1, SameMemory DEF MemInv, outvars
<1>2. CASE Moves(Out)
  BY <1>2, IdleFacts, MovesKeep
<1> QED
  BY <1>1, <1>2, WriteToClientMoves

\* So does a completion.
LEMMA CompletionKeeps ==
  ASSUME MemInv, NEW i \in DOMAIN ring, Completion(i)
  PROVE  Memory'
<1> DEFINE p == Ack(ring[i].kind, Out, ring[i].ret)
<1>1. Leaves(Out, ring[i].ret, p, produced) /\ closing # "drained"
  BY DoneFacts
<1>2. p \in OutType /\ OutOK(p, produced)
  BY <1>1 DEF Leaves
<1>3. Moves(p)
  BY CompletionMoves
<1>4. UNCHANGED <<bufcap, produced, freed>> /\ ~freed
  BY DEF Completion
<1> HIDE DEF p
<1> QED
  BY <1>1, <1>2, <1>3, <1>4, IdleFacts, MovesKeep

\* The socket takes part of what an operation describes.
LEMMA RingWriteKeeps ==
  ASSUME MemInv, NEW i \in DOMAIN ring, RingWrite(i)
  PROVE  Memory'
<1>1. PICK n \in 1..Len(ring[i].cells) : ring' = [ring EXCEPT ![i].st = "done", ![i].ret = n]
  BY DEF RingWrite
<1>2. ring[i].st = "flight" /\ UNCHANGED <<outvars, lifevars, bufcap, async, produced>>
  BY DEF RingWrite
<1>3. Out' = Out
  BY <1>2 DEF Out, outvars
<1>4. ring \in Seq(Op) /\ DOMAIN ring = 1..Len(ring) /\ ring[i] \in Op /\ i \in 1..Len(ring)
  BY RingEntry, LenProperties DEF MemInv, FlightInv, WriteVarsOK
<1> DEFINE op == ring[i]
           done == [op EXCEPT !.st = "done", !.ret = n]
<1>5. /\ done.cells = op.cells /\ done.kind = op.kind /\ done.err = op.err
      /\ done.st = "done" /\ done.ret = n
  BY <1>4 DEF Op
<1>6. ring' = [ring EXCEPT ![i] = done]
  BY <1>1
<1>7. Describes(op, Out, bufcap)
  BY <1>4 DEF MemInv, Memory
<1> HIDE DEF op, done
<1>8. Describes(done, Out, bufcap)
  <2>1. op.err = "none" /\ n <= Len(op.cells)
    <3>1. op.st = "flight" /\ n \in 1..Len(op.cells)
      BY <1>2 DEF op
    <3>2. Len(op.cells) \in Nat
      BY <1>7, IdleFacts, OutParts DEF Describes
    <3> QED
      BY <1>7, <3>1, <3>2 DEF Describes
  <2> QED
    BY <1>5, <1>7, <2>1 DEF Describes
<1>9. /\ DOMAIN ring' = 1..Len(ring) /\ ring'[i] = done
      /\ \A k \in 1..Len(ring) : k # i => ring'[k] = ring[k]
  BY <1>4, <1>6
<1>10. Len(ring') = Len(ring)
  BY <1>4, <1>9
<1>11. \A k \in 1..Len(ring') : Describes(ring'[k], Out', bufcap')
  BY <1>2, <1>3, <1>8, <1>9, <1>10 DEF MemInv, Memory
<1>12. produced' = produced /\ closing' = closing /\ freed' = freed /\ async' = async
  BY <1>2 DEF lifevars
<1> QED
  BY <1>3, <1>11, <1>12 DEF MemInv, Memory

\* The ring completes an operation with an error.
LEMMA RingFailKeeps ==
  ASSUME MemInv, NEW i \in DOMAIN ring, RingFail(i)
  PROVE  Memory'
<1>1. PICK e \in {"EAGAIN", "EINTR", "EPIPE"} :
        ring' = [ring EXCEPT ![i].st = "done", ![i].err = e]
  BY DEF RingFail
<1>2. ring[i].st = "flight" /\ UNCHANGED <<outvars, lifevars, bufcap, async, produced>>
  BY DEF RingFail
<1>3. Out' = Out
  BY <1>2 DEF Out, outvars
<1>4. ring \in Seq(Op) /\ DOMAIN ring = 1..Len(ring) /\ ring[i] \in Op /\ i \in 1..Len(ring)
  BY RingEntry, LenProperties DEF MemInv, FlightInv, WriteVarsOK
<1> DEFINE op == ring[i]
           done == [op EXCEPT !.st = "done", !.err = e]
<1>5. /\ done.cells = op.cells /\ done.kind = op.kind /\ done.ret = op.ret
      /\ done.st = "done"
  BY <1>4 DEF Op
<1>6. ring' = [ring EXCEPT ![i] = done]
  BY <1>1
<1>7. Describes(op, Out, bufcap) /\ op.st = "flight"
  BY <1>2, <1>4 DEF MemInv, Memory
<1> HIDE DEF op, done
<1>8. Describes(done, Out, bufcap)
  BY <1>5, <1>7 DEF Describes
<1>9. /\ DOMAIN ring' = 1..Len(ring) /\ ring'[i] = done
      /\ \A k \in 1..Len(ring) : k # i => ring'[k] = ring[k]
  BY <1>4, <1>6
<1>10. Len(ring') = Len(ring)
  BY <1>4, <1>9
<1>11. \A k \in 1..Len(ring') : Describes(ring'[k], Out', bufcap')
  BY <1>2, <1>3, <1>8, <1>9, <1>10 DEF MemInv, Memory
<1>12. produced' = produced /\ closing' = closing /\ freed' = freed /\ async' = async
  BY <1>2 DEF lifevars
<1> QED
  BY <1>3, <1>11, <1>12 DEF MemInv, Memory

\* The static buffer moves only when it holds nothing that an operation describes.
LEMMA ResizeKeeps ==
  ASSUME MemInv, ResizeOutputBuffer
  PROVE  Memory'
<1>1. /\ buf = <<>> /\ UNCHANGED <<outvars, lifevars, async, ring, produced>>
      /\ bufcap' \in ResizeTargets
  BY DEF ResizeOutputBuffer, ResizeAllowed
<1>2. Out' = Out /\ InBuf(Out) = 0
  BY <1>1 DEF Out, outvars, InBuf
<1>3. ASSUME NEW i \in 1..Len(ring) PROVE Describes(ring[i], Out, bufcap')
  <2> DEFINE op == ring[i]
  <2>1. Describes(op, Out, bufcap)
    BY DEF MemInv, Memory
  <2> HIDE DEF op
  <2>2. \A j \in 1..Len(op.cells) : CellAt(Out, bufcap', j) = CellAt(Out, bufcap, j)
    <3> TAKE j \in 1..Len(op.cells)
    <3>1. ~ (j <= 0)
      OBVIOUS
    <3> QED
      BY <1>2, <3>1 DEF CellAt
  <2> QED
    BY <2>1, <2>2 DEF Describes, op
<1>4. \A i \in 1..Len(ring') : Describes(ring'[i], Out', bufcap')
  BY <1>1, <1>2, <1>3
<1>5. produced' = produced /\ closing' = closing /\ freed' = freed /\ async' = async
  BY <1>1 DEF lifevars
<1> QED
  BY <1>2, <1>4, <1>5 DEF MemInv, Memory

\* Buffers that hold nothing are in order.
LEMMA EmptyOutOK ==
  ASSUME NEW o, o.buf = <<>>, o.sentlen = 0, o.reply = <<>>, o.bytes = 0, NEW top
  PROVE  OutOK(o, top)
<1>1. Len(o.reply) = 0 /\ Blocks(o.reply, 0) = {}
  BY DEF Blocks
<1>2. Cardinality(Blocks(o.reply, 0)) = 0
  BY <1>1, FS_EmptySet
<1>3. BlockCap * 0 = 0
  BY ConstantsAssumption
<1>4. Ordered(o.reply) /\ \A i \in 1..Len(o.reply) : o.reply[i].block <= top
  BY <1>1 DEF Ordered
<1> QED
  BY <1>1, <1>2, <1>3, <1>4 DEF OutOK

\* freeClient().
LEMMA FreeKeeps ==
  ASSUME FreeClientsInAsyncFreeQueue
  PROVE  Memory'
<1>1. /\ buf' = <<>> /\ reply' = <<>> /\ sentlen' = 0 /\ replyBytes' = 0
      /\ async' = FALSE /\ ring' = <<>>
  BY DEF FreeClientsInAsyncFreeQueue
<1>2. /\ Out'.buf = <<>> /\ Out'.sentlen = 0 /\ Out'.reply = <<>> /\ Out'.bytes = 0
  BY <1>1 DEF Out
<1>3. OutOK(Out', produced')
  BY <1>2, EmptyOutOK
<1>4. ~HasPending(Out')
  BY <1>2 DEF HasPending
<1> QED
  BY <1>1, <1>3, <1>4 DEF Memory

\* Every step keeps the invariant.
LEMMA MemoryStep ==
  ASSUME MemInv, [Next]_vars
  PROVE  MemInv'
<1>1. FlightInv' /\ WriteVarsOK'
  BY FlightStep DEF MemInv, FlightInv
<1> SUFFICES Memory'
  BY <1>1 DEF MemInv
<1>2. ASSUME NEW last \in BOOLEAN, AddReply(last) PROVE Memory'
  BY <1>1, <1>2, AddReplyKeeps
<1>3. CASE FlushPendingWrites
  <2>1. UNCHANGED <<bufcap, produced, freed>> /\ ~freed
    BY <1>3 DEF FlushPendingWrites
  <2>2. CASE closing = "no"
    <3>1. WriteToClient("queue")
      BY <1>3, <2>2 DEF FlushPendingWrites
    <3> QED
      BY <2>1, <3>1, WriteToClientKeeps
  <2>3. CASE closing # "no"
    <3>1. UNCHANGED <<outvars, async, ring, closing>>
      BY <1>3, <2>3 DEF FlushPendingWrites
    <3> QED
      BY <2>1, <3>1, SameMemory DEF outvars, MemInv
  <2> QED
    BY <2>2, <2>3
<1>4. CASE EpollOut
  <2>1. UNCHANGED <<bufcap, produced, freed>> /\ ~freed /\ WriteToClient("handler")
    BY <1>4 DEF EpollOut
  <2> QED
    BY <2>1, WriteToClientKeeps
<1>5. ASSUME NEW i \in DOMAIN ring, Completion(i) PROVE Memory'
  BY <1>5, CompletionKeeps
<1>6. CASE KillClient
  <2>1. /\ UNCHANGED <<outvars, bufcap, produced, ring, freed, async>>
        /\ closing' = "aborted"
    BY <1>6 DEF KillClient
  <2>2. Out' = Out
    BY <2>1 DEF Out, outvars
  <2> QED
    BY <2>1, <2>2 DEF MemInv, Memory
<1>7. CASE FreeClientsInAsyncFreeQueue
  BY <1>7, FreeKeeps
<1>8. CASE ResizeOutputBuffer
  BY <1>8, ResizeKeeps
<1>9. CASE ToggleEviction \/ ToggleIouring \/ PeerRead \/ UNCHANGED vars
  <2>1. UNCHANGED <<outvars, bufcap, produced, ring, lifevars, async>>
    BY <1>9 DEF ToggleEviction, ToggleIouring, PeerRead, vars
  <2> QED
    BY <2>1, SameMemory DEF outvars, lifevars, MemInv
<1>10. ASSUME NEW i \in DOMAIN ring, RingWrite(i) PROVE Memory'
  BY <1>10, RingWriteKeeps
<1>11. ASSUME NEW i \in DOMAIN ring, RingFail(i) PROVE Memory'
  BY <1>11, RingFailKeeps
<1> QED
  BY <1>2, <1>3, <1>4, <1>5, <1>6, <1>7, <1>8, <1>9, <1>10, <1>11 DEF Next

\* It holds initially.
LEMMA MemoryInit == Init => MemInv
<1> SUFFICES ASSUME Init PROVE MemInv
  OBVIOUS
<1>1. /\ buf = <<>> /\ reply = <<>> /\ sentlen = 0 /\ replyBytes = 0
      /\ async = FALSE /\ ring = <<>>
  BY DEF Init
<1>2. Out.buf = <<>> /\ Out.sentlen = 0 /\ Out.reply = <<>> /\ Out.bytes = 0
  BY <1>1 DEF Out
<1>3. OutOK(Out, produced) /\ ~HasPending(Out)
  BY <1>2, EmptyOutOK DEF HasPending
<1> QED
  BY <1>1, <1>3, FlightInit DEF MemInv, Memory

\* It holds throughout.
LEMMA MemoryAlways == Spec => []MemInv
<1>1. MemInv /\ [Next]_vars => MemInv'
  BY MemoryStep
<1> QED
  BY <1>1, MemoryInit, PTL DEF Spec

\* sentlen never leaves the object that it indexes and reply_bytes is exact, whatever
\* the ring reports and however submissions, fallbacks and completions alternate.
THEOREM OffsetsAlwaysConsistent == Spec => []OffsetsConsistent
<1>1. MemInv => OffsetsConsistent
  <2> SUFFICES ASSUME MemInv PROVE OffsetsConsistent
    OBVIOUS
  <2>1. OutOK(Out, produced)
    BY DEF MemInv, Memory
  <2>2. Out.buf = buf /\ Out.sentlen = sentlen /\ Out.reply = reply /\ Out.bytes = replyBytes
    BY DEF Out
  <2> QED
    BY <2>1, <2>2 DEF OutOK, OffsetsConsistent
<1> QED
  BY <1>1, MemoryAlways, PTL

\* A completion never accounts for more than the buffers hold, and is never of an
\* empty operation.
THEOREM AckAlwaysWithinReply == Spec => []AckWithinReply
<1>1. MemInv => AckWithinReply
  <2> SUFFICES ASSUME MemInv, NEW i \in DOMAIN ring
               PROVE  /\ ring[i].cells # <<>>
                      /\ ring[i].ret <= Len(Unsent(Out))
                      /\ ring[i].kind = "write" => ring[i].ret <= Len(buf) - sentlen
    BY DEF AckWithinReply
  <2> DEFINE op == ring[i]
  <2>1. i \in 1..Len(ring) /\ op \in Op /\ op.ret \in Nat
    BY RingEntry DEF MemInv, FlightInv
  <2>2. Describes(op, Out, bufcap)
    BY <2>1 DEF MemInv, Memory
  <2> HIDE DEF op
  <2>3. /\ Out \in OutType /\ OutOK(Out, produced)
        /\ Left(Out) \in Nat /\ Len(Unsent(Out)) = Left(Out) /\ InBuf(Out) \in Nat
    BY IdleFacts, OutParts, UnsentFacts
  <2>4. /\ Len(op.cells) \in 1..Left(Out) /\ op.ret <= Len(op.cells)
        /\ op.kind = "write" => Len(op.cells) <= InBuf(Out)
    BY <2>2 DEF Describes
  <2>5. Len(op.cells) \in Nat \ {0}
    BY <2>3, <2>4
  <2>6. op.cells # <<>> /\ op.ret <= Left(Out)
    BY <2>1, <2>3, <2>4, <2>5
  <2>7. ASSUME op.kind = "write" PROVE op.ret <= Len(buf) - sentlen
    <3>1. op.ret <= InBuf(Out) /\ 1 <= InBuf(Out)
      BY <2>1, <2>3, <2>4, <2>5, <2>7
    <3>2. InBuf(Out) # 0
      BY <2>3, <3>1
    <3>3. InBuf(Out) = Len(buf) - sentlen
      BY <3>2 DEF InBuf, Out
    <3> QED
      BY <3>1, <3>3
  <2> QED
    BY <2>3, <2>6, <2>7 DEF op
<1> QED
  BY <1>1, MemoryAlways, PTL

\* Until the ring executes an operation, its iovecs point at what is first to be sent:
\* replies are only appended, the buffer is not resized, and nothing is freed under it.
THEOREM CellsAlwaysStable == Spec => []StableCells
<1>1. MemInv => StableCells
  <2> SUFFICES ASSUME MemInv, NEW i \in DOMAIN ring, NEW j \in DOMAIN ring[i].cells
               PROVE  Load(ring[i].cells[j]) = Unsent(Out)[j]
    BY DEF StableCells
  <2> DEFINE op == ring[i]
  <2>1. i \in 1..Len(ring) /\ op \in Op
    BY RingEntry DEF MemInv, FlightInv
  <2>2. Describes(op, Out, bufcap)
    BY <2>1 DEF MemInv, Memory
  <2>3. j \in 1..Len(op.cells)
    <3>1. op.cells \in Seq({"buf", "block"} \X Nat \X Nat)
      BY <2>1 DEF Op
    <3> QED
      BY <3>1, LenProperties
  <2> HIDE DEF op
  <2>4. /\ Out \in OutType /\ OutOK(Out, produced) /\ Left(Out) \in Nat
        /\ \A k \in 1..Left(Out) : Unsent(Out)[k] = UnitAt(Out, k)
    BY IdleFacts, OutParts, UnsentFacts
  <2>5. op.cells[j] = CellAt(Out, bufcap, j) /\ j \in 1..Left(Out)
    <3>1. Len(op.cells) \in 1..Left(Out) /\ op.cells[j] = CellAt(Out, bufcap, j)
      BY <2>2, <2>3 DEF Describes
    <3> QED
      BY <2>3, <2>4, <3>1
  <2>6. Load(CellAt(Out, bufcap, j)) = UnitAt(Out, j)
    BY <2>4, <2>5, LoadFacts
  <2> QED
    BY <2>4, <2>5, <2>6 DEF op
<1> QED
  BY <1>1, MemoryAlways, PTL
-----------------------------------------------------------------------------
(* The path implements ReplyStream. *)

\* What is pending and where the connection stands, as the refinement maps them.
Pend == IF freed THEN <<>> ELSE Drop(Unsent(Out), IF ring = <<>> THEN 0 ELSE ring[1].ret)

StreamState ==
  IF closing = "aborted" THEN "aborted"
  ELSE IF closing = "drained" THEN "done"
  ELSE IF closeAfter THEN "last" ELSE "open"

\* A step that changes neither these nor the wire.
LEMMA StreamStutter ==
  ASSUME Pend' = Pend, wire' = wire, StreamState' = StreamState
  PROVE  UNCHANGED RS!rsvars
BY DEF RS!rsvars, Pend, StreamState

\* Dropping or taking nothing.
LEMMA DropNone ==
  ASSUME NEW s \in Seq(Nat)
  PROVE  Drop(s, 0) = s
BY SubSeqFull DEF Drop

\* Taking nothing adds nothing.
LEMMA TakeNone ==
  ASSUME NEW w \in Seq(Nat), NEW s
  PROVE  w \o SubSeq(s, 1, 0) = w
<1>1. SubSeq(s, 1, 0) = <<>>
  BY SubSeqEmpty
<1> QED
  BY <1>1, ConcatEmptySeq

\* The socket takes the first m pending units, none, some or all, and the connection
\* stays as it is, or ends: aborted, or drained when it was to close after its reply.
LEMMA StreamMoves ==
  ASSUME wire \in Seq(Nat), Pend \in Seq(Nat), NEW m \in 0..Len(Pend),
         wire' = wire \o SubSeq(Pend, 1, m), Pend' = Drop(Pend, m),
         closing \in {"no", "drained", "aborted"}, closeAfter \in BOOLEAN,
         closeAfter' = closeAfter,
         \/ closing' = closing
         \/ closing = "no" /\ closing' = "drained" /\ closeAfter /\ Pend' = <<>>
         \/ closing = "no" /\ closing' = "aborted"
  PROVE  [RS!Next]_RS!rsvars
<1>1. Pend' = SubSeq(Pend, m + 1, Len(Pend))
  BY DEF Drop
<1>2. CASE closing' = closing /\ m = 0
  <2>1. wire' = wire /\ Pend' = Pend
    BY <1>2, DropNone, TakeNone
  <2>2. StreamState' = StreamState
    BY <1>2 DEF StreamState
  <2> QED
    BY <2>1, <2>2, StreamStutter
<1>3. CASE closing' = closing /\ m # 0
  <2>1. m \in 1..Len(Pend)
    BY <1>3
  <2>2. StreamState' = StreamState
    BY <1>3 DEF StreamState
  <2>3. RS!Deliver
    BY <1>1, <2>1, <2>2 DEF RS!Deliver, Pend, StreamState
  <2> QED
    BY <2>3 DEF RS!Next
<1>4. CASE closing = "no" /\ closing' = "drained" /\ closeAfter /\ Pend' = <<>>
  <2>1. StreamState = "last" /\ StreamState' = "done"
    BY <1>4 DEF StreamState
  <2>2. RS!DeliverAndClose
    BY <1>1, <1>4, <2>1 DEF RS!DeliverAndClose, Pend, StreamState
  <2> QED
    BY <2>2 DEF RS!Next
<1>5. CASE closing = "no" /\ closing' = "aborted"
  <2>1. StreamState \in {"open", "last"} /\ StreamState' = "aborted"
    BY <1>5 DEF StreamState
  <2>2. RS!DeliverAndClose
    BY <1>1, <2>1 DEF RS!DeliverAndClose, Pend, StreamState
  <2> QED
    BY <2>2 DEF RS!Next
<1> QED
  BY <1>2, <1>3, <1>4, <1>5

\* What the mapping gives in a state that satisfies the invariant.
LEMMA PendFacts ==
  ASSUME MemInv
  PROVE  /\ Unsent(Out) \in Seq(Nat) /\ Len(Unsent(Out)) = Left(Out) /\ Left(Out) \in Nat
         /\ wire \in Seq(Nat) /\ closing \in {"no", "drained", "aborted"} /\ closeAfter \in BOOLEAN
         /\ ~freed /\ ring = <<>> => Pend = Unsent(Out)
         /\ ~freed /\ ring # <<>> => /\ async /\ ring[1].ret \in 0..Left(Out)
                                     /\ Pend = Drop(Unsent(Out), ring[1].ret)
         /\ freed => Pend = <<>>
<1>1. /\ Out \in OutType /\ OutOK(Out, produced)
      /\ wire \in Seq(Nat) /\ closing \in {"no", "drained", "aborted"}
  BY IdleFacts DEF MemInv, FlightInv, WriteVarsOK
<1>2. closeAfter \in BOOLEAN
  BY DEF MemInv, FlightInv, OtherVarsOK
<1>3. /\ Unsent(Out) \in Seq(Nat) /\ Len(Unsent(Out)) = Left(Out) /\ Left(Out) \in Nat
  BY <1>1, UnsentFacts, OutParts
<1>4. ~freed /\ ring = <<>> => Pend = Unsent(Out)
  BY <1>3, DropNone DEF Pend
<1>5. ASSUME ring # <<>> PROVE async /\ ring[1].ret \in 0..Left(Out)
  <2>1. async /\ 1 \in DOMAIN ring
    BY <1>5, RingHolds DEF MemInv
  <2> QED
    BY <2>1, DoneFacts
<1> QED
  BY <1>1, <1>2, <1>3, <1>4, <1>5 DEF Pend

\* A move of the loop, from output buffers whose unsent units are what is pending.
LEMMA MovesStream ==
  ASSUME MemInv, MemInv', ~freed, freed' = freed, closeAfter' = closeAfter,
         NEW o \in OutType, OutOK(o, produced), Moves(o), Pend = Unsent(o)
  PROVE  [RS!Next]_RS!rsvars
<1>1. PICK m \in 0..Left(o), p \in OutType :
        /\ Leaves(o, m, p, produced)
        /\ SetOut(p)
        /\ wire' = wire \o SubSeq(Unsent(o), 1, m)
        /\ \/ /\ HasPending(p) /\ async' = TRUE /\ ring' = <<NewOp(p)>>
              /\ closing' = closing
           \/ /\ ~HasPending(p) /\ async' = FALSE /\ ring' = <<>>
              /\ closing' = CloseWhenDrained
           \/ /\ HasPending(p) /\ async' = FALSE /\ ring' = <<>>
              /\ closing' \in {closing, FreeAsync("aborted")}
  BY DEF Moves
<1>2. /\ wire \in Seq(Nat) /\ closing \in {"no", "drained", "aborted"} /\ closeAfter \in BOOLEAN
  BY PendFacts
<1>3. Unsent(o) \in Seq(Nat) /\ Len(Unsent(o)) = Left(o)
  BY UnsentFacts
<1>4. p \in OutType /\ OutOK(p, produced) /\ Out' = p
  BY <1>1, OutAfter DEF Leaves
<1>5. Unsent(p) = Drop(Unsent(o), m)
  BY <1>1, UnsentAfter
<1>6. Unsent(p) \in Seq(Nat) /\ Len(Unsent(p)) = Left(p) /\ (HasPending(p) <=> Left(p) > 0)
  BY <1>4, UnsentFacts, OutParts
<1>7. Pend' = Drop(Unsent(Out'), IF ring' = <<>> THEN 0 ELSE ring'[1].ret)
  BY DEF Pend
<1>8. ring' = <<>> \/ ring' = <<NewOp(p)>>
  BY <1>1
<1>9. (IF ring' = <<>> THEN 0 ELSE ring'[1].ret) = 0
  <2>1. NewOp(p).ret = 0
    BY DEF NewOp
  <2> QED
    BY <1>8, <2>1
<1>10. Pend' = Unsent(p)
  BY <1>4, <1>6, <1>7, <1>9, DropNone
<1>11. ~HasPending(p) => Pend' = <<>>
  <2>1. ~HasPending(p) => Len(Unsent(p)) = 0
    <3>1. Left(p) \in Nat
      BY <1>4, OutParts
    <3> QED
      BY <1>6, <3>1
  <2> QED
    BY <1>6, <1>10, <2>1, EmptySeq
<1>12. \/ closing' = closing
       \/ closing = "no" /\ closing' = "drained" /\ closeAfter /\ Pend' = <<>>
       \/ closing = "no" /\ closing' = "aborted"
  BY <1>1, <1>2, <1>11 DEF CloseWhenDrained, FreeAsync
<1> QED
  BY <1>1, <1>2, <1>3, <1>5, <1>10, <1>12, StreamMoves

\* writeToClient() from the queue or the write handler.
LEMMA WriteToClientStream ==
  ASSUME MemInv, MemInv', ~freed, freed' = freed, closeAfter' = closeAfter,
         NEW caller, WriteToClient(caller)
  PROVE  [RS!Next]_RS!rsvars
<1>1. CASE UNCHANGED <<outvars, async, ring, wire, closing>>
  <2>1. Out' = Out
    BY <1>1 DEF Out, outvars
  <2>2. Pend' = Pend /\ StreamState' = StreamState
    BY <1>1, <2>1 DEF Pend, StreamState
  <2> QED
    BY <1>1, <2>2, StreamStutter
<1>2. CASE Moves(Out) /\ ring = <<>>
  <2>1. Pend = Unsent(Out)
    BY <1>2, PendFacts
  <2> QED
    BY <1>2, <2>1, IdleFacts, MovesStream
<1> QED
  BY <1>1, <1>2, WriteToClientMoves

\* A completion: its own units are already on the wire.
LEMMA CompletionStream ==
  ASSUME MemInv, MemInv', NEW i \in DOMAIN ring, Completion(i)
  PROVE  [RS!Next]_RS!rsvars
<1> DEFINE op == ring[i]
           p == Ack(op.kind, Out, op.ret)
<1>1. /\ i = 1 /\ ~freed /\ Out \in OutType /\ op.ret \in 0..Left(Out)
      /\ Leaves(Out, op.ret, p, produced)
  BY DoneFacts
<1>2. p \in OutType /\ OutOK(p, produced)
  BY <1>1 DEF Leaves
<1>3. Moves(p)
  BY CompletionMoves
<1>4. freed' = freed /\ closeAfter' = closeAfter
  BY DEF Completion
<1>5. ring # <<>>
  BY EmptySeq
<1>6. Pend = Drop(Unsent(Out), op.ret)
  BY <1>1, <1>5, PendFacts
<1>7. Unsent(p) = Drop(Unsent(Out), op.ret)
  BY <1>1, IdleFacts, UnsentAfter
<1> HIDE DEF p
<1> QED
  BY <1>1, <1>2, <1>3, <1>4, <1>6, <1>7, MovesStream

\* The first n entries.
LEMMA FirstPart ==
  ASSUME NEW s \in Seq(Nat), NEW n \in Nat, n <= Len(s)
  PROVE  SubSeq(s, 1, n) = [j \in 1..n |-> s[j]]
<1>1. 1 \in Int /\ n \in Int /\ Len(s) \in Nat
  BY LenProperties
<1>2. \A j \in 1..n : s[j] \in Nat
  BY <1>1, ElementOfSeq
<1>3. /\ SubSeq(s, 1, n) \in Seq(Nat)
      /\ Len(SubSeq(s, 1, n)) = IF 1 <= n THEN n - 1 + 1 ELSE 0
      /\ \A j \in 1..(n - 1 + 1) : SubSeq(s, 1, n)[j] = s[1 + j - 1]
  BY <1>1, <1>2, SubSeqProperties
<1>4. n - 1 + 1 = n /\ (IF 1 <= n THEN n - 1 + 1 ELSE 0) = n
      /\ \A j \in 1..n : 1 + j - 1 = j
  BY <1>1
<1>5. \A j \in 1..n : SubSeq(s, 1, n)[j] = s[j]
  BY <1>3, <1>4
<1>6. DOMAIN SubSeq(s, 1, n) = 1..n
  BY <1>3, <1>4, LenProperties
<1>7. SubSeq(s, 1, n) = [j \in 1..n |-> SubSeq(s, 1, n)[j]]
  BY <1>3, <1>6
<1> QED
  BY <1>5, <1>7

\* A sequence is a proper prefix of one with an entry behind it.
LEMMA PrefixByOne ==
  ASSUME NEW s \in Seq(Nat), NEW t \in Seq(Nat), Len(t) = Len(s) + 1,
         \A j \in 1..Len(s) : t[j] = s[j]
  PROVE  RS!IsStrictPrefix(s, t)
<1>1. Len(s) \in Nat /\ Len(s) <= Len(t) /\ Len(s) <= Len(s)
  BY LenProperties
<1>2. SubSeq(s, 1, Len(s)) = [j \in 1..Len(s) |-> s[j]]
  BY <1>1, FirstPart
<1>3. SubSeq(t, 1, Len(s)) = [j \in 1..Len(s) |-> t[j]]
  BY <1>1, FirstPart
<1>4. SubSeq(s, 1, Len(s)) = SubSeq(t, 1, Len(s))
  BY <1>2, <1>3
<1>5. s # t
  BY <1>1
<1> QED
  BY <1>1, <1>4, <1>5 DEF RS!IsStrictPrefix, RS!IsPrefix

\* Without the same first entries, it still is.
LEMMA DropGrows ==
  ASSUME NEW s \in Seq(Nat), NEW t \in Seq(Nat), NEW u, NEW k \in 0..Len(s), Longer(s, u, t)
  PROVE  /\ Drop(s, k) \in Seq(Nat) /\ Drop(t, k) \in Seq(Nat)
         /\ Longer(Drop(s, k), u, Drop(t, k))
<1> DEFINE n == Len(s)
<1>1. n \in Nat /\ k \in 0..Len(t) /\ k \in Nat /\ k <= n /\ Len(t) = n + 1
  BY LenProperties DEF Longer
<1>2. /\ Drop(s, k) \in Seq(Nat) /\ Len(Drop(s, k)) = n - k
      /\ \A j \in 1..(n - k) : Drop(s, k)[j] = s[k + j]
  BY DropFacts
<1>3. /\ Drop(t, k) \in Seq(Nat) /\ Len(Drop(t, k)) = Len(t) - k
      /\ \A j \in 1..(Len(t) - k) : Drop(t, k)[j] = t[k + j]
  BY <1>1, DropFacts
<1>4. (\A j \in 1..n : t[j] = s[j]) /\ t[n + 1] = u
  BY DEF Longer
<1> DEFINE a == Drop(s, k)
           b == Drop(t, k)
<1> HIDE DEF n, a, b
<1>5. Len(t) - k = n - k + 1 /\ k + (n - k + 1) = n + 1 /\ n - k + 1 \in 1..(n - k + 1)
  BY <1>1
<1>6. b[n - k + 1] = u
  BY <1>3, <1>4, <1>5 DEF b
<1>7. ASSUME NEW j \in 1..(n - k) PROVE b[j] = a[j]
  <2>1. k + j \in 1..n /\ j \in 1..(n - k + 1)
    BY <1>1
  <2> QED
    BY <1>2, <1>3, <1>4, <1>5, <2>1 DEF a, b
<1>8. Len(a) = n - k /\ Len(b) = Len(a) + 1
  BY <1>2, <1>3, <1>5 DEF a, b
<1>9. b # <<>>
  BY <1>1, <1>2, <1>8 DEF a
<1>10. /\ \A j \in 1..Len(a) : b[j] = a[j]
       /\ b[Len(a) + 1] = u
  BY <1>6, <1>7, <1>8
<1>11. Longer(a, u, b)
  BY <1>8, <1>9, <1>10 DEF Longer
<1> QED
  BY <1>2, <1>3, <1>11 DEF a, b

\* The ring executes an operation: what its addresses hold is what is pending.
LEMMA RingWriteStream ==
  ASSUME MemInv, MemInv', NEW i \in DOMAIN ring, RingWrite(i)
  PROVE  [RS!Next]_RS!rsvars
<1> DEFINE op == ring[i]
<1>1. async /\ i = 1 /\ ~freed /\ op \in Op
  BY DoneFacts
<1>2. ring \in Seq(Op) /\ DOMAIN ring = 1..Len(ring) /\ 1 \in 1..Len(ring) /\ ring # <<>>
  <2>1. ring \in Seq(Op) /\ 1 \in 1..Len(ring)
    BY <1>1, RingHolds DEF MemInv
  <2>2. ring # <<>>
    BY <2>1, EmptySeq
  <2> QED
    BY <2>1, <2>2, LenProperties
<1>3. Describes(op, Out, bufcap)
  BY <1>1, <1>2 DEF MemInv, Memory
<1>4. PICK n \in 1..Len(op.cells) :
        /\ wire' = wire \o [j \in 1..n |-> Load(op.cells[j])]
        /\ ring' = [ring EXCEPT ![i].st = "done", ![i].ret = n]
  BY DEF RingWrite
<1>5. op.st = "flight" /\ UNCHANGED <<outvars, lifevars>>
  BY DEF RingWrite
<1>6. Out' = Out /\ freed' = freed /\ closeAfter' = closeAfter /\ closing' = closing
  BY <1>5 DEF Out, outvars, lifevars
<1>7. op.ret = 0
  BY <1>3, <1>5 DEF Describes
<1>8. /\ Unsent(Out) \in Seq(Nat) /\ Len(Unsent(Out)) = Left(Out) /\ Left(Out) \in Nat
      /\ wire \in Seq(Nat) /\ closing \in {"no", "drained", "aborted"} /\ closeAfter \in BOOLEAN
      /\ Pend = Drop(Unsent(Out), op.ret)
  BY <1>1, <1>2, PendFacts
<1>9. Pend = Unsent(Out)
  BY <1>7, <1>8, DropNone
<1>10. n \in 0..Left(Out) /\ n \in Nat /\ n <= Len(op.cells)
  <2>1. Len(op.cells) \in 1..Left(Out)
    BY <1>3 DEF Describes
  <2> QED
    BY <1>8, <2>1
<1>11. ring'[1].ret = n /\ ring' # <<>>
  <2>1. DOMAIN ring' = 1..Len(ring) /\ ring'[1] = [op EXCEPT !.st = "done", !.ret = n]
    BY <1>1, <1>2, <1>4
  <2>2. ring'[1].ret = n
    BY <1>1, <2>1 DEF Op
  <2> QED
    BY <1>2, <2>1, <2>2, EmptySeq
<1>12. Pend' = Drop(Pend, n)
  BY <1>1, <1>6, <1>9, <1>11 DEF Pend
<1>13. ASSUME NEW j \in 1..n PROVE Load(op.cells[j]) = Unsent(Out)[j]
  <2>1. j \in 1..Len(op.cells) /\ j \in 1..Left(Out)
    BY <1>8, <1>10, <1>3 DEF Describes
  <2>2. op.cells[j] = CellAt(Out, bufcap, j)
    BY <1>3, <2>1 DEF Describes
  <2>3. Out \in OutType /\ OutOK(Out, produced)
    BY IdleFacts
  <2>4. Unsent(Out)[j] = UnitAt(Out, j)
    BY <2>1, <2>3, UnsentFacts
  <2> QED
    BY <2>1, <2>2, <2>3, <2>4, LoadFacts
<1>14. [j \in 1..n |-> Load(op.cells[j])] = SubSeq(Pend, 1, n)
  <2>1. [j \in 1..n |-> Load(op.cells[j])] = [j \in 1..n |-> Pend[j]]
    BY <1>9, <1>13
  <2>2. SubSeq(Pend, 1, n) = [j \in 1..n |-> Pend[j]]
    <3> DEFINE s == Pend
    <3>1. s \in Seq(Nat) /\ n \in Nat /\ n <= Len(s) /\ Len(s) \in Nat
      BY <1>8, <1>9, <1>10
    <3> HIDE DEF s
    <3>2. SubSeq(s, 1, n) = [j \in 1..n |-> s[j]]
      BY <3>1, FirstPart
    <3> QED
      BY <3>2 DEF s
  <2> QED
    BY <2>1, <2>2
<1>15. wire' = wire \o SubSeq(Pend, 1, n) /\ n \in 0..Len(Pend) /\ Pend \in Seq(Nat)
  BY <1>4, <1>8, <1>9, <1>10, <1>14
<1> QED
  BY <1>6, <1>8, <1>12, <1>15, StreamMoves

\* A reply that is added is pending behind all others.
LEMMA AddReplyStream ==
  ASSUME MemInv, MemInv', NEW last \in BOOLEAN, AddReply(last)
  PROVE  RS!Next
<1> DEFINE k == IF ring = <<>> THEN 0 ELSE ring[1].ret
           u == produced + 1
           s == Unsent(Out)
           t == Unsent(Out')
<1>1. /\ ~freed /\ freed' = freed /\ ring' = ring /\ wire' = wire
      /\ closing = "no" /\ closing' = closing /\ ~closeAfter /\ closeAfter' = last
      /\ produced < MaxUnits
  BY DEF AddReply, sockvars
<1>2. /\ s \in Seq(Nat) /\ Len(s) = Left(Out) /\ Left(Out) \in Nat
      /\ k \in 0..Left(Out) /\ Pend = Drop(s, k)
  <2>1. 0 \in 0..Left(Out) /\ Pend = Drop(s, k)
    BY <1>1, PendFacts DEF Pend
  <2> QED
    BY <1>1, <2>1, PendFacts
<1>3. Pend' = Drop(t, k)
  BY <1>1 DEF Pend
<1>4. OneMore(Out, u, Out')
  BY AddReplyGrows DEF MemInv, FlightInv
<1>5. /\ t \in Seq(Nat) /\ Len(t) = Left(Out')
      /\ \A j \in 1..Left(Out') : t[j] = UnitAt(Out', j)
  <2>1. Out' \in OutType /\ OutOK(Out', produced')
    BY DEF MemInv, FlightInv, Memory, WriteVarsOK, Out, OutType
  <2> QED
    BY <2>1, UnsentFacts
<1>6. \A j \in 1..Left(Out) : s[j] = UnitAt(Out, j)
  BY IdleFacts, UnsentFacts
<1>7. /\ Len(t) = Len(s) + 1
      /\ \A j \in 1..Len(s) : t[j] = s[j]
      /\ t[Len(s) + 1] = u
  <2> DEFINE n == Left(Out)
  <2>1. n \in Nat /\ Left(Out') = n + 1 /\ Len(s) = n /\ Len(t) = n + 1
    BY <1>2, <1>4, <1>5 DEF OneMore
  <2>2. /\ \A j \in 1..n : UnitAt(Out', j) = UnitAt(Out, j)
        /\ UnitAt(Out', n + 1) = u
    BY <1>4 DEF OneMore
  <2>3. \A j \in 1..(n + 1) : t[j] = UnitAt(Out', j)
    BY <1>5, <2>1
  <2>4. \A j \in 1..n : s[j] = UnitAt(Out, j)
    BY <1>6
  <2> HIDE DEF n, s, t, u
  <2>5. n + 1 \in 1..(n + 1) /\ \A j \in 1..n : j \in 1..(n + 1)
    BY <2>1
  <2> QED
    BY <2>1, <2>2, <2>3, <2>4, <2>5
<1>8. produced \in Nat /\ u \in 1..MaxUnits
  <2>1. produced \in Nat
    BY DEF MemInv, FlightInv, OtherVarsOK
  <2> QED
    BY <1>1, <2>1, ConstantsAssumption
<1> HIDE DEF k, s, t, u
<1>9. /\ Pend \in Seq(Nat) /\ Pend' \in Seq(Nat) /\ Len(Pend') = Len(Pend) + 1
      /\ \A j \in 1..Len(Pend) : Pend'[j] = Pend[j]
      /\ Pend'[Len(Pend) + 1] = u
  <2>1. s \in Seq(Nat) /\ t \in Seq(Nat) /\ k \in 0..Len(s)
    BY <1>2, <1>5
  <2>2. t # <<>>
    BY <1>2, <1>5, <1>7
  <2>3. Longer(s, u, t)
    BY <1>7, <2>2 DEF Longer
  <2>4. /\ Drop(s, k) \in Seq(Nat) /\ Drop(t, k) \in Seq(Nat)
        /\ Longer(Drop(s, k), u, Drop(t, k))
    BY <2>1, <2>3, DropGrows
  <2> QED
    BY <1>2, <1>3, <2>4 DEF Longer
<1>10. RS!IsStrictPrefix(Pend, Pend')
  BY <1>9, PrefixByOne
<1>11. \A j \in (Len(Pend) + 1)..Len(Pend') : Pend'[j] \in 1..MaxUnits
  <2> TAKE j \in (Len(Pend) + 1)..Len(Pend')
  <2>1. j = Len(Pend) + 1
    BY <1>9, LenProperties
  <2> QED
    BY <1>8, <1>9, <2>1
<1>12. StreamState = "open" /\ StreamState' \in {"open", "last"}
  BY <1>1 DEF StreamState
<1>13. RS!Produce
  BY <1>1, <1>10, <1>11, <1>12 DEF RS!Produce, Pend, StreamState
<1> QED
  BY <1>13 DEF RS!Next

\* Every step of the path is a step of the stream, or leaves it alone.
LEMMA StreamStep ==
  ASSUME MemInv, [Next]_vars
  PROVE  [RS!Next]_RS!rsvars
<1>1. MemInv'
  BY MemoryStep
<1>2. ASSUME NEW last \in BOOLEAN, AddReply(last) PROVE RS!Next
  BY <1>1, <1>2, AddReplyStream
<1>3. CASE FlushPendingWrites
  <2>1. freed' = freed /\ ~freed /\ closeAfter' = closeAfter
    BY <1>3 DEF FlushPendingWrites
  <2>2. CASE closing = "no"
    <3>1. WriteToClient("queue")
      BY <1>3, <2>2 DEF FlushPendingWrites
    <3> QED
      BY <1>1, <2>1, <3>1, WriteToClientStream
  <2>3. CASE closing # "no"
    <3>1. UNCHANGED <<outvars, ring, wire, closing>>
      BY <1>3, <2>3 DEF FlushPendingWrites
    <3>2. Out' = Out
      BY <3>1 DEF Out, outvars
    <3>3. Pend' = Pend /\ wire' = wire /\ StreamState' = StreamState
      BY <2>1, <3>1, <3>2 DEF Pend, StreamState
    <3> QED
      BY <3>3, StreamStutter
  <2> QED
    BY <2>2, <2>3
<1>4. CASE EpollOut
  <2>1. freed' = freed /\ ~freed /\ closeAfter' = closeAfter /\ WriteToClient("handler")
    BY <1>4 DEF EpollOut
  <2> QED
    BY <1>1, <2>1, WriteToClientStream
<1>5. ASSUME NEW i \in DOMAIN ring, Completion(i) PROVE [RS!Next]_RS!rsvars
  BY <1>1, <1>5, CompletionStream
<1>6. CASE KillClient
  <2>1. /\ UNCHANGED <<outvars, ring, freed, wire, closeAfter>>
        /\ closing = "no" /\ closing' = "aborted" /\ ~freed
    BY <1>6 DEF KillClient, sockvars
  <2>2. Out' = Out
    BY <2>1 DEF Out, outvars
  <2>3. Pend' = Pend
    BY <2>1, <2>2 DEF Pend
  <2>4. wire \in Seq(Nat) /\ Pend \in Seq(Nat) /\ closeAfter \in BOOLEAN
    <3>1. /\ wire \in Seq(Nat) /\ closeAfter \in BOOLEAN
          /\ Unsent(Out) \in Seq(Nat) /\ Len(Unsent(Out)) = Left(Out)
          /\ ring = <<>> => Pend = Unsent(Out)
          /\ ring # <<>> => ring[1].ret \in 0..Left(Out) /\ Pend = Drop(Unsent(Out), ring[1].ret)
      BY <2>1, PendFacts
    <3>2. \A n \in 0..Len(Unsent(Out)) : Drop(Unsent(Out), n) \in Seq(Nat)
      BY <3>1, DropFacts
    <3> QED
      BY <3>1, <3>2
  <2>5. /\ wire' = wire \o SubSeq(Pend, 1, 0) /\ Pend' = Drop(Pend, 0)
        /\ 0 \in 0..Len(Pend)
    BY <2>1, <2>3, <2>4, TakeNone, DropNone, LenProperties
  <2> QED
    BY <2>1, <2>4, <2>5, StreamMoves
<1>7. CASE FreeClientsInAsyncFreeQueue
  <2>1. /\ ~freed /\ freed' = TRUE /\ closing # "no" /\ closing' = closing
        /\ closeAfter' = closeAfter /\ wire' = wire
    BY <1>7 DEF FreeClientsInAsyncFreeQueue, sockvars
  <2>2. Pend' = <<>> /\ StreamState' = StreamState
    BY <2>1 DEF Pend, StreamState
  <2>3. CASE closing = "aborted"
    <3>1. StreamState = "aborted"
      BY <2>3 DEF StreamState
    <3>2. RS!Discard
      BY <2>1, <2>2, <3>1 DEF RS!Discard, Pend, StreamState
    <3> QED
      BY <3>2 DEF RS!Next
  <2>4. CASE closing = "drained"
    <3>1. ~HasPending(Out) /\ Out \in OutType /\ OutOK(Out, produced)
      BY <2>4, IdleFacts
    <3>2. Left(Out) = 0
      BY <3>1, OutParts
    <3>3. Unsent(Out) = <<>>
      BY <3>2, PendFacts, EmptySeq
    <3>4. ring = <<>>
      BY <3>1, IdleFacts DEF MemInv, FlightInv, FlightHasPending
    <3>5. Pend = <<>>
      BY <2>1, <3>3, <3>4, PendFacts
    <3> QED
      BY <2>1, <2>2, <3>5, StreamStutter
  <2> QED
    BY <2>1, <2>3, <2>4, PendFacts
<1>8. CASE ResizeOutputBuffer \/ ToggleEviction \/ ToggleIouring \/ PeerRead \/ UNCHANGED vars
  <2>1. UNCHANGED <<outvars, ring, lifevars, wire>>
    BY <1>8 DEF ResizeOutputBuffer, ToggleEviction, ToggleIouring, PeerRead, vars, sockvars
  <2>2. Out' = Out
    BY <2>1 DEF Out, outvars
  <2>3. Pend' = Pend /\ wire' = wire /\ StreamState' = StreamState
    BY <2>1, <2>2 DEF Pend, StreamState, lifevars
  <2> QED
    BY <2>3, StreamStutter
<1>9. ASSUME NEW i \in DOMAIN ring, RingWrite(i) PROVE [RS!Next]_RS!rsvars
  BY <1>1, <1>9, RingWriteStream
<1>10. ASSUME NEW i \in DOMAIN ring, RingFail(i) PROVE [RS!Next]_RS!rsvars
  <2>1. PICK e \in {"EAGAIN", "EINTR", "EPIPE"} :
          ring' = [ring EXCEPT ![i].st = "done", ![i].err = e]
    BY <1>10 DEF RingFail
  <2>2. UNCHANGED <<outvars, lifevars, wire>>
    BY <1>10 DEF RingFail, sockvars
  <2>3. i = 1 /\ ring[i] \in Op
    BY DoneFacts
  <2>4. ring \in Seq(Op) /\ ring # <<>> /\ DOMAIN ring' = DOMAIN ring
    BY <2>1, RingHolds, EmptySeq DEF MemInv
  <2>5. ring'[1] = [ring[1] EXCEPT !.st = "done", !.err = e]
    BY <2>1, <2>3
  <2>6. ring'[1].ret = ring[1].ret
    BY <2>3, <2>5 DEF Op
  <2>7. ring' # <<>>
    BY <2>3, <2>4
  <2>8. Out' = Out
    BY <2>2 DEF Out, outvars
  <2>9. Pend' = Pend /\ wire' = wire /\ StreamState' = StreamState
    BY <2>2, <2>4, <2>6, <2>7, <2>8 DEF Pend, StreamState, lifevars
  <2> QED
    BY <2>9, StreamStutter
<1> QED
  BY <1>2, <1>3, <1>4, <1>5, <1>6, <1>7, <1>8, <1>9, <1>10 DEF Next

\* Initially nothing is pending or delivered.
LEMMA StreamInit == Init => RS!Init
<1> SUFFICES ASSUME Init PROVE RS!Init
  OBVIOUS
<1>1. ~freed /\ ring = <<>> /\ wire = <<>> /\ closing = "no" /\ ~closeAfter
  BY DEF Init
<1>2. MemInv
  BY MemoryInit
<1>3. Pend = Unsent(Out)
  BY <1>1, <1>2, PendFacts
<1>4. Out \in OutType /\ OutOK(Out, produced) /\ ~HasPending(Out)
  BY <1>2, IdleFacts DEF Init, HasPending, Out
<1>5. Left(Out) = 0
  BY <1>4, OutParts
<1>6. Unsent(Out) = <<>>
  BY <1>2, <1>5, PendFacts, EmptySeq
<1> QED
  BY <1>1, <1>3, <1>6 DEF RS!Init, Pend

\* The asynchronous path, its synchronous fallback and their accounting together move
\* every unit to the socket once and in order; only an aborted client loses any.
THEOREM StreamAlwaysInOrder == Spec => StreamInOrder
<1>1. MemInv /\ [Next]_vars => [RS!Next]_RS!rsvars
  BY StreamStep
<1> QED
  BY <1>1, StreamInit, MemoryAlways, PTL DEF Spec, StreamInOrder, RS!Spec
=============================================================================

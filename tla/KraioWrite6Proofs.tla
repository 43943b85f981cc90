-------------------------- MODULE KraioWrite6Proofs --------------------------
(***************************************************************************)
(* The reply path of the 6.0 patches has no guard where it submits, and    *)
(* accounts a completion against whatever object is next by then.  Why it  *)
(* works all the same: a client is queued only while it has nothing        *)
(* pending, and output added while a block is in flight goes behind it.    *)
(***************************************************************************)
EXTENDS KraioWrite6, ReplyRuns

Cell == ({"buf", "block"} \X Nat) \X Nat
OutState == [buf : Seq(Nat), sentlen : Nat, reply : Seq(Seq(Nat))]

\* An output state whose blocks have units, and whose offset is inside the next object.
Sound(o) ==
  /\ o \in OutState
  /\ \A i \in DOMAIN o.reply : o.reply[i] # <<>>
  /\ HasPending(o) => o.sentlen < Len(Object(o))
  /\ ~HasPending(o) => o.sentlen = 0

\* op is an operation for the object that is next in o, from its first unsent unit on.
Covers(op, o) ==
  /\ HasPending(o)
  /\ op.cells # <<>> /\ op.cells[1] = Cells(o)[1]
  /\ Len(op.cells) <= Len(Object(o)) - o.sentlen
  /\ op.ret <= Len(op.cells)

\* The inductive invariant: the operation in flight covers what is next, and a client with
\* CLIENT_ASYNC has output, and is neither queued nor freed: also one whose refusal was
\* missed, so that nothing is submitted for it any more.  The write handler is never
\* installed.
Flight6Inv ==
  /\ TypeOK /\ Sound(Out) /\ OneInFlight /\ ~handler
  /\ async => ~queued /\ ~freed /\ HasPending(Out)
  /\ ring # <<>> => refused # "missed" /\ Covers(ring[1], Out)

\* The object that is next is a sequence of at least one unit.
LEMMA ObjectFacts ==
  ASSUME NEW o, Sound(o), HasPending(o)
  PROVE  /\ Object(o) \in Seq(Nat) /\ Len(Object(o)) \in Nat
         /\ o.sentlen \in Nat /\ o.sentlen < Len(Object(o))
         /\ o.buf = <<>> => o.reply # <<>> /\ Object(o) = o.reply[1] /\ 1 \in DOMAIN o.reply
<1>1. o \in OutState
  BY DEF Sound
<1>2. CASE o.buf # <<>>
  BY <1>1, <1>2 DEF Sound, Object, OutState
<1>3. CASE o.buf = <<>>
  <2>1. o.reply # <<>> /\ o.reply \in Seq(Seq(Nat))
    BY <1>1, <1>3 DEF HasPending, OutState
  <2>2. Head(o.reply) = o.reply[1] /\ 1 \in DOMAIN o.reply /\ o.reply[1] \in Seq(Nat)
    BY <2>1
  <2> QED
    BY <1>1, <1>3, <2>1, <2>2 DEF Sound, Object, OutState
<1> QED
  BY <1>2, <1>3

\* A submission covers the object it is made for.
LEMMA NewOpCovers ==
  ASSUME NEW o, Sound(o), HasPending(o)
  PROVE  NewOp(o) \in Op /\ Covers(NewOp(o), o)
<1> DEFINE n == Len(Object(o)) - o.sentlen
           name == IF o.buf # <<>> THEN <<"buf", 0>> ELSE <<"block", Object(o)[1]>>
<1>1. n \in Nat /\ n >= 1 /\ o.sentlen \in Nat /\ Object(o)[1] \in Nat
  BY ObjectFacts
<1>2. name \in {"buf", "block"} \X Nat
  BY <1>1
<1>3. Cells(o) = [i \in 1..n |-> <<name, o.sentlen + i>>]
  BY DEF Cells
<1>4. Cells(o) \in Seq(Cell) /\ Len(Cells(o)) = n
  <2> HIDE DEF name, n
  <2>1. \A i \in 1..n : <<name, o.sentlen + i>> \in Cell
    BY <1>1, <1>2 DEF Cell
  <2> QED
    BY <1>1, <1>3, <2>1
<1> HIDE DEF n
<1>5. Cells(o) # <<>>
  BY <1>1, <1>4
<1>6. NewOp(o) \in Op
  BY <1>4 DEF NewOp, Op, Cell
<1> QED
  BY <1>1, <1>4, <1>5, <1>6 DEF NewOp, Covers, n

\* Accounting for part of the object that is next leaves a sound state.
LEMMA AckSound ==
  ASSUME NEW o, Sound(o), HasPending(o), NEW n \in Nat, n >= 1, n <= Len(Object(o)) - o.sentlen
  PROVE  Sound(Ack(o, n))
<1>1. /\ Object(o) \in Seq(Nat) /\ Len(Object(o)) \in Nat /\ o.sentlen \in Nat
      /\ o \in OutState
  BY ObjectFacts DEF Sound
<1>2. CASE o.sentlen + n # Len(Object(o))
  <2> DEFINE p == [o EXCEPT !.sentlen = @ + n]
  <2>1. p \in OutState /\ p.buf = o.buf /\ p.reply = o.reply /\ p.sentlen = o.sentlen + n
    <3>1. p = [buf |-> o.buf, sentlen |-> o.sentlen + n, reply |-> o.reply]
      BY <1>1 DEF OutState
    <3>2. o.buf \in Seq(Nat) /\ o.sentlen + n \in Nat /\ o.reply \in Seq(Seq(Nat))
      BY <1>1 DEF OutState
    <3> HIDE DEF p
    <3> QED
      BY <3>1, <3>2 DEF OutState
  <2>2. Ack(o, n) = p
    BY <1>2 DEF Ack
  <2> HIDE DEF p
  <2>3. Object(p) = Object(o) /\ HasPending(p)
    BY <2>1 DEF Object, HasPending
  <2> QED
    BY <1>1, <1>2, <2>1, <2>2, <2>3 DEF Sound
<1>3. CASE o.sentlen + n = Len(Object(o)) /\ o.buf # <<>>
  <2> DEFINE p == [o EXCEPT !.buf = <<>>, !.sentlen = 0]
  <2>1. p \in OutState /\ p.buf = <<>> /\ p.reply = o.reply /\ p.sentlen = 0
    <3>1. <<>> \in Seq(Nat) /\ o.reply \in Seq(Seq(Nat))
      BY <1>1 DEF OutState
    <3>2. p \in OutState
      BY <1>1, <3>1 DEF OutState
    <3>3. p.buf = <<>> /\ p.reply = o.reply /\ p.sentlen = 0
      BY <1>1 DEF OutState
    <3> QED
      BY <3>2, <3>3
  <2>2. Ack(o, n) = p
    BY <1>3 DEF Ack
  <2> HIDE DEF p
  <2>3. ASSUME HasPending(p) PROVE Len(Object(p)) > 0
    <3>1. p.reply # <<>> /\ Object(p) = Head(p.reply) /\ p.reply \in Seq(Seq(Nat))
      BY <2>1, <2>3 DEF HasPending, Object, OutState
    <3>2. Head(p.reply) = p.reply[1] /\ 1 \in DOMAIN p.reply /\ p.reply[1] \in Seq(Nat)
      BY <3>1
    <3> QED
      BY <2>1, <3>1, <3>2 DEF Sound
  <2> QED
    BY <2>1, <2>2, <2>3 DEF Sound
<1>4. CASE o.sentlen + n = Len(Object(o)) /\ o.buf = <<>>
  <2> DEFINE p == [o EXCEPT !.reply = Tail(@), !.sentlen = 0]
  <2>1. o.reply # <<>> /\ o.reply \in Seq(Seq(Nat))
    BY <1>1, <1>4 DEF HasPending, OutState
  <2>2. /\ Tail(o.reply) \in Seq(Seq(Nat))
        /\ \A i \in DOMAIN Tail(o.reply) : Tail(o.reply)[i] = o.reply[i + 1]
                                           /\ i + 1 \in DOMAIN o.reply
    BY <2>1
  <2>3. p \in OutState /\ p.buf = <<>> /\ p.reply = Tail(o.reply) /\ p.sentlen = 0
    BY <1>1, <1>4, <2>2 DEF OutState
  <2>4. Ack(o, n) = p
    BY <1>4 DEF Ack
  <2> HIDE DEF p
  <2>5. \A i \in DOMAIN p.reply : p.reply[i] # <<>>
    BY <2>2, <2>3 DEF Sound
  <2>6. ASSUME HasPending(p) PROVE Len(Object(p)) > 0
    <3>1. p.reply # <<>> /\ Object(p) = Head(p.reply) /\ p.reply \in Seq(Seq(Nat))
      BY <2>3, <2>6 DEF HasPending, Object, OutState
    <3>2. Head(p.reply) = p.reply[1] /\ 1 \in DOMAIN p.reply /\ p.reply[1] \in Seq(Nat)
      BY <3>1
    <3> QED
      BY <2>5, <3>1, <3>2
  <2> QED
    BY <2>3, <2>4, <2>5, <2>6 DEF Sound
<1> QED
  BY <1>2, <1>3, <1>4

\* What the next write will be made for, and where it begins, depends on no variable but
\* the output state; Out as a state of its own.
LEMMA OutFacts ==
  ASSUME TypeOK
  PROVE  /\ Out \in OutState
         /\ Out.buf = buf /\ Out.sentlen = sentlen /\ Out.reply = reply
  BY DEF TypeOK, Out, OutState

\* Compared as a size_t, a negative answer counts as an acceptance.
LEMMA AcceptedIff ==
  ASSUME NEW n \in Results
  PROVE  Accepted(n) <=> n # 0
<1> DEFINE m == SizeMax + 1
<1>1. m \in Nat /\ m >= 4 /\ SizeMax \in Nat
  BY SizeMaxAssumption
<1>2. 1 % m = 1 /\ 0 % m = 0 /\ (-1) % m = SizeMax
  BY <1>1
<1>3. SizeT(1) = 1 /\ SizeT(0) = 0 /\ SizeT(-1) = SizeMax /\ SizeMax > 0
  BY <1>1, <1>2 DEF SizeT
<1> QED
  BY <1>3 DEF Accepted, TakenUnsigned, Results

\* writeToClient() with nothing in the ring: at most one operation then, for what is next,
\* and CLIENT_ASYNC set without one only if a refusal was missed.
LEMMA WriteToClientFacts ==
  ASSUME NEW o, Sound(o), NEW n \in Results, WriteToClient(o, <<>>, FALSE, n),
         refused \in {"no", "seen"}
  PROVE  /\ ring' \in Seq(Op) /\ async' \in BOOLEAN /\ refused' \in {"no", "seen", "missed"}
         /\ Len(ring') <= 1
         /\ async' <=> ring' # <<>> \/ refused' = "missed"
         /\ async' => HasPending(o)
         /\ ring' # <<>> => refused' # "missed" /\ Covers(ring'[1], o)
         /\ HasPending(o) /\ Accepted(n) => async'
<1>1. CASE async' = FALSE /\ ring' = <<>> /\ refused' \in {"no", "seen"}
           /\ ~ (HasPending(o) /\ Accepted(n))
  <2>1. ring' \in Seq(Op) /\ Len(ring') <= 1 /\ ~(ring' # <<>>)
    BY <1>1
  <2>2. ~async' /\ async' \in BOOLEAN /\ refused' # "missed"
        /\ refused' \in {"no", "seen", "missed"}
    BY <1>1
  <2>3. async' <=> ring' # <<>> \/ refused' = "missed"
    BY <2>1, <2>2
  <2> QED
    BY <1>1, <2>1, <2>2, <2>3
<1>2. CASE HasPending(o) /\ async' = TRUE /\ ring' = <<>> /\ refused' = "missed"
  <2>1. ring' \in Seq(Op) /\ Len(ring') = 0
    BY <1>2
  <2> QED
    BY <1>2, <2>1
<1>3. CASE HasPending(o) /\ async' = TRUE /\ ring' = Append(<<>>, NewOp(o))
           /\ refused' = refused
  <2>1. NewOp(o) \in Op /\ Covers(NewOp(o), o)
    BY <1>3, NewOpCovers
  <2>2. ring' = <<NewOp(o)>>
    BY <1>3
  <2>3. ring' \in Seq(Op) /\ Len(ring') = 1 /\ ring'[1] = NewOp(o) /\ ring' # <<>>
    BY <2>1, <2>2
  <2> QED
    BY <1>3, <2>1, <2>3
<1> QED
  BY <1>1, <1>2, <1>3 DEF WriteToClient, FlagSet

\* At most one operation: what is in the ring is at its first place, and nothing is left
\* when it is taken out.
LEMMA OnlyOne ==
  ASSUME Flight6Inv, NEW i \in DOMAIN ring
  PROVE  /\ i = 1 /\ async /\ ring # <<>> /\ ring[1] \in Op /\ Len(ring) = 1
         /\ ~queued /\ ~freed
         /\ SubSeq(ring, 1, i - 1) \o SubSeq(ring, i + 1, Len(ring)) = <<>>
<1>1. ring \in Seq(Op) /\ Len(ring) <= 1 /\ ring # <<>>
  BY DEF Flight6Inv, TypeOK, OneInFlight
<1>2. i = 1 /\ ring[1] \in Op /\ Len(ring) = 1
  <2>1. DOMAIN ring = 1..Len(ring) /\ Len(ring) \in Nat
    BY <1>1
  <2>2. i = 1 /\ Len(ring) = 1
    BY <1>1, <2>1
  <2> QED
    BY <1>1, <2>1, <2>2
<1>3. async /\ ~queued /\ ~freed
  BY <1>1 DEF Flight6Inv, OneInFlight
<1>4. SubSeq(ring, 1, 0) = <<>> /\ SubSeq(ring, 2, 1) = <<>>
  BY <1>1
<1> QED
  BY <1>1, <1>2, <1>3, <1>4

\* The beginning: nothing to send.
LEMMA Flight6Init == Init => Flight6Inv
<1> SUFFICES ASSUME Init PROVE Flight6Inv
  OBVIOUS
<1>1. TypeOK
  <2>1. buf \in Seq(Nat) /\ reply \in Seq(Seq(Nat)) /\ ring \in Seq(Op) /\ wire \in Seq(Nat)
    BY DEF Init
  <2>2. {async, queued, handler, closeAfter, freed} \subseteq BOOLEAN
        /\ refused \in {"no", "seen", "missed"}
    BY DEF Init
  <2>3. sentlen \in Nat /\ {peerRead, errors, produced} \subseteq Nat
        /\ closing \in {"no", "drained", "aborted"}
    BY DEF Init
  <2> QED
    BY <2>1, <2>2, <2>3 DEF TypeOK
<1>2. Out = [buf |-> <<>>, sentlen |-> 0, reply |-> <<>>]
  BY DEF Init, Out
<1>3. Sound(Out)
  BY <1>1, <1>2, OutFacts DEF Sound, HasPending
<1>4. ring = <<>> /\ Len(ring) = 0 /\ ~async /\ refused = "no" /\ ~handler
  BY DEF Init
<1> QED
  BY <1>1, <1>3, <1>4 DEF Flight6Inv, OneInFlight


\* An output state in which the object that is next is the same one, perhaps with more
\* units at its end: it is sound, and covered by what covered it before.
LEMMA GrownSound ==
  ASSUME NEW o, Sound(o), NEW q \in OutState, \A i \in DOMAIN q.reply : q.reply[i] # <<>>,
         HasPending(q), q.sentlen = o.sentlen,
         HasPending(o) => /\ Len(Object(q)) >= Len(Object(o))
                          /\ o.buf = <<>> <=> q.buf = <<>>
                          /\ o.buf = <<>> => Object(q)[1] = Object(o)[1]
  PROVE  Sound(q) /\ \A op : Covers(op, o) => Covers(op, q)
<1>1. Object(q) \in Seq(Nat) /\ Len(Object(q)) > 0
  <2>1. CASE q.buf # <<>>
    BY <2>1 DEF Object, OutState
  <2>2. CASE q.buf = <<>>
    <3>1. q.reply # <<>> /\ q.reply \in Seq(Seq(Nat)) /\ Object(q) = Head(q.reply)
      BY <2>2 DEF HasPending, OutState, Object
    <3>2. Head(q.reply) = q.reply[1] /\ 1 \in DOMAIN q.reply /\ q.reply[1] \in Seq(Nat)
      BY <3>1
    <3> QED
      BY <3>1, <3>2
  <2> QED
    BY <2>1, <2>2
<1>2. CASE ~HasPending(o)
  <2>1. o.sentlen = 0
    BY <1>2 DEF Sound
  <2>2. Sound(q)
    BY <1>1, <2>1 DEF Sound
  <2> QED
    BY <1>2, <2>2 DEF Covers
<1>3. CASE HasPending(o)
  <2>1. /\ Object(o) \in Seq(Nat) /\ Len(Object(o)) \in Nat /\ o.sentlen \in Nat
        /\ o.sentlen < Len(Object(o))
    BY <1>3, ObjectFacts
  <2>2. Len(Object(q)) \in Nat /\ o.sentlen < Len(Object(q))
    BY <1>1, <1>3, <2>1
  <2>3. Sound(q)
    BY <2>2 DEF Sound
  <2>4. Cells(o)[1] = Cells(q)[1]
    <3>1. 1 \in 1..(Len(Object(o)) - o.sentlen) /\ 1 \in 1..(Len(Object(q)) - q.sentlen)
      BY <2>1, <2>2
    <3> QED
      BY <1>3, <3>1 DEF Cells
  <2>5. ASSUME NEW op, Covers(op, o) PROVE Covers(op, q)
    <3>1. Len(op.cells) <= Len(Object(o)) - o.sentlen /\ Len(Object(o)) <= Len(Object(q))
      BY <1>3, <2>5 DEF Covers
    <3> QED
      BY <1>3, <2>1, <2>2, <2>4, <2>5, <3>1 DEF Covers
  <2> QED
    BY <2>3, <2>5
<1> QED
  BY <1>2, <1>3

\* Output is added behind what there is.
LEMMA AddReplyKeeps ==
  ASSUME Flight6Inv, NEW last \in BOOLEAN, AddReply(last)
  PROVE  Flight6Inv'
<1> DEFINE u == produced + 1
           tail == reply[Len(reply)]
<1>1. /\ Out \in OutState /\ Out.buf = buf /\ Out.sentlen = sentlen /\ Out.reply = reply
      /\ Sound(Out) /\ \A i \in DOMAIN reply : reply[i] # <<>>
  BY OutFacts DEF Flight6Inv, Sound
<1>2. buf \in Seq(Nat) /\ reply \in Seq(Seq(Nat)) /\ sentlen \in Nat /\ u \in Nat
      /\ produced \in Nat
  BY DEF Flight6Inv, TypeOK
<1>3. PICK q : q = [buf |-> buf', sentlen |-> sentlen', reply |-> reply']
  OBVIOUS
<1>4. /\ buf' \in Seq(Nat) /\ reply' \in Seq(Seq(Nat)) /\ sentlen' = sentlen
      /\ \A i \in DOMAIN reply' : reply'[i] # <<>>
      /\ HasPending(q)
      /\ HasPending(Out) => /\ Len(Object(q)) >= Len(Object(Out))
                            /\ buf = <<>> <=> buf' = <<>>
                            /\ buf = <<>> => Object(q)[1] = Object(Out)[1]
  <2>1. CASE reply = <<>> /\ buf' = Append(buf, u) /\ reply' = reply
    <3>1. buf' \in Seq(Nat) /\ buf' # <<>> /\ Len(buf') = Len(buf) + 1
      BY <1>2, <2>1
    <3>2. HasPending(q) /\ Object(q) = buf'
      BY <1>3, <3>1 DEF HasPending, Object
    <3>3. HasPending(Out) => buf # <<>> /\ Object(Out) = buf
      BY <1>1, <2>1 DEF HasPending, Object
    <3>4. Len(buf) \in Nat
      BY <1>2
    <3> QED
      BY <1>1, <1>2, <2>1, <3>1, <3>2, <3>3, <3>4 DEF AddReply
  <2>2. CASE reply # <<>> /\ reply' = [reply EXCEPT ![Len(reply)] = Append(tail, u)]
             /\ buf' = buf
    <3>1. Len(reply) \in DOMAIN reply /\ tail \in Seq(Nat) /\ 1 \in DOMAIN reply
      BY <1>2, <2>2
    <3>2. Append(tail, u) \in Seq(Nat) /\ Append(tail, u) # <<>>
          /\ Len(Append(tail, u)) = Len(tail) + 1 /\ Len(tail) \in Nat
          /\ (tail # <<>> => Append(tail, u)[1] = tail[1])
      <4> HIDE DEF tail, u
      <4>1. tail \in Seq(Nat) /\ u \in Nat
        BY <1>2, <3>1
      <4>2. /\ Append(tail, u) \in Seq(Nat) /\ Append(tail, u) # <<>>
            /\ Len(Append(tail, u)) = Len(tail) + 1 /\ Len(tail) \in Nat
        BY <4>1, AppendProperties
      <4>3. tail # <<>> => Append(tail, u)[1] = tail[1]
        BY <4>1
      <4> QED
        BY <4>2, <4>3
    <3>3. reply' \in Seq(Seq(Nat)) /\ Len(reply') = Len(reply) /\ DOMAIN reply' = DOMAIN reply
          /\ reply'[Len(reply)] = Append(tail, u)
          /\ \A i \in DOMAIN reply \ {Len(reply)} : reply'[i] = reply[i]
      BY <1>2, <2>2, <3>1, <3>2
    <3>4. \A i \in DOMAIN reply' : reply'[i] # <<>>
      BY <1>1, <3>2, <3>3
    <3>5. reply' # <<>> /\ Head(reply') = reply'[1] /\ Head(reply) = reply[1]
      BY <1>2, <2>2, <3>3
    <3>6. reply[1] \in Seq(Nat) /\ reply[1] # <<>> /\ Len(reply'[1]) >= Len(reply[1])
          /\ reply'[1][1] = reply[1][1]
      <4>1. reply[1] \in Seq(Nat) /\ reply[1] # <<>> /\ Len(reply[1]) \in Nat
        <5>1. reply[1] \in Seq(Nat)
          BY <1>2, <3>1
        <5>2. reply[1] # <<>>
          BY <1>1, <3>1
        <5> QED
          BY <5>1, <5>2
      <4> HIDE DEF u
      <4>2. CASE Len(reply) = 1
        <5>1. tail = reply[1] /\ reply'[1] = Append(tail, u)
          BY <3>3, <4>2
        <5> HIDE DEF tail
        <5>2. Len(reply'[1]) = Len(reply[1]) + 1
          BY <3>2, <5>1
        <5>3. reply'[1][1] = reply[1][1]
          BY <3>2, <4>1, <5>1
        <5> QED
          BY <4>1, <5>2, <5>3
      <4>3. CASE Len(reply) # 1
        <5>1. reply'[1] = reply[1]
          BY <3>1, <3>3, <4>3
        <5> QED
          BY <4>1, <5>1
      <4> QED
        BY <4>2, <4>3
    <3>7. HasPending(q) /\ HasPending(Out)
          /\ Object(q) = (IF buf # <<>> THEN buf ELSE reply'[1])
          /\ Object(Out) = (IF buf # <<>> THEN buf ELSE reply[1])
      BY <1>1, <1>3, <2>2, <3>5 DEF HasPending, Object
    <3>8. Len(Object(q)) >= Len(Object(Out)) /\ (buf = <<>> => Object(q)[1] = Object(Out)[1])
      <4>1. CASE buf # <<>>
        <5>1. Len(buf) \in Nat
          BY <1>2
        <5> QED
          BY <3>7, <4>1, <5>1
      <4>2. CASE buf = <<>>
        BY <3>6, <3>7, <4>2
      <4> QED
        BY <4>1, <4>2
    <3> QED
      BY <1>2, <2>2, <3>3, <3>4, <3>7, <3>8 DEF AddReply
  <2>3. CASE reply' = Append(reply, <<u>>) /\ buf' = buf
    <3>1. reply' \in Seq(Seq(Nat)) /\ reply' # <<>> /\ Len(reply') = Len(reply) + 1
          /\ reply'[Len(reply) + 1] = <<u>>
          /\ \A i \in DOMAIN reply : reply'[i] = reply[i]
      <4>1. <<u>> \in Seq(Nat)
        BY <1>2
      <4>2. reply' \in Seq(Seq(Nat)) /\ reply' # <<>>
        BY <1>2, <2>3, <4>1
      <4> HIDE DEF u
      <4>3. Len(reply') = Len(reply) + 1 /\ reply'[Len(reply) + 1] = <<u>>
        BY <1>2, <2>3, <4>1
      <4>4. \A i \in DOMAIN reply : reply'[i] = reply[i]
        BY <1>2, <2>3, <4>1
      <4> QED
        BY <4>2, <4>3, <4>4
    <3>2. \A i \in DOMAIN reply' : i \in DOMAIN reply \/ i = Len(reply) + 1
      BY <1>2, <3>1
    <3>3. \A i \in DOMAIN reply' : reply'[i] # <<>>
      <4>1. <<u>> # <<>>
        OBVIOUS
      <4> HIDE DEF u
      <4> QED
        BY <1>1, <3>1, <3>2, <4>1
    <3>4. HasPending(q) /\ Object(q) = (IF buf # <<>> THEN buf ELSE reply'[1])
      BY <1>3, <2>3, <3>1 DEF HasPending, Object
    <3>5. HasPending(Out) => Object(Out) = Object(q)
      <4>1. CASE buf # <<>>
        BY <1>1, <3>4, <4>1 DEF Object
      <4>2. CASE buf = <<>> /\ reply # <<>>
        <5>1. 1 \in DOMAIN reply /\ Head(reply) = reply[1]
          BY <1>2, <4>2
        <5> QED
          BY <1>1, <3>1, <3>4, <4>2, <5>1 DEF Object
      <4> QED
        BY <1>1, <4>1, <4>2 DEF HasPending
    <3>6. HasPending(Out) => Len(Object(Out)) \in Nat
      BY <1>1, ObjectFacts
    <3>7. HasPending(Out) => Len(Object(q)) >= Len(Object(Out))
      BY <3>5, <3>6
    <3> QED
      BY <1>2, <2>3, <3>1, <3>3, <3>4, <3>5, <3>7 DEF AddReply
  <2> QED
    BY <2>1, <2>2, <2>3 DEF AddReply
<1>5. q \in OutState /\ q.sentlen = sentlen /\ q.buf = buf' /\ q.reply = reply'
  BY <1>2, <1>3, <1>4 DEF OutState
<1>6. Sound(q) /\ \A op : Covers(op, Out) => Covers(op, q)
  BY <1>1, <1>4, <1>5, GrownSound
<1>7. Out' = q
  BY <1>3 DEF Out
<1>8. ring' = ring /\ async' = async /\ handler' = handler /\ freed' = freed
      /\ queued' = (queued \/ ~HasPending(Out)) /\ refused' = refused
  BY DEF AddReply, MustQueue
<1>9. TypeOK'
  BY <1>2, <1>4, <1>8 DEF AddReply, Flight6Inv, TypeOK, sockvars
<1>10. /\ async => ~queued' /\ ~freed' /\ HasPending(Out')
       /\ ring # <<>> => refused' # "missed" /\ Covers(ring[1], Out')
  <2>1. /\ async => HasPending(Out) /\ ~queued /\ ~freed
        /\ ring # <<>> => refused # "missed" /\ Covers(ring[1], Out)
    BY DEF Flight6Inv
  <2> QED
    BY <1>4, <1>6, <1>7, <1>8, <2>1
<1> QED
  BY <1>6, <1>7, <1>8, <1>9, <1>10 DEF Flight6Inv, OneInFlight


\* handleClientsWithPendingWrites(): a client that is queued has nothing in the ring.
LEMMA FlushKeeps ==
  ASSUME Flight6Inv, FlushPendingWrites
  PROVE  Flight6Inv'
<1>1. ring = <<>> /\ ~async /\ refused \in {"no", "seen"} /\ ~freed
  BY DEF FlushPendingWrites, Flight6Inv, TypeOK, OneInFlight
<1>2. Out' = Out /\ UNCHANGED <<outvars, lifevars, sockvars, errors, produced>>
      /\ queued' = FALSE /\ async = FALSE
  BY <1>1 DEF FlushPendingWrites, Out, outvars, Flight6Inv, TypeOK
<1>3. CASE closing # "no" /\ UNCHANGED <<async, ring, handler, refused>>
  <2>1. TypeOK'
    BY <1>2, <1>3 DEF Flight6Inv, TypeOK, outvars, lifevars, sockvars
  <2>2. freed' = freed
    BY <1>2 DEF lifevars
  <2> QED
    BY <1>1, <1>2, <1>3, <2>1, <2>2 DEF Flight6Inv, OneInFlight
<1>4. ASSUME NEW n \in Results, WriteToClient(Out, ring, async, n),
             handler' = IF HasPending(Out) /\ Accepted(n) THEN ~async' ELSE handler
      PROVE  Flight6Inv'
  <2>0. WriteToClient(Out, <<>>, FALSE, n) /\ Sound(Out) /\ ~handler
    BY <1>1, <1>2, <1>4 DEF Flight6Inv
  <2>1. /\ ring' \in Seq(Op) /\ async' \in BOOLEAN /\ refused' \in {"no", "seen", "missed"}
        /\ Len(ring') <= 1
        /\ async' <=> ring' # <<>> \/ refused' = "missed"
        /\ async' => HasPending(Out)
        /\ ring' # <<>> => refused' # "missed" /\ Covers(ring'[1], Out)
        /\ HasPending(Out) /\ Accepted(n) => async'
    BY <1>1, <1>4, <2>0, WriteToClientFacts
  <2>2. ~handler' /\ handler' \in BOOLEAN
    BY <1>4, <2>0, <2>1 DEF Flight6Inv, TypeOK
  <2>3. TypeOK'
    BY <1>2, <2>1, <2>2 DEF Flight6Inv, TypeOK, outvars, lifevars, sockvars
  <2>4. ~freed'
    BY <1>1, <1>2 DEF lifevars
  <2> QED
    BY <1>2, <2>0, <2>1, <2>2, <2>3, <2>4 DEF Flight6Inv, OneInFlight
<1> QED
  BY <1>3, <1>4 DEF FlushPendingWrites

\* A state with nothing in the ring and no flag is sound when its output is.
LEMMA EmptyRing ==
  ASSUME TypeOK', Sound(Out)', ring' = <<>>, async' = FALSE, ~handler',
         refused' # "missed" \/ freed'
  PROVE  Flight6Inv'
<1>1. Len(ring') = 0 /\ ~async'
  OBVIOUS
<1> QED
  BY <1>1 DEF Flight6Inv, OneInFlight

\* writeCallback(): what was written is accounted against the object it was taken from,
\* and the next operation, if there is one, is the only one.
LEMMA CompletionKeeps ==
  ASSUME Flight6Inv, NEW i \in DOMAIN ring, Completion(i)
  PROVE  Flight6Inv'
<1> DEFINE p == IF ring[1].ret = 0 THEN Out ELSE Ack(Out, ring[1].ret)
<1>1. /\ i = 1 /\ ring # <<>> /\ ring[1] \in Op /\ ring[1].ret \in Nat
      /\ SubSeq(ring, 1, i - 1) \o SubSeq(ring, i + 1, Len(ring)) = <<>>
      /\ ~queued /\ ~freed /\ Covers(ring[1], Out) /\ Sound(Out) /\ ~handler
      /\ refused \in {"no", "seen"}
  BY OnlyOne DEF Op, Flight6Inv, TypeOK
<1>2. Sound(p)
  <2>1. CASE ring[1].ret = 0
    BY <1>1, <2>1
  <2>2. CASE ring[1].ret # 0
    <3>1. HasPending(Out) /\ ring[1].ret <= Len(ring[1].cells)
          /\ Len(ring[1].cells) <= Len(Object(Out)) - Out.sentlen
      BY <1>1 DEF Covers
    <3>2. Len(ring[1].cells) \in Nat
      BY <1>1 DEF Op
    <3>3. Len(Object(Out)) \in Nat /\ Out.sentlen \in Nat
      BY <1>1, <3>1, ObjectFacts
    <3>4. ring[1].ret >= 1 /\ ring[1].ret <= Len(Object(Out)) - Out.sentlen
      BY <1>1, <2>2, <3>1, <3>2, <3>3
    <3> QED
      BY <1>1, <2>2, <3>1, <3>4, AckSound
  <2> QED
    BY <2>1, <2>2
<1>3. UNCHANGED <<queued, closeAfter, freed, sockvars, errors, produced>>
  BY DEF Completion
<1> HIDE DEF p
<1>4. CASE /\ closing' = FreeAsync("aborted")
           /\ async' = FALSE /\ ring' = <<>> /\ UNCHANGED <<outvars, handler, refused>>
  <2>1. Out' = Out
    BY <1>4 DEF Out, outvars
  <2>2. closing' \in {"no", "drained", "aborted"}
    BY <1>4 DEF FreeAsync, Flight6Inv, TypeOK
  <2>a. ring' \in Seq(Op)
    BY <1>4
  <2>3. TypeOK'
    BY <1>3, <1>4, <2>2, <2>a DEF Flight6Inv, TypeOK, outvars, sockvars
  <2> QED
    BY <1>1, <1>4, <2>1, <2>3, EmptyRing
<1>5. CASE /\ ~MoreToSend(p)
           /\ SetOut([p EXCEPT !.sentlen = 0])
           /\ closing' = CloseWhenDrained
           /\ async' = FALSE /\ ring' = <<>> /\ UNCHANGED <<handler, refused>>
  <2>1. p \in OutState /\ p.sentlen = 0
    BY <1>2, <1>5 DEF Sound, MoreToSend
  <2>2. [p EXCEPT !.sentlen = 0] = p
    BY <2>1 DEF OutState
  <2>3. buf' = p.buf /\ sentlen' = p.sentlen /\ reply' = p.reply
    BY <1>5, <2>2 DEF SetOut
  <2>4. Out' = p
    BY <2>1, <2>3 DEF Out, OutState
  <2>5. closing' \in {"no", "drained", "aborted"}
    BY <1>5 DEF CloseWhenDrained, FreeAsync, Flight6Inv, TypeOK
  <2>6. buf' \in Seq(Nat) /\ sentlen' \in Nat /\ reply' \in Seq(Seq(Nat))
    BY <2>1, <2>3 DEF OutState
  <2>a. ring' \in Seq(Op)
    BY <1>5
  <2>7. TypeOK'
    BY <1>3, <1>5, <2>5, <2>6, <2>a DEF Flight6Inv, TypeOK, sockvars
  <2> QED
    BY <1>1, <1>2, <1>5, <2>4, <2>7, EmptyRing
<1>6. ASSUME MoreToSend(p), SetOut(p), NEW n \in Results, WriteToClient(p, <<>>, FALSE, n),
             handler' = (handler /\ ~async'), UNCHANGED closing
      PROVE  Flight6Inv'
  <2>1. p \in OutState
    BY <1>2 DEF Sound
  <2>2. buf' = p.buf /\ sentlen' = p.sentlen /\ reply' = p.reply
    BY <1>6 DEF SetOut
  <2>3. Out' = p
    BY <2>1, <2>2 DEF Out, OutState
  <2>4. /\ ring' \in Seq(Op) /\ async' \in BOOLEAN /\ refused' \in {"no", "seen", "missed"}
        /\ Len(ring') <= 1
        /\ async' <=> ring' # <<>> \/ refused' = "missed"
        /\ async' => HasPending(p)
        /\ ring' # <<>> => refused' # "missed" /\ Covers(ring'[1], p)
    BY <1>1, <1>2, <1>6, WriteToClientFacts
  <2>5. ~handler'
    BY <1>1, <1>6
  <2>6. buf' \in Seq(Nat) /\ sentlen' \in Nat /\ reply' \in Seq(Seq(Nat))
    BY <2>1, <2>2 DEF OutState
  <2>7. TypeOK'
    BY <1>3, <1>6, <2>4, <2>5, <2>6 DEF Flight6Inv, TypeOK, sockvars
  <2> QED
    BY <1>1, <1>2, <1>3, <2>3, <2>4, <2>5, <2>7 DEF Flight6Inv, OneInFlight
<1> QED
  BY <1>1, <1>4, <1>5, <1>6 DEF Completion, p

\* CLIENT KILL, and freeing: memory and operation go together.
LEMMA FreeKeeps ==
  ASSUME Flight6Inv, KillClient \/ FreeClientsInAsyncFreeQueue
  PROVE  Flight6Inv'
<1>1. CASE KillClient
  <2>1. Out' = Out /\ UNCHANGED <<ring, async, handler, queued, freed, refused>>
    BY <1>1 DEF KillClient, Out, outvars
  <2>2. TypeOK'
    BY <1>1 DEF KillClient, Flight6Inv, TypeOK, outvars, sockvars
  <2> QED
    BY <2>1, <2>2 DEF Flight6Inv, OneInFlight
<1>2. CASE FreeClientsInAsyncFreeQueue
  <2>1. ring' = <<>> /\ async' = FALSE /\ ~handler' /\ freed' = TRUE
        /\ buf' = <<>> /\ reply' = <<>> /\ sentlen' = 0
    BY <1>2 DEF FreeClientsInAsyncFreeQueue
  <2>2. ring' \in Seq(Op) /\ buf' \in Seq(Nat) /\ reply' \in Seq(Seq(Nat))
        /\ sentlen' \in Nat
    BY <2>1
  <2>3. TypeOK'
    BY <1>2, <2>2 DEF FreeClientsInAsyncFreeQueue, Flight6Inv, TypeOK, sockvars
  <2>4. Out' = [buf |-> <<>>, sentlen |-> 0, reply |-> <<>>] /\ Out' \in OutState
    BY <2>1, <2>2 DEF Out, OutState
  <2>5. Sound(Out)'
    BY <2>4 DEF Sound, HasPending
  <2> QED
    BY <2>1, <2>3, <2>5, EmptyRing
<1> QED
  BY <1>1, <1>2

\* Whatever the ring loads is a number: a unit, or Junk.
LEMMA LoadNat ==
  ASSUME TypeOK, NEW cell
  PROVE  Load(cell) \in Nat
<1> DEFINE places == IF cell[1][1] = "buf" THEN {buf}
                     ELSE {reply[i] : i \in {j \in DOMAIN reply : reply[j][1] = cell[1][2]}}
           there == CHOOSE s \in places : cell[2] \in DOMAIN s
<1>1. places \subseteq Seq(Nat)
  <2>1. buf \in Seq(Nat) /\ \A i \in DOMAIN reply : reply[i] \in Seq(Nat)
    BY DEF TypeOK
  <2> QED
    BY <2>1
<1>2. CASE \E s \in places : cell[2] \in DOMAIN s
  <2>1. Load(cell) = there[cell[2]]
    BY <1>2 DEF Load
  <2> HIDE DEF places
  <2>2. there \in places /\ cell[2] \in DOMAIN there
    BY <1>2
  <2> HIDE DEF there
  <2>3. there \in Seq(Nat)
    BY <1>1, <2>2
  <2> QED
    BY <2>1, <2>2, <2>3
<1>3. CASE ~ \E s \in places : cell[2] \in DOMAIN s
  BY <1>3 DEF Load, Junk
<1> QED
  BY <1>2, <1>3

\* The ring writes some of the units of the operation, or fails; the peer reads.
LEMMA OutsideKeeps ==
  ASSUME Flight6Inv, (\E i \in DOMAIN ring : RingWrite(i) \/ RingFail(i)) \/ PeerRead
  PROVE  Flight6Inv'
<1>1. Out' = Out /\ UNCHANGED <<outvars, async, queued, handler, lifevars, refused, produced>>
  BY DEF RingWrite, RingFail, PeerRead, Out, outvars
<1>2. ASSUME NEW op \in Op, ring' = <<op>>, ring # <<>>, op.cells = ring[1].cells,
             op.ret <= Len(op.cells), Len(ring) = 1,
             wire' \in Seq(Nat), {peerRead', errors'} \subseteq Nat
      PROVE  Flight6Inv'
  <2>1. ring' \in Seq(Op) /\ Len(ring') = 1 /\ ring'[1] = op
    BY <1>2
  <2>2. Covers(op, Out)
    BY <1>2 DEF Flight6Inv, Covers
  <2>3. TypeOK'
    BY <1>1, <1>2, <2>1 DEF Flight6Inv, TypeOK, outvars, lifevars
  <2> QED
    BY <1>1, <1>2, <2>1, <2>2, <2>3 DEF Flight6Inv, OneInFlight, lifevars
<1>3. ASSUME NEW i \in DOMAIN ring, RingWrite(i) PROVE Flight6Inv'
  <2>1. i = 1 /\ ring # <<>> /\ ring[1] \in Op /\ Len(ring) = 1 /\ ring \in Seq(Op)
    BY <1>3, OnlyOne DEF Flight6Inv, TypeOK
  <2>2. PICK n \in 1..Len(ring[1].cells) :
          /\ wire' = wire \o [j \in 1..n |-> Load(ring[1].cells[j])]
          /\ ring' = [ring EXCEPT ![1].st = "done", ![1].ret = n]
    <3>1. RingWrite(1)
      BY <1>3, <2>1
    <3> QED
      BY <3>1 DEF RingWrite
  <2>3. Len(ring[1].cells) \in Nat /\ n \in Nat /\ n <= Len(ring[1].cells)
    BY <2>1, <2>2 DEF Op
  <2>4. PICK op : op = [ring[1] EXCEPT !.st = "done", !.ret = n]
    OBVIOUS
  <2>5. op \in Op /\ op.cells = ring[1].cells /\ op.ret = n
    BY <2>1, <2>3, <2>4 DEF Op
  <2>6. ring' = <<op>>
    BY <2>1, <2>2, <2>4, <2>5
  <2>7. wire' \in Seq(Nat)
    <3>1. \A j \in 1..n : Load(ring[1].cells[j]) \in Nat
      BY LoadNat DEF Flight6Inv
    <3>2. [j \in 1..n |-> Load(ring[1].cells[j])] \in Seq(Nat)
      BY <2>3, <3>1
    <3> QED
      BY <2>2, <3>2 DEF Flight6Inv, TypeOK
  <2>8. {peerRead', errors'} \subseteq Nat
    BY <1>3 DEF RingWrite, Flight6Inv, TypeOK
  <2> QED
    BY <1>2, <2>1, <2>3, <2>5, <2>6, <2>7, <2>8
<1>4. ASSUME NEW i \in DOMAIN ring, RingFail(i) PROVE Flight6Inv'
  <2>1. i = 1 /\ ring # <<>> /\ ring[1] \in Op /\ Len(ring) = 1 /\ ring \in Seq(Op)
    BY <1>4, OnlyOne DEF Flight6Inv, TypeOK
  <2>2. PICK e \in {"EAGAIN", "EINTR", "EPIPE"} :
          ring' = [ring EXCEPT ![1].st = "done", ![1].err = e]
    BY <1>4, <2>1 DEF RingFail
  <2>3. PICK op : op = [ring[1] EXCEPT !.st = "done", !.err = e]
    OBVIOUS
  <2>4. op \in Op /\ op.cells = ring[1].cells /\ op.ret = ring[1].ret
    BY <2>1, <2>2, <2>3 DEF Op
  <2>5. ring' = <<op>>
    BY <2>1, <2>2, <2>3, <2>4
  <2>6. op.ret <= Len(op.cells)
    BY <2>1, <2>4 DEF Flight6Inv, Covers
  <2>7. wire' \in Seq(Nat) /\ {peerRead', errors'} \subseteq Nat
    BY <1>4 DEF RingFail, Flight6Inv, TypeOK, sockvars
  <2> QED
    BY <1>2, <2>1, <2>4, <2>5, <2>6, <2>7
<1>5. CASE PeerRead
  <2>1. UNCHANGED ring
    BY <1>5 DEF PeerRead
  <2>2. TypeOK'
    BY <1>5 DEF PeerRead, Flight6Inv, TypeOK, outvars, lifevars
  <2> QED
    BY <1>1, <2>1, <2>2 DEF Flight6Inv, OneInFlight, lifevars
<1> QED
  BY <1>3, <1>4, <1>5

\* Every step keeps the invariant.
LEMMA Flight6Step == Flight6Inv /\ [Next]_vars => Flight6Inv'
<1> SUFFICES ASSUME Flight6Inv, [Next]_vars PROVE Flight6Inv'
  OBVIOUS
<1>1. ASSUME NEW last \in BOOLEAN, AddReply(last) PROVE Flight6Inv'
  BY <1>1, AddReplyKeeps
<1>2. CASE FlushPendingWrites
  BY <1>2, FlushKeeps
<1>3. ASSUME NEW i \in DOMAIN ring, Completion(i) PROVE Flight6Inv'
  BY <1>3, CompletionKeeps
<1>4. CASE KillClient \/ FreeClientsInAsyncFreeQueue
  BY <1>4, FreeKeeps
<1>5. CASE (\E i \in DOMAIN ring : RingWrite(i) \/ RingFail(i)) \/ PeerRead
  BY <1>5, OutsideKeeps
<1>6. CASE UNCHANGED vars
  <2>1. Out' = Out
    BY <1>6 DEF vars, outvars, Out
  <2>2. TypeOK'
    BY <1>6 DEF vars, outvars, lifevars, sockvars, Flight6Inv, TypeOK
  <2> QED
    BY <1>6, <2>1, <2>2 DEF vars, lifevars, Flight6Inv, OneInFlight
<1> QED
  BY <1>1, <1>2, <1>3, <1>4, <1>5, <1>6 DEF Next

\* Flight6Inv in every reachable state.
LEMMA Flight6Invariant == Spec => []Flight6Inv
  BY Flight6Init, Flight6Step, PTL DEF Spec

\* A client of the 6.0 path never has two operations in the ring although writeToClient()
\* does not look at CLIENT_ASYNC; the flag says when it has one, and is wrong about it in
\* one case only: a negative answer of write_async() was taken for an acceptance (lines
\* 126 and 135 compare a size_t).
THEOREM SingleFlight6 == Spec => []OneInFlight
<1>1. Flight6Inv => OneInFlight
  BY DEF Flight6Inv
<1> QED
  BY <1>1, Flight6Invariant, PTL

\* writeCallback() finds the object that was submitted, with what was written still in it.
THEOREM CompletionAlwaysFinds == Spec => []CompletionFindsObject
<1>1. Flight6Inv => CompletionFindsObject
  <2> SUFFICES ASSUME Flight6Inv, NEW i \in DOMAIN ring
               PROVE  /\ HasPending(Out) /\ ring[i].cells # <<>>
                      /\ ring[i].ret <= Len(Object(Out)) - sentlen
                      /\ ring[i].cells[1] = Cells(Out)[1]
    BY DEF CompletionFindsObject
  <2>1. i = 1 /\ ring[1] \in Op /\ Covers(ring[1], Out)
    BY OnlyOne DEF Flight6Inv
  <2>2. Len(ring[1].cells) \in Nat /\ ring[1].ret \in Nat /\ Out.sentlen = sentlen
    BY <2>1, OutFacts DEF Op, Flight6Inv
  <2>3. Len(Object(Out)) \in Nat /\ sentlen \in Nat
    BY <2>1, <2>2, ObjectFacts DEF Flight6Inv, Covers
  <2> QED
    BY <2>1, <2>2, <2>3 DEF Covers
<1> QED
  BY <1>1, Flight6Invariant, PTL

\* The write handler is never installed while io-threads are off: output never waits for
\* the kernel's EPOLLOUT (line 145).
THEOREM HandlerNeverInstalled == Spec => []~handler
<1>1. Flight6Inv => ~handler
  BY DEF Flight6Inv
<1> QED
  BY <1>1, Flight6Invariant, PTL

-----------------------------------------------------------------------------
(* The path implements ReplyStream. *)

\* What the operation in flight has written.
Ret == IF ring = <<>> THEN 0 ELSE ring[1].ret

\* What the socket took is all the units up to the first that is neither accounted for
\* nor written by the operation in flight; the rest is what the output buffers hold.
WireAndOutput ==
  \E a : Laid(buf, reply, a, produced) /\ (freed \/ wire = Run(0, a + sentlen + Ret))

\* An operation that has not run, or failed, has written nothing; it is for consecutive
\* cells, from the first unsent one on.
OpFaithful(op) ==
  /\ op.st = "flight" => op.err = "none"
  /\ op.st = "flight" \/ op.err # "none" => op.ret = 0
  /\ \A j \in 1..Len(op.cells) : op.cells[j] = Cells(Out)[j]

\* The inductive invariant of the refinement.
Stream6Inv ==
  /\ Flight6Inv /\ WireAndOutput
  /\ ring # <<>> => OpFaithful(ring[1])
  /\ closing = "drained" => ~HasPending(Out)

\* A sound output state has its offset inside the object that is next.
LEMMA SoundWithin ==
  ASSUME NEW o, Sound(o)
  PROVE  /\ Within(o.buf, o.reply, o.sentlen)
         /\ HasPending(o) /\ o.buf = <<>> => Object(o) = o.reply[1] /\ o.reply # <<>>
         /\ o.buf # <<>> => Object(o) = o.buf
<1>1. o.sentlen \in Nat /\ o.buf \in Seq(Nat)
  BY DEF Sound, OutState
<1>2. CASE ~HasPending(o)
  BY <1>1, <1>2 DEF Sound, HasPending, Within
<1>3. CASE HasPending(o) /\ o.buf # <<>>
  BY <1>1, <1>3 DEF Sound, Object, Within
<1>4. CASE HasPending(o) /\ o.buf = <<>>
  <2>1. o.reply # <<>> /\ Object(o) = o.reply[1] /\ o.sentlen < Len(Object(o))
    BY <1>4, ObjectFacts
  <2> QED
    BY <1>1, <1>4, <2>1 DEF Within
<1> QED
  BY <1>2, <1>3, <1>4

\* Accounting for n units moves the first unsent unit by n.
LEMMA AckLaid ==
  ASSUME NEW o, Sound(o), HasPending(o), NEW a, NEW top, Laid(o.buf, o.reply, a, top),
         NEW n \in Nat, n >= 1, n <= Len(Object(o)) - o.sentlen
  PROVE  \E c \in Nat : /\ Laid(Ack(o, n).buf, Ack(o, n).reply, c, top)
                        /\ c + Ack(o, n).sentlen = a + o.sentlen + n
<1> DEFINE q == Ack(o, n)
           len == Len(Object(o))
<1>1. /\ o.sentlen \in Nat /\ len \in Nat /\ a \in Nat /\ o \in OutState
  BY ObjectFacts, LaidFacts DEF Sound
<1>2. CASE o.sentlen + n # len
  <2>1. q = [o EXCEPT !.sentlen = @ + n]
    BY <1>2 DEF Ack
  <2>2. q.buf = o.buf /\ q.reply = o.reply /\ q.sentlen = o.sentlen + n
    BY <1>1, <2>1 DEF OutState
  <2> QED
    BY <1>1, <2>2
<1>3. CASE o.sentlen + n = len /\ o.buf # <<>>
  <2>1. q = [o EXCEPT !.buf = <<>>, !.sentlen = 0]
    BY <1>3 DEF Ack
  <2>2. q.buf = <<>> /\ q.reply = o.reply /\ q.sentlen = 0
    BY <1>1, <2>1 DEF OutState
  <2>3. Laid(<<>>, o.reply, a + len, top)
    BY <1>3, LaidLess, SoundWithin
  <2> QED
    BY <1>1, <1>3, <2>2, <2>3
<1>4. CASE o.sentlen + n = len /\ o.buf = <<>>
  <2>1. q = [o EXCEPT !.reply = Tail(@), !.sentlen = 0]
    BY <1>4 DEF Ack
  <2>2. q.buf = <<>> /\ q.reply = Tail(o.reply) /\ q.sentlen = 0
    BY <1>1, <1>4, <2>1 DEF OutState
  <2>3. Laid(<<>>, Tail(o.reply), a + len, top)
    BY <1>4, LaidLess, SoundWithin
  <2> QED
    BY <1>1, <1>4, <2>2, <2>3
<1> QED
  BY <1>2, <1>3, <1>4

\* The addresses of an operation hold the units it is for: blocks begin with different
\* units, so the block it was made from is found again.
LEMMA CellsLoad ==
  ASSUME TypeOK, Sound(Out), HasPending(Out), NEW a, Laid(buf, reply, a, produced),
         NEW j \in 1..(Len(Object(Out)) - sentlen)
  PROVE  Load(Cells(Out)[j]) = a + sentlen + j
<1> DEFINE obj == Object(Out)
           name == IF Out.buf # <<>> THEN <<"buf", 0>> ELSE <<"block", obj[1]>>
           k == sentlen + j
           places == IF name[1] = "buf" THEN {buf}
                     ELSE {reply[i] : i \in {x \in DOMAIN reply : reply[x][1] = name[2]}}
<1>1. Out.buf = buf /\ Out.sentlen = sentlen /\ Out.reply = reply
  BY OutFacts
<1>2. /\ obj \in Seq(Nat) /\ Len(obj) \in Nat /\ sentlen \in Nat
      /\ buf # <<>> => obj = buf
      /\ buf = <<>> => obj = reply[1] /\ reply # <<>>
  BY <1>1, ObjectFacts, SoundWithin
<1>3. k \in 1..Len(obj) /\ k \in DOMAIN obj
  BY <1>2
<1>4. Cells(Out)[j] = <<name, k>>
  BY <1>1 DEF Cells
<1>5. /\ a \in Nat /\ obj = Run(a, a + Len(obj))
      /\ buf = <<>> => 1 \in DOMAIN reply /\ \A i \in DOMAIN reply : reply[i][1] = reply[1][1] => i = 1
  BY <1>2, LaidFacts
<1>6. places = {obj}
  <2>1. CASE buf # <<>>
    BY <1>1, <1>2, <2>1
  <2>2. CASE buf = <<>>
    <3>1. name = <<"block", reply[1][1]>> /\ obj = reply[1]
      BY <1>1, <1>2, <2>2
    <3>2. places = {reply[i] : i \in {x \in DOMAIN reply : reply[x][1] = reply[1][1]}}
      BY <3>1
    <3>3. {x \in DOMAIN reply : reply[x][1] = reply[1][1]} = {1}
      BY <1>5, <2>2
    <3> HIDE DEF places
    <3> QED
      BY <3>1, <3>2, <3>3
  <2> QED
    BY <2>1, <2>2
<1>7. Load(<<name, k>>) =
        IF \E s \in places : k \in DOMAIN s
        THEN (CHOOSE s \in places : k \in DOMAIN s)[k] ELSE Junk
  BY DEF Load
<1> HIDE DEF places
<1>8. (CHOOSE s \in places : k \in DOMAIN s) = obj
  BY <1>3, <1>6
<1>9. Load(<<name, k>>) = obj[k]
  BY <1>3, <1>6, <1>7, <1>8
<1>10. Run(a, a + Len(obj))[k] = a + k
  <2>1. a + Len(obj) \in Nat /\ a <= a + Len(obj) /\ k \in 1..((a + Len(obj)) - a)
    BY <1>2, <1>3, <1>5
  <2> HIDE DEF obj, k
  <2>2. PICK b : b = a + Len(obj)
    OBVIOUS
  <2>3. a \in Nat /\ b \in Nat /\ a <= b /\ k \in 1..(b - a)
    BY <1>5, <2>1, <2>2
  <2>4. Run(a, b)[k] = a + k
    BY <2>3 DEF Run
  <2> QED
    BY <2>2, <2>4
<1>11. obj[k] = a + k
  BY <1>5, <1>10
<1> QED
  BY <1>2, <1>4, <1>5, <1>9, <1>11

\* What the mapping of ReplyStream gives while the client lives: the socket has the units
\* up to Len(wire), pending are the others.
Pend == IF freed THEN <<>>
        ELSE SubSeq(Unsent, 1 + (IF ring = <<>> THEN 0 ELSE ring[1].ret), Len(Unsent))

StreamState ==
  IF closing = "aborted" THEN "aborted"
  ELSE IF closing = "drained" THEN "done"
  ELSE IF closeAfter THEN "last" ELSE "open"

PendIsRun ==
  /\ wire = Run(0, Len(wire)) /\ Len(wire) \in Nat /\ produced \in Nat
  /\ Len(wire) <= produced /\ Pend = Run(Len(wire), produced)
  /\ ~HasPending(Out) => Len(wire) = produced

\* What is still to be sent to a client is the run behind what is on the wire.
LEMMA PendRun == Stream6Inv /\ ~freed => PendIsRun
<1> SUFFICES ASSUME Stream6Inv, ~freed PROVE PendIsRun
  OBVIOUS
<1>1. PICK a : Laid(buf, reply, a, produced) /\ wire = Run(0, a + sentlen + Ret)
  BY DEF Stream6Inv, WireAndOutput
<1>2. /\ Sound(Out) /\ TypeOK /\ Out.buf = buf /\ Out.sentlen = sentlen /\ Out.reply = reply
  BY OutFacts DEF Stream6Inv, Flight6Inv
<1>3. Within(buf, reply, sentlen)
  BY <1>2, SoundWithin
<1>4. /\ Unsent = Run(a + sentlen, produced) /\ a + sentlen \in Nat /\ a + sentlen <= produced
      /\ buf = <<>> /\ reply = <<>> <=> a + sentlen = produced
      /\ a \in Nat /\ sentlen \in Nat /\ produced \in Nat
  <2>1. Unsent = UnsentOf(buf, reply, sentlen)
    BY DEF Unsent, Listed, UnsentOf
  <2>2. a \in Nat /\ sentlen \in Nat /\ produced \in Nat
    BY <1>1, <1>2, LaidFacts DEF TypeOK
  <2> QED
    BY <1>1, <1>3, <2>1, <2>2, UnsentRun
<1>5. Ret \in Nat /\ a + sentlen + Ret <= produced /\ (~HasPending(Out) => Ret = 0)
  <2>1. CASE ring = <<>>
    BY <1>4, <2>1 DEF Ret
  <2>2. CASE ring # <<>>
    <3>1. /\ HasPending(Out) /\ Len(ring[1].cells) <= Len(Object(Out)) - sentlen
          /\ Ret = ring[1].ret /\ Ret <= Len(ring[1].cells)
      BY <1>2, <2>2 DEF Stream6Inv, Flight6Inv, Covers, Ret
    <3>2. Ret \in Nat /\ Len(ring[1].cells) \in Nat
      <4>1. ring[1] \in Op
        BY <1>2, <2>2 DEF TypeOK
      <4> QED
        BY <3>1, <4>1 DEF Op
    <3>3. Len(Object(Out)) \in Nat /\ a + Len(Object(Out)) <= produced
      BY <1>1, <1>2, <3>1, ObjectFacts, SoundWithin, LaidFacts
    <3> QED
      BY <1>4, <3>1, <3>2, <3>3
  <2> QED
    BY <2>1, <2>2
<1>6. Len(wire) = a + sentlen + Ret /\ a + sentlen + Ret \in Nat
  <2> DEFINE w == a + sentlen + Ret
  <2>1. w \in Nat /\ 0 <= w /\ w - 0 = w
    BY <1>4, <1>5
  <2> HIDE DEF w
  <2>2. Len(Run(0, w)) = w
    BY <2>1, RunFacts
  <2> QED
    BY <1>1, <2>1, <2>2 DEF w
<1>7. Pend = Run(Len(wire), produced)
  <2>1. Pend = SubSeq(Unsent, 1 + Ret, Len(Unsent))
    BY DEF Pend, Ret
  <2> DEFINE x == a + sentlen
  <2>2. x \in Nat /\ x <= produced /\ Ret \in 0..(produced - x) /\ Unsent = Run(x, produced)
        /\ x + Ret = Len(wire) /\ 1 + Ret = Ret + 1 /\ produced \in Nat
    BY <1>4, <1>5, <1>6
  <2> HIDE DEF x
  <2>3. Len(Unsent) = produced - x
    BY <2>2, RunFacts
  <2>4. SubSeq(Run(x, produced), Ret + 1, produced - x) = Run(x + Ret, produced)
    BY <2>2, RunSplit
  <2> QED
    BY <2>1, <2>2, <2>3, <2>4
<1>8. ~HasPending(Out) => Len(wire) = produced
  BY <1>2, <1>4, <1>5, <1>6 DEF HasPending
<1> QED
  BY <1>1, <1>4, <1>5, <1>6, <1>7, <1>8 DEF PendIsRun

\* The same after a step.
LEMMA PendRunNext == Stream6Inv' /\ ~freed' => PendIsRun'
  BY PendRun, PTL

-----------------------------------------------------------------------------
(* The invariant of the refinement, action by action. *)

\* An operation faithful to an output state that covers it is faithful to one that covers
\* it too with the same offset: its first cell says which object it is for.
LEMMA SameCells ==
  ASSUME NEW op \in Op, NEW o, NEW q, Sound(o), Sound(q), Covers(op, o), Covers(op, q),
         o.sentlen = q.sentlen, \A j \in 1..Len(op.cells) : op.cells[j] = Cells(o)[j]
  PROVE  \A j \in 1..Len(op.cells) : op.cells[j] = Cells(q)[j]
<1> DEFINE no == IF o.buf # <<>> THEN <<"buf", 0>> ELSE <<"block", Object(o)[1]>>
           nq == IF q.buf # <<>> THEN <<"buf", 0>> ELSE <<"block", Object(q)[1]>>
           n == Len(op.cells)
<1>1. n \in Nat /\ n # 0
  BY EmptySeq DEF Op, Covers
<1>2. /\ n <= Len(Object(o)) - o.sentlen /\ n <= Len(Object(q)) - o.sentlen
      /\ Len(Object(o)) \in Nat /\ Len(Object(q)) \in Nat /\ o.sentlen \in Nat
      /\ op.cells[1] = Cells(o)[1] /\ op.cells[1] = Cells(q)[1]
  BY ObjectFacts DEF Covers
<1>3. \A j \in 1..n : /\ Cells(o)[j] = <<no, o.sentlen + j>>
                      /\ Cells(q)[j] = <<nq, o.sentlen + j>>
  <2> TAKE j \in 1..n
  <2>1. j \in 1..(Len(Object(o)) - o.sentlen) /\ j \in 1..(Len(Object(q)) - q.sentlen)
    BY <1>1, <1>2
  <2> QED
    BY <2>1 DEF Cells
<1> HIDE DEF no, nq
<1>4. no = nq
  <2>1. 1 \in 1..n
    BY <1>1
  <2> QED
    BY <1>2, <1>3, <2>1
<1> QED
  BY <1>3, <1>4

\* Output is added.
LEMMA AddReplyWire ==
  ASSUME Stream6Inv, NEW last \in BOOLEAN, AddReply(last)
  PROVE  Stream6Inv'
<1>1. Flight6Inv /\ Flight6Inv' /\ TypeOK
  BY AddReplyKeeps DEF Stream6Inv, Flight6Inv
<1>2. /\ ring' = ring /\ sentlen' = sentlen /\ freed' = freed /\ wire' = wire
      /\ produced' = produced + 1 /\ closing' = closing /\ closing = "no"
  BY DEF AddReply, sockvars
<1>3. PICK a : Laid(buf, reply, a, produced) /\ (freed \/ wire = Run(0, a + sentlen + Ret))
  BY DEF Stream6Inv, WireAndOutput
<1>4. Laid(buf', reply', a, produced + 1)
  <2>1. CASE reply = <<>> /\ buf' = Append(buf, produced + 1) /\ reply' = reply
    BY <1>3, <2>1, LaidMore
  <2>2. CASE /\ reply # <<>> /\ buf' = buf
             /\ reply' = [reply EXCEPT ![Len(reply)] = Append(reply[Len(reply)], produced + 1)]
    BY <1>3, <2>2, LaidMore
  <2>3. CASE reply' = Append(reply, <<produced + 1>>) /\ buf' = buf
    BY <1>3, <2>3, LaidMore
  <2> QED
    BY <2>1, <2>2, <2>3 DEF AddReply
<1>5. WireAndOutput'
  <2>1. Ret' = Ret
    BY <1>2 DEF Ret
  <2> QED
    BY <1>2, <1>3, <1>4, <2>1 DEF WireAndOutput
<1>6. ASSUME ring # <<>> PROVE OpFaithful(ring[1])'
  <2>1. ring[1] \in Op /\ OpFaithful(ring[1])
    BY <1>1, <1>6 DEF Stream6Inv, TypeOK
  <2>2. Sound(Out) /\ Sound(Out)' /\ Covers(ring[1], Out) /\ Covers(ring[1], Out')
    BY <1>1, <1>2, <1>6 DEF Flight6Inv
  <2>3. Out.sentlen = Out'.sentlen
    BY <1>2 DEF Out
  <2>4. \A j \in 1..Len(ring[1].cells) : ring[1].cells[j] = Cells(Out')[j]
    BY <2>1, <2>2, <2>3, SameCells DEF OpFaithful
  <2> QED
    BY <1>2, <2>1, <2>4 DEF OpFaithful
<1> QED
  BY <1>1, <1>2, <1>5, <1>6 DEF Stream6Inv

\* A new operation has written nothing and is for what is next.
LEMMA NewOpFaithful ==
  ASSUME NEW n, NEW flag, NEW o, WriteToClient(o, <<>>, flag, n), Out' = o
  PROVE  /\ Ret' = 0
         /\ ring' # <<>> => OpFaithful(ring[1])'
<1>1. CASE ring' = <<>>
  BY <1>1 DEF Ret
<1>2. CASE ring' = Append(<<>>, NewOp(o))
  <2>1. ring' = <<NewOp(o)>>
    BY <1>2
  <2>2. ring'[1] = NewOp(o) /\ ring' # <<>>
    BY <2>1
  <2>3. NewOp(o).ret = 0 /\ NewOp(o).err = "none" /\ NewOp(o).cells = Cells(o)
    BY DEF NewOp
  <2>4. Ret' = 0
    BY <2>2, <2>3 DEF Ret
  <2>5. OpFaithful(ring[1])'
    BY <2>2, <2>3 DEF OpFaithful
  <2> QED
    BY <2>4, <2>5
<1> QED
  BY <1>1, <1>2 DEF WriteToClient

\* The queue is served.
LEMMA FlushWire ==
  ASSUME Stream6Inv, FlushPendingWrites
  PROVE  Stream6Inv'
<1>1. Flight6Inv /\ Flight6Inv' /\ ring = <<>>
  <2>1. Flight6Inv
    BY DEF Stream6Inv
  <2>2. ring = <<>>
    BY <2>1 DEF Flight6Inv, OneInFlight, FlushPendingWrites
  <2> QED
    BY <2>1, <2>2, FlushKeeps
<1>2. /\ UNCHANGED <<buf, reply, sentlen, produced, freed, wire, closing>> /\ Out' = Out
  BY DEF FlushPendingWrites, outvars, sockvars, lifevars, Out
<1>3. /\ Ret' = 0 /\ Ret = 0
      /\ ring' # <<>> => OpFaithful(ring[1])'
  <2>1. CASE UNCHANGED ring
    BY <1>1, <2>1 DEF Ret
  <2>2. CASE \E n \in Results : WriteToClient(Out, ring, async, n)
    BY <1>1, <1>2, <2>2, NewOpFaithful DEF Ret
  <2> QED
    BY <2>1, <2>2 DEF FlushPendingWrites
<1>4. WireAndOutput'
  BY <1>2, <1>3 DEF Stream6Inv, WireAndOutput
<1>5. closing' = "drained" => ~HasPending(Out')
  BY <1>2 DEF Stream6Inv
<1> QED
  BY <1>1, <1>3, <1>4, <1>5 DEF Stream6Inv

\* A completion accounts for what its operation wrote.
LEMMA CompletionWire ==
  ASSUME Stream6Inv, NEW i \in DOMAIN ring, Completion(i)
  PROVE  Stream6Inv'
<1> DEFINE p == IF ring[1].ret = 0 THEN Out ELSE Ack(Out, ring[1].ret)
<1>1. Flight6Inv /\ Flight6Inv' /\ TypeOK
  BY CompletionKeeps DEF Stream6Inv, Flight6Inv
<1>2. /\ i = 1 /\ ring # <<>> /\ ring[1].ret \in Nat /\ Len(ring[1].cells) \in Nat
      /\ SubSeq(ring, 1, i - 1) \o SubSeq(ring, i + 1, Len(ring)) = <<>>
      /\ ~freed /\ Covers(ring[1], Out) /\ Sound(Out) /\ OpFaithful(ring[1])
      /\ Ret = ring[1].ret /\ closing # "drained"
  <2>1. i = 1 /\ ring # <<>> /\ ring[1] \in Op /\ ~freed
        /\ SubSeq(ring, 1, i - 1) \o SubSeq(ring, i + 1, Len(ring)) = <<>>
    BY <1>1, OnlyOne
  <2>2. ring[1].ret \in Nat /\ Len(ring[1].cells) \in Nat
    BY <2>1 DEF Op
  <2>3. ~freed /\ Covers(ring[1], Out) /\ Sound(Out) /\ OpFaithful(ring[1])
    BY <1>1, <2>1 DEF Stream6Inv, Flight6Inv
  <2>4. closing # "drained"
    BY <2>3 DEF Stream6Inv, Covers
  <2> QED
    BY <2>1, <2>2, <2>3, <2>4 DEF Ret
<1>3. UNCHANGED <<freed, wire, produced>>
  BY DEF Completion, sockvars
<1>4. PICK a : Laid(buf, reply, a, produced) /\ wire = Run(0, a + sentlen + Ret)
  BY <1>2 DEF Stream6Inv, WireAndOutput
<1>5. Out.buf = buf /\ Out.sentlen = sentlen /\ Out.reply = reply /\ a \in Nat /\ sentlen \in Nat
  BY <1>1, <1>4, OutFacts, LaidFacts DEF TypeOK
<1>6. PICK c \in Nat : Laid(p.buf, p.reply, c, produced) /\ c + p.sentlen = a + sentlen + Ret
  <2>1. CASE ring[1].ret = 0
    BY <1>2, <1>4, <1>5, <2>1
  <2>2. CASE ring[1].ret # 0
    <3>1. /\ HasPending(Out) /\ Len(Object(Out)) \in Nat
          /\ ring[1].ret >= 1 /\ ring[1].ret <= Len(Object(Out)) - Out.sentlen
      <4>1. HasPending(Out) /\ ring[1].ret <= Len(ring[1].cells)
            /\ Len(ring[1].cells) <= Len(Object(Out)) - Out.sentlen
        BY <1>2 DEF Covers
      <4>2. Len(Object(Out)) \in Nat
        BY <1>2, <4>1, ObjectFacts
      <4> QED
        BY <1>2, <1>5, <2>2, <4>1, <4>2
    <3>2. p = Ack(Out, ring[1].ret)
      BY <2>2
    <3> HIDE DEF p
    <3> DEFINE n == ring[1].ret
    <3>3. n \in Nat /\ Sound(Out) /\ Laid(Out.buf, Out.reply, a, produced)
          /\ n >= 1 /\ n <= Len(Object(Out)) - Out.sentlen /\ p = Ack(Out, n)
      BY <1>2, <1>4, <1>5, <3>1, <3>2
    <3> HIDE DEF n
    <3>4. \E c \in Nat : Laid(p.buf, p.reply, c, produced)
                          /\ c + p.sentlen = a + Out.sentlen + n
      BY <3>1, <3>3, AckLaid, ZenonT(60)
    <3> QED
      BY <1>2, <1>5, <3>4 DEF n
  <2> QED
    BY <2>1, <2>2
<1>7. p \in OutState /\ (~HasPending(p) => p.sentlen = 0)
  <2>1. CASE ring[1].ret = 0
    BY <1>2, <2>1 DEF Sound
  <2>2. CASE ring[1].ret # 0
    <3>1. HasPending(Out) /\ ring[1].ret <= Len(ring[1].cells)
          /\ Len(ring[1].cells) <= Len(Object(Out)) - Out.sentlen
      BY <1>2 DEF Covers
    <3>2. Len(Object(Out)) \in Nat
      BY <1>2, <3>1, ObjectFacts
    <3>3. Sound(Ack(Out, ring[1].ret))
      BY <1>2, <1>5, <2>2, <3>1, <3>2, AckSound
    <3> QED
      BY <2>2, <3>3 DEF Sound
  <2> QED
    BY <2>1, <2>2
<1> HIDE DEF p
<1>8. ASSUME SetOut(p), Ret' = 0 PROVE Out' = p /\ WireAndOutput'
  <2>1. buf' = p.buf /\ sentlen' = p.sentlen /\ reply' = p.reply
    BY <1>8 DEF SetOut
  <2>2. Out' = p
    BY <1>7, <2>1 DEF Out, OutState
  <2>3. c + sentlen' + Ret' = a + sentlen + Ret
    BY <1>6, <1>7, <1>8, <2>1 DEF OutState
  <2> QED
    BY <1>3, <1>4, <1>6, <2>1, <2>2, <2>3 DEF WireAndOutput
<1>9. CASE /\ ring[1].err = "EPIPE" /\ closing' = FreeAsync("aborted")
           /\ ring' = <<>> /\ UNCHANGED outvars
  <2>1. Ret = 0 /\ Ret' = 0
    BY <1>2, <1>9 DEF OpFaithful, Ret
  <2>2. WireAndOutput'
    BY <1>3, <1>9, <2>1 DEF Stream6Inv, WireAndOutput, outvars
  <2>3. closing' # "drained"
    BY <1>2, <1>9 DEF FreeAsync
  <2> QED
    BY <1>1, <1>9, <2>2, <2>3 DEF Stream6Inv
<1>10. CASE /\ ~MoreToSend(p) /\ SetOut([p EXCEPT !.sentlen = 0]) /\ ring' = <<>>
  <2>1. ~HasPending(p) /\ [p EXCEPT !.sentlen = 0] = p
    BY <1>7, <1>10 DEF MoreToSend, OutState
  <2>2. Out' = p /\ WireAndOutput'
    BY <1>8, <1>10, <2>1 DEF Ret
  <2> QED
    BY <1>1, <1>10, <2>1, <2>2 DEF Stream6Inv
<1>11. ASSUME SetOut(p), NEW n \in Results, WriteToClient(p, <<>>, FALSE, n),
              UNCHANGED closing
       PROVE  Stream6Inv'
  <2>1. Out' = p
    BY <1>7, <1>11 DEF SetOut, Out, OutState
  <2>2. /\ Ret' = 0
        /\ ring' # <<>> => OpFaithful(ring[1])'
    BY <1>11, <2>1, NewOpFaithful
  <2>3. WireAndOutput'
    BY <1>8, <1>11, <2>2
  <2> QED
    BY <1>1, <1>2, <1>11, <2>2, <2>3 DEF Stream6Inv
<1> QED
  BY <1>2, <1>9, <1>10, <1>11 DEF Completion, p

\* CLIENT KILL, and freeing.
LEMMA FreeWire ==
  ASSUME Stream6Inv, KillClient \/ FreeClientsInAsyncFreeQueue
  PROVE  Stream6Inv'
<1>1. Flight6Inv /\ Flight6Inv' /\ TypeOK
  BY FreeKeeps DEF Stream6Inv, Flight6Inv
<1>2. CASE KillClient
  <2>1. UNCHANGED <<buf, reply, sentlen, produced, freed, wire, ring>> /\ closing' = "aborted"
    BY <1>2 DEF KillClient, outvars, sockvars
  <2>2. Out' = Out /\ Ret' = Ret
    BY <2>1 DEF Out, Ret
  <2>3. WireAndOutput'
    BY <2>1, <2>2 DEF Stream6Inv, WireAndOutput
  <2>4. ring' # <<>> => OpFaithful(ring[1])'
    BY <2>1, <2>2 DEF Stream6Inv, OpFaithful
  <2> QED
    BY <1>1, <2>1, <2>3, <2>4 DEF Stream6Inv
<1>3. CASE FreeClientsInAsyncFreeQueue
  <2>1. buf' = <<>> /\ reply' = <<>> /\ produced' = produced /\ freed' /\ ring' = <<>>
    BY <1>3 DEF FreeClientsInAsyncFreeQueue
  <2>2. Laid(buf', reply', produced, produced')
    BY <1>1, <2>1, LaidNothing DEF TypeOK
  <2>3. WireAndOutput'
    BY <2>1, <2>2 DEF WireAndOutput
  <2>4. ~HasPending(Out')
    BY <2>1 DEF HasPending, Out
  <2> QED
    BY <1>1, <2>1, <2>3, <2>4 DEF Stream6Inv
<1> QED
  BY <1>2, <1>3

\* The ring writes what the cells of the operation hold.
LEMMA RingWriteWire ==
  ASSUME Stream6Inv, NEW i \in DOMAIN ring, RingWrite(i)
  PROVE  Stream6Inv'
<1>1. Flight6Inv /\ Flight6Inv' /\ TypeOK
  BY OutsideKeeps DEF Stream6Inv, Flight6Inv
<1>2. /\ i = 1 /\ ring # <<>> /\ ring[1] \in Op /\ ring \in Seq(Op) /\ Len(ring) = 1
      /\ ~freed /\ Covers(ring[1], Out) /\ Sound(Out) /\ OpFaithful(ring[1])
  BY <1>1, OnlyOne DEF Stream6Inv, Flight6Inv, TypeOK
<1>3. UNCHANGED <<buf, reply, sentlen, produced, freed, closing>> /\ Out' = Out
      /\ ring[1].st = "flight"
  BY <1>2 DEF RingWrite, outvars, lifevars, Out
<1>4. PICK n \in 1..Len(ring[1].cells) :
        /\ wire' = wire \o [j \in 1..n |-> Load(ring[1].cells[j])]
        /\ ring' = [ring EXCEPT ![1].st = "done", ![1].ret = n]
  <2>1. RingWrite(1)
    BY <1>2
  <2> QED
    BY <2>1 DEF RingWrite
<1>5. Ret = 0
  BY <1>2, <1>3 DEF OpFaithful, Ret
<1>6. PICK a : Laid(buf, reply, a, produced) /\ wire = Run(0, a + sentlen + Ret)
  BY <1>2 DEF Stream6Inv, WireAndOutput
<1>7. /\ a \in Nat /\ sentlen \in Nat /\ Len(ring[1].cells) \in Nat /\ n \in Nat
      /\ HasPending(Out) /\ Len(ring[1].cells) <= Len(Object(Out)) - sentlen
      /\ Len(Object(Out)) \in Nat
  <2>1. HasPending(Out) /\ Len(ring[1].cells) <= Len(Object(Out)) - sentlen
    BY <1>1, <1>2, OutFacts DEF Covers
  <2> QED
    BY <1>1, <1>2, <1>6, <2>1, LaidFacts, ObjectFacts DEF TypeOK, Op
<1> DEFINE x == a + sentlen
           new == [j \in 1..n |-> Load(ring[1].cells[j])]
<1>8. \A j \in 1..n : Load(ring[1].cells[j]) = x + j
  <2> TAKE j \in 1..n
  <2>1. j \in 1..Len(ring[1].cells) /\ j \in 1..(Len(Object(Out)) - sentlen)
    BY <1>7
  <2>2. ring[1].cells[j] = Cells(Out)[j]
    BY <1>2, <2>1 DEF OpFaithful
  <2>3. Load(Cells(Out)[j]) = a + sentlen + j
    BY <1>1, <1>2, <1>6, <1>7, <2>1, CellsLoad
  <2> QED
    BY <2>2, <2>3
<1>9. new = Run(x, x + n)
  <2>1. (x + n) - x = n
    BY <1>7
  <2> QED
    BY <1>8, <2>1 DEF Run
<1>10. wire' = Run(0, x + n)
  <2>1. x \in Nat /\ x + n \in Nat /\ 0 <= x /\ x <= x + n /\ a + sentlen + Ret = x
    BY <1>5, <1>7
  <2> HIDE DEF x, new
  <2>2. Run(0, x) \o Run(x, x + n) = Run(0, x + n)
    BY <2>1, RunConcat
  <2> QED
    BY <1>4, <1>6, <1>9, <2>1, <2>2 DEF new
<1>11. /\ ring' # <<>> /\ ring'[1].ret = n /\ ring'[1].st = "done" /\ ring'[1].err = ring[1].err
       /\ ring'[1].cells = ring[1].cells
  <2>1. DOMAIN ring' = DOMAIN ring /\ ring'[1] = [ring[1] EXCEPT !.st = "done", !.ret = n]
    BY <1>2, <1>4
  <2>2. ring' # <<>>
    BY <1>2, <2>1
  <2> QED
    BY <1>2, <2>1, <2>2 DEF Op
<1>12. WireAndOutput'
  <2>1. Ret' = n
    BY <1>11 DEF Ret
  <2> QED
    BY <1>3, <1>6, <1>10, <2>1 DEF WireAndOutput
<1>13. ring[1].err = "none"
  BY <1>2, <1>3 DEF OpFaithful
<1> QED
  BY <1>1, <1>3, <1>11, <1>12, <1>13 DEF Stream6Inv, OpFaithful

\* The ring fails, the peer reads.
LEMMA RingFailWire ==
  ASSUME Stream6Inv, (\E i \in DOMAIN ring : RingFail(i)) \/ PeerRead
  PROVE  Stream6Inv'
<1>1. Flight6Inv /\ Flight6Inv' /\ TypeOK
  BY OutsideKeeps DEF Stream6Inv, Flight6Inv
<1>2. UNCHANGED <<buf, reply, sentlen, produced, freed, closing, wire>> /\ Out' = Out
  BY DEF RingFail, PeerRead, outvars, lifevars, sockvars, Out
<1>3. ASSUME NEW i \in DOMAIN ring, RingFail(i) PROVE Stream6Inv'
  <2>1. /\ i = 1 /\ ring # <<>> /\ ring[1] \in Op /\ ring \in Seq(Op) /\ Len(ring) = 1
        /\ OpFaithful(ring[1]) /\ ring[1].st = "flight"
    BY <1>1, <1>3, OnlyOne DEF Stream6Inv, TypeOK, RingFail
  <2>2. PICK e \in {"EAGAIN", "EINTR", "EPIPE"} :
          ring' = [ring EXCEPT ![1].st = "done", ![1].err = e]
    BY <1>3, <2>1 DEF RingFail
  <2>3. DOMAIN ring' = DOMAIN ring /\ ring'[1] = [ring[1] EXCEPT !.st = "done", !.err = e]
    BY <2>1, <2>2
  <2>4. ring' # <<>>
    BY <2>1, <2>3
  <2>5. ring'[1].ret = ring[1].ret /\ ring'[1].cells = ring[1].cells /\ ring'[1].st = "done"
    BY <2>1, <2>3 DEF Op
  <2>6. Ret' = Ret
    BY <2>1, <2>4, <2>5 DEF Ret
  <2>7. WireAndOutput'
    BY <1>2, <2>6 DEF Stream6Inv, WireAndOutput
  <2>8. OpFaithful(ring[1])'
    BY <1>2, <2>1, <2>5 DEF OpFaithful
  <2> QED
    BY <1>1, <1>2, <2>7, <2>8 DEF Stream6Inv
<1>4. CASE PeerRead
  <2>1. ring' = ring
    BY <1>4 DEF PeerRead
  <2>2. Ret' = Ret
    BY <2>1 DEF Ret
  <2>3. WireAndOutput'
    BY <1>2, <2>2 DEF Stream6Inv, WireAndOutput
  <2>4. ring' # <<>> => OpFaithful(ring[1])'
    BY <1>2, <2>1 DEF Stream6Inv, OpFaithful
  <2> QED
    BY <1>1, <1>2, <2>3, <2>4 DEF Stream6Inv
<1> QED
  BY <1>3, <1>4

\* Every step keeps it.
LEMMA Stream6Step == Stream6Inv /\ [Next]_vars => Stream6Inv'
<1> SUFFICES ASSUME Stream6Inv, [Next]_vars PROVE Stream6Inv'
  OBVIOUS
<1>1. ASSUME NEW last \in BOOLEAN, AddReply(last) PROVE Stream6Inv'
  BY <1>1, AddReplyWire
<1>2. CASE FlushPendingWrites
  BY <1>2, FlushWire
<1>3. ASSUME NEW i \in DOMAIN ring, Completion(i) PROVE Stream6Inv'
  BY <1>3, CompletionWire
<1>4. CASE KillClient \/ FreeClientsInAsyncFreeQueue
  BY <1>4, FreeWire
<1>5. ASSUME NEW i \in DOMAIN ring, RingWrite(i) PROVE Stream6Inv'
  BY <1>5, RingWriteWire
<1>6. CASE (\E i \in DOMAIN ring : RingFail(i)) \/ PeerRead
  BY <1>6, RingFailWire
<1>7. CASE UNCHANGED vars
  <2>1. UNCHANGED <<buf, reply, sentlen, produced, freed, closing, wire, ring>>
        /\ Out' = Out /\ Ret' = Ret
    BY <1>7 DEF vars, outvars, lifevars, sockvars, Out, Ret
  <2>2. Flight6Inv'
    BY <1>7, Flight6Step DEF Stream6Inv
  <2>3. WireAndOutput'
    BY <2>1 DEF Stream6Inv, WireAndOutput
  <2>4. ring' # <<>> => OpFaithful(ring[1])'
    BY <2>1 DEF Stream6Inv, OpFaithful
  <2> QED
    BY <2>1, <2>2, <2>3, <2>4 DEF Stream6Inv
<1> QED
  BY <1>1, <1>2, <1>3, <1>4, <1>5, <1>6, <1>7 DEF Next

\* The invariant of the stream holds at the start.
LEMMA Stream6Init == Init => Stream6Inv
<1> SUFFICES ASSUME Init PROVE Stream6Inv
  OBVIOUS
<1>1. Flight6Inv
  BY Flight6Init
<1>2. /\ buf = <<>> /\ reply = <<>> /\ sentlen = 0 /\ produced = 0 /\ wire = <<>>
      /\ ring = <<>> /\ closing = "no" /\ Ret = 0
  BY DEF Init, Ret
<1>3. Laid(<<>>, <<>>, 0, 0) /\ Run(0, 0) = <<>>
  BY LaidNothing, RunFacts
<1>4. WireAndOutput
  <2>1. wire = Run(0, 0 + sentlen + Ret)
    BY <1>2, <1>3
  <2> QED
    BY <1>2, <1>3, <2>1 DEF WireAndOutput
<1> QED
  BY <1>1, <1>2, <1>4 DEF Stream6Inv

\* The invariant of the stream holds in every state.
LEMMA Stream6Invariant == Spec => []Stream6Inv
  BY Stream6Init, Stream6Step, PTL DEF Spec

-----------------------------------------------------------------------------
(* Steps of the path as steps of the stream. *)

\* The socket takes none, some or all of what is pending; the connection stays as it is,
\* or ends: aborted, or drained when it was to close after its reply.
LEMMA StreamMoves ==
  ASSUME Stream6Inv, Stream6Inv', ~freed, ~freed', produced' = produced,
         closeAfter' = closeAfter, Len(wire) <= Len(wire'),
         \/ closing' = closing
         \/ closing = "no" /\ closing' = "drained" /\ closeAfter
         \/ closing = "no" /\ closing' = "aborted"
  PROVE  [RS!Next]_RS!rsvars
<1> DEFINE w == Len(wire)
           v == Len(wire')
           n == v - w
<1>1. /\ wire = Run(0, w) /\ w \in Nat /\ produced \in Nat /\ w <= produced
      /\ Pend = Run(w, produced)
  BY PendRun DEF PendIsRun
<1>2. /\ wire' = Run(0, v) /\ v \in Nat /\ v <= produced /\ Pend' = Run(v, produced)
      /\ ~HasPending(Out)' => v = produced
  BY PendRunNext DEF PendIsRun
<1>3. closing \in {"no", "drained", "aborted"} /\ closeAfter \in BOOLEAN
  BY DEF Stream6Inv, Flight6Inv, TypeOK
<1>4. w <= v
  OBVIOUS
<1>5. closing' = "drained" => v = produced
  BY <1>2 DEF Stream6Inv
<1> HIDE DEF w, v
<1>6. /\ n \in 0..(produced - w) /\ n \in Nat /\ w + n = v
      /\ (v # w => n # 0)
  BY <1>1, <1>2, <1>4
<1> HIDE DEF n
<1>7. Len(Pend) = produced - w
  BY <1>1, RunFacts
<1>8. Pend' = SubSeq(Pend, n + 1, Len(Pend)) /\ SubSeq(Pend, 1, n) = Run(w, v)
  <2>1. /\ SubSeq(Run(w, produced), n + 1, produced - w) = Run(w + n, produced)
        /\ SubSeq(Run(w, produced), 1, n) = Run(w, w + n)
    BY <1>1, <1>6, RunSplit
  <2> QED
    BY <1>1, <1>2, <1>6, <1>7, <2>1
<1>9. wire' = wire \o SubSeq(Pend, 1, n)
  <2>1. Run(0, w) \o Run(w, v) = Run(0, v)
    <3>1. 0 \in Nat /\ 0 <= w
      BY <1>1
    <3> QED
      BY <1>1, <1>2, <1>4, <3>1, RunConcat
  <2> QED
    BY <1>1, <1>2, <1>8, <2>1
<1>10. CASE closing' = closing /\ v = w
  <2>1. UNCHANGED <<Pend, wire, StreamState>>
    BY <1>1, <1>2, <1>10 DEF StreamState
  <2> QED
    BY <2>1 DEF RS!rsvars, Pend, StreamState
<1>11. CASE closing' = closing /\ v # w
  <2>1. n \in 1..Len(Pend)
    BY <1>6, <1>7, <1>11
  <2>2. StreamState' = StreamState
    BY <1>11 DEF StreamState
  <2>3. RS!Deliver
    BY <1>8, <1>9, <2>1, <2>2 DEF RS!Deliver, Pend, StreamState
  <2> QED
    BY <2>3 DEF RS!Next
<1>12. CASE closing = "no" /\ closing' = "drained" /\ closeAfter
  <2>1. StreamState = "last" /\ StreamState' = "done"
    BY <1>12 DEF StreamState
  <2>2. Pend' = <<>>
    BY <1>2, <1>5, <1>12, RunFacts
  <2>3. n \in 0..Len(Pend)
    BY <1>6, <1>7
  <2>4. RS!DeliverAndClose
    BY <1>8, <1>9, <2>1, <2>2, <2>3 DEF RS!DeliverAndClose, Pend, StreamState
  <2> QED
    BY <2>4 DEF RS!Next
<1>13. CASE closing = "no" /\ closing' = "aborted"
  <2>1. StreamState \in {"open", "last"} /\ StreamState' = "aborted"
    BY <1>13 DEF StreamState
  <2>2. n \in 0..Len(Pend)
    BY <1>6, <1>7
  <2>3. RS!DeliverAndClose
    BY <1>8, <1>9, <2>1, <2>2 DEF RS!DeliverAndClose, Pend, StreamState
  <2> QED
    BY <2>3 DEF RS!Next
<1> QED
  BY <1>10, <1>11, <1>12, <1>13

\* A reply that is added is pending behind all others.
LEMMA AddReplyStream ==
  ASSUME Stream6Inv, Stream6Inv', NEW last \in BOOLEAN, AddReply(last)
  PROVE  RS!Next
<1> DEFINE w == Len(wire)
<1>1. /\ ~freed /\ ~freed' /\ wire' = wire /\ closing = "no" /\ closing' = "no"
      /\ ~closeAfter /\ closeAfter' = last /\ produced' = produced + 1
      /\ produced < MaxUnits
  BY DEF AddReply, sockvars
<1>2. /\ w \in Nat /\ produced \in Nat /\ w <= produced /\ Pend = Run(w, produced)
  BY <1>1, PendRun DEF PendIsRun
<1>3. Pend' = Run(w, produced + 1)
  BY <1>1, PendRunNext DEF PendIsRun
<1> HIDE DEF w
<1>4. produced + 1 \in Nat /\ produced < produced + 1 /\ (produced + 1)..(produced + 1) \subseteq 1..MaxUnits
  BY <1>1, <1>2, Constants6Assumption
<1>5. RS!IsStrictPrefix(Pend, Pend')
  BY <1>2, <1>3, <1>4, RunPrefix DEF RS!IsStrictPrefix, RS!IsPrefix
<1>6. \A j \in (Len(Pend) + 1)..Len(Pend') : Pend'[j] \in 1..MaxUnits
  BY <1>2, <1>3, <1>4, RunPrefix
<1>7. StreamState = "open" /\ StreamState' \in {"open", "last"}
  BY <1>1 DEF StreamState
<1>8. RS!Produce
  BY <1>1, <1>5, <1>6, <1>7 DEF RS!Produce, Pend, StreamState
<1> QED
  BY <1>8 DEF RS!Next

\* A step that leaves the wire alone, what is produced and the connection's end.
LEMMA StreamRests ==
  ASSUME Stream6Inv, Stream6Inv', ~freed, ~freed',
         UNCHANGED <<wire, produced, closing, closeAfter>>
  PROVE  [RS!Next]_RS!rsvars
<1>1. Len(wire) <= Len(wire')
  <2>1. Len(wire) \in Nat
    BY PendRun DEF PendIsRun
  <2> QED
    BY <2>1
<1> QED
  BY <1>1, StreamMoves

\* Every step of the path is a step of the stream, or leaves it alone.
LEMMA StreamStep == Stream6Inv /\ [Next]_vars => [RS!Next]_RS!rsvars
<1> SUFFICES ASSUME Stream6Inv, [Next]_vars PROVE [RS!Next]_RS!rsvars
  OBVIOUS
<1>1. Stream6Inv'
  BY Stream6Step
<1>2. ASSUME ~freed PROVE Len(wire) \in Nat /\ Len(wire) <= Len(wire)
  BY <1>2, PendRun DEF PendIsRun
<1>3. ASSUME NEW last \in BOOLEAN, AddReply(last) PROVE RS!Next
  BY <1>1, <1>3, AddReplyStream
<1>4. CASE FlushPendingWrites
  <2>1. ~freed /\ ~freed' /\ UNCHANGED <<wire, produced, closing, closeAfter>>
    BY <1>4 DEF FlushPendingWrites, lifevars, sockvars
  <2> QED
    BY <1>1, <2>1, StreamRests
<1>5. ASSUME NEW i \in DOMAIN ring, Completion(i) PROVE [RS!Next]_RS!rsvars
  <2>1. ~freed /\ ~freed' /\ UNCHANGED <<wire, produced, closeAfter>>
    BY <1>5 DEF Completion, sockvars
  <2>2. \/ closing' = closing
        \/ closing = "no" /\ closing' = "drained" /\ closeAfter
        \/ closing = "no" /\ closing' = "aborted"
    BY <1>5 DEF Completion, FreeAsync, CloseWhenDrained
  <2>3. Len(wire) <= Len(wire')
    BY <1>2, <2>1
  <2> QED
    BY <1>1, <2>1, <2>2, <2>3, StreamMoves
<1>6. CASE KillClient
  <2>1. /\ ~freed /\ ~freed' /\ UNCHANGED <<wire, produced, closeAfter>>
        /\ closing = "no" /\ closing' = "aborted"
    BY <1>6 DEF KillClient, sockvars
  <2>2. Len(wire) <= Len(wire')
    BY <1>2, <2>1
  <2> QED
    BY <1>1, <2>1, <2>2, StreamMoves
<1>7. CASE FreeClientsInAsyncFreeQueue
  <2>1. /\ ~freed /\ freed' = TRUE /\ closing # "no" /\ closing' = closing
        /\ closeAfter' = closeAfter /\ wire' = wire
    BY <1>7 DEF FreeClientsInAsyncFreeQueue, sockvars
  <2>2. Pend' = <<>> /\ StreamState' = StreamState
    BY <2>1 DEF Pend, StreamState
  <2>3. CASE closing = "aborted"
    <3>1. StreamState = "aborted"
      BY <2>3 DEF StreamState
    <3>2. RS!Discard
      BY <2>1, <2>2, <3>1 DEF RS!Discard, Pend, StreamState
    <3> QED
      BY <3>2 DEF RS!Next
  <2>4. CASE closing = "drained"
    <3>1. Len(wire) = produced /\ produced \in Nat /\ Pend = Run(Len(wire), produced)
      BY <2>1, <2>4, PendRun DEF PendIsRun, Stream6Inv
    <3>2. Pend = <<>>
      BY <3>1, RunFacts
    <3> QED
      BY <2>1, <2>2, <3>2 DEF RS!rsvars, Pend, StreamState
  <2> QED
    BY <2>1, <2>3, <2>4 DEF Stream6Inv, Flight6Inv, TypeOK
<1>8. ASSUME NEW i \in DOMAIN ring, RingWrite(i) PROVE [RS!Next]_RS!rsvars
  <2>1. ~freed
    BY OnlyOne DEF Stream6Inv, Flight6Inv
  <2>2. ~freed' /\ UNCHANGED <<produced, closing, closeAfter>>
    BY <1>8, <2>1 DEF RingWrite, lifevars
  <2>3. Len(wire) <= Len(wire')
    <3>1. PICK n \in 1..Len(ring[i].cells) :
            wire' = wire \o [j \in 1..n |-> Load(ring[i].cells[j])]
      BY <1>8 DEF RingWrite
    <3> DEFINE new == [j \in 1..n |-> Load(ring[i].cells[j])]
    <3>2. wire \in Seq(Nat) /\ new \in Seq(Nat)
      <4>1. \A j \in 1..n : Load(ring[i].cells[j]) \in Nat
        BY LoadNat DEF Stream6Inv, Flight6Inv
      <4>2. n \in Nat
        <5>1. ring[i] \in Op
          BY OnlyOne DEF Stream6Inv
        <5>2. Len(ring[i].cells) \in Nat
          BY <5>1 DEF Op
        <5> QED
          BY <5>2
      <4> QED
        BY <4>1, <4>2 DEF Stream6Inv, Flight6Inv, TypeOK
    <3> HIDE DEF new
    <3>3. Len(wire \o new) = Len(wire) + Len(new) /\ Len(new) \in Nat /\ Len(wire) \in Nat
      BY <3>2, ConcatProperties
    <3> QED
      BY <3>1, <3>3 DEF new
  <2> QED
    BY <1>1, <2>1, <2>2, <2>3, StreamMoves
<1>9. ASSUME NEW i \in DOMAIN ring, RingFail(i) PROVE [RS!Next]_RS!rsvars
  <2>1. ~freed
    BY OnlyOne DEF Stream6Inv, Flight6Inv
  <2>2. ~freed' /\ UNCHANGED <<wire, produced, closing, closeAfter>>
    BY <1>9, <2>1 DEF RingFail, lifevars, sockvars
  <2> QED
    BY <1>1, <2>1, <2>2, StreamRests
<1>10. CASE PeerRead \/ UNCHANGED vars
  <2>1. UNCHANGED <<buf, reply, sentlen, ring, freed, wire, closing, closeAfter>>
    BY <1>10 DEF PeerRead, vars, outvars, lifevars, sockvars
  <2>2. Pend' = Pend /\ StreamState' = StreamState
    BY <2>1 DEF Pend, StreamState, Unsent, Listed
  <2> QED
    BY <2>1, <2>2 DEF RS!rsvars, Pend, StreamState
<1> QED
  BY <1>3, <1>4, <1>5, <1>6, <1>7, <1>8, <1>9, <1>10 DEF Next

\* Initially nothing is pending or delivered.
LEMMA StreamInit == Init => RS!Init
<1> SUFFICES ASSUME Init PROVE RS!Init
  OBVIOUS
<1>1. Stream6Inv /\ ~freed /\ wire = <<>> /\ closing = "no" /\ ~closeAfter /\ produced = 0
  BY Stream6Init DEF Init
<1>2. Pend = Run(0, 0)
  <2>1. Len(wire) = 0
    BY <1>1
  <2> QED
    BY <1>1, <2>1, PendRun DEF PendIsRun
<1>3. Pend = <<>>
  BY <1>2, RunFacts
<1> QED
  BY <1>1, <1>3 DEF RS!Init, Pend

\* The 6.0 path implements ReplyStream: although a completion is accounted against
\* whatever object is next by then, and submissions are not guarded, every unit reaches
\* the socket once and in order, and only an aborted client loses any.
THEOREM StreamAlwaysInOrder6 == Spec => StreamInOrder
  BY StreamInit, StreamStep, Stream6Invariant, PTL DEF Spec, StreamInOrder, RS!Spec
=============================================================================

---------------------------- MODULE KraioReplica ----------------------------
(***************************************************************************)
(* The replica branch of the 7.0.15 patch kunpeng-iouring.  All replicas   *)
(* and the backlog share one list of replication blocks; each of them      *)
(* holds a reference on the block it stands in and none on the blocks that *)
(* follow, which live because blocks are only ever trimmed from the head   *)
(* of the list.  A write of a replica in the ring reads memory of the      *)
(* block the replica stood in when it was submitted, and while it is in    *)
(* flight the stream goes on, other replicas move and the backlog is       *)
(* trimmed.                                                                *)
(*                                                                         *)
(* The stream is numbered in units; block b holds the units of             *)
(* (b-1)*BlockCap+1 .. b*BlockCap, as far as they are produced.            *)
(***************************************************************************)
EXTENDS KraioLib, Sequences, FiniteSets, FiniteSetsExt

CONSTANTS
  Replica,         \* descriptors of replica connections
  MaxUnits,        \* bound: units of the replication stream
  BlockCap,        \* units in one replBufBlock
  BacklogSize,     \* repl_backlog_size, in units
  SockCap,         \* units a socket's send buffer holds
  MaxErr,          \* bound: failed operations
  MaxAttach        \* bound: replicas that attach

ASSUME ReplicaAssumption ==
  /\ IsFiniteSet(Replica)
  /\ {MaxUnits, BacklogSize, MaxErr, MaxAttach} \subseteq Nat
  /\ {BlockCap, SockCap} \subseteq Nat \ {0}

VARIABLES
  produced,        \* units of the stream so far
  backlog,         \* the block repl_backlog->ref_repl_buf_node, the head of the
                   \* list; 0 before there is any
  refs,            \* refcount of each block
  at,              \* ref_repl_buf_node: the block of each replica, 0 is NULL
  pos,             \* ref_block_pos
  async,           \* CLIENT_ASYNC
  queued,          \* in server.clients_pending_write
  handler,         \* sendReplyToClient is installed
  life,            \* "none", "online", "closing" (CLIENT_CLOSE_ASAP)
  ring,            \* accepted operations that have not called back
  sock,            \* units in each socket's send buffer
  wire,            \* units each socket took, in order
  from,            \* the replication offset each replica asked for
  refused,         \* history: a submission for this replica was refused
  errors,          \* failed operations so far
  attached         \* replicas attached so far

blockvars == <<produced, backlog, refs>>
placevars == <<at, pos>>
linkvars == <<async, queued, handler, life>>
peervars == <<sock, wire, from>>
boundvars == <<errors, attached>>
vars == <<blockvars, placevars, linkvars, ring, peervars, refused, boundvars>>

\* A constructor of networking.c registers both completion functions before main();
\* nothing registers a log function.
Registered == Registrable \ {"log"}

Block == 1..(MaxUnits \div BlockCap + 1)

-----------------------------------------------------------------------------
(* Blocks. *)

\* used of block b when the stream has n units.
Used(b, n) == Min({BlockCap, n - (b - 1) * BlockCap})

\* clientHasPendingReplies() of a replica at block b, position p, with n units.
HasPending(b, p, n) ==
  b # 0 /\ ~(b = (n + BlockCap - 1) \div BlockCap /\ p = Used(b, n))

\* Units in front of a position.
Offset(b, p) == (b - 1) * BlockCap + p

\* (variant: the reference stays where it is)
StandingAtEnd(u, n) ==
  LET b == Max({1, (u + BlockCap - 1) \div BlockCap}) IN <<b, u - (b - 1) * BlockCap>>

\* Where a replica stands that has sent u of n units: it leaves a block it has sent
\* if there is another one (lines 110-116, 356-362).
Standing(u, n) ==
  LET b == u \div BlockCap + 1 IN
  IF u = n /\ u > 0 /\ u % BlockCap = 0 THEN <<b - 1, BlockCap>>
  ELSE <<b, u - (b - 1) * BlockCap>>

\* (variant: the block that is left keeps its count)
MoveRefKeeps(rc, old, new) == [b \in DOMAIN rc |-> rc[b] + (IF b = new THEN 1 ELSE 0)]

\* refcount-- of one block and refcount++ of another; 0 is no block.
MoveRef(rc, old, new) ==
  [b \in DOMAIN rc |-> rc[b] - (IF b = old THEN 1 ELSE 0) + (IF b = new THEN 1 ELSE 0)]

\* (variant: blocks that are still referenced are trimmed)
TrimStopsBySize(head, b, rc, n) ==
  \/ b * BlockCap >= n
  \/ n - b * BlockCap <= BacklogSize

\* incrementalTrimReplicationBacklog() from head does not release block b: it is the
\* last one, somebody besides the backlog refers to it, or the history would become too
\* short.
TrimStops(head, b, rc, n) ==
  \/ b * BlockCap >= n
  \/ rc[b] > (IF b = head THEN 1 ELSE 0)
  \/ n - b * BlockCap <= BacklogSize

\* The head of the list after trimming.
Trimmed(head, rc, n) ==
  IF head = 0 THEN 0 ELSE Min({b \in Block : b >= head /\ TrimStops(head, b, rc, n)})

\* backlog and refs after references changed to rc and the list was trimmed from head.
Trim(head, rc, n) ==
  /\ backlog' = Trimmed(head, rc, n)
  /\ refs' = MoveRef(rc, head, Trimmed(head, rc, n))

-----------------------------------------------------------------------------
(* Writing to one replica. *)

Room(r) == SockCap - sock[r]

\* What memory holds: the units u + 1 .. u + n if their block is still in the list.
Junk == 0
Load(b, u, n) == [i \in 1..n |-> IF b >= backlog THEN u + i ELSE Junk]

\* The guard at the top of writeToClient().
InFlight(flag) == flag

\* The loop of writeToClient() for a replica that has sent u units, with rest in the
\* ring besides: m units go out synchronously, block by block, each time the ring
\* refuses; then the ring accepts the rest of a block, or nothing is left, or the
\* socket is full, or it is broken.  caller is "queue", "handler" or "callback".
WriteLoop(r, u, rest, caller) ==
  \E m \in 0..Min({Room(r), produced - u}), answer \in Results :
    LET old == at[r]
        new == Standing(u + m, produced)
        pending == HasPending(new[1], new[2], produced) IN
    /\ Trim(backlog, MoveRef(refs, old, new[1]), produced)
    /\ at' = [at EXCEPT ![r] = new[1]]
    /\ pos' = [pos EXCEPT ![r] = new[2]]
    /\ sock' = [sock EXCEPT ![r] = @ + m]
    /\ wire' = [wire EXCEPT ![r] = @ \o Load(old, u, m)]
    /\ refused' = [refused EXCEPT ![r] = @ \/ m > 0 \/ (pending /\ answer # 1)]
    /\ IF pending /\ Taken(answer)
       THEN /\ async' = [async EXCEPT ![r] = TRUE]
            /\ ring' = IF answer = 1
                       THEN rest \union {Operation("write", r, new, Used(new[1], produced) - new[2])}
                       ELSE rest
            /\ UNCHANGED <<handler, life, errors>>
       ELSE /\ async' = [async EXCEPT ![r] = FALSE]
            /\ ring' = rest
            /\ \/ \* all is sent: sendReplyToClient() removes its handler
                  /\ ~pending
                  /\ handler' = [handler EXCEPT ![r] = @ /\ caller # "handler"]
                  /\ UNCHANGED <<life, errors>>
               \/ \* EAGAIN
                  /\ pending /\ m = Room(r)
                  /\ handler' = [handler EXCEPT ![r] = @ \/ caller = "queue"]
                  /\ UNCHANGED <<life, errors>>
               \/ \* another error
                  /\ pending /\ errors < MaxErr
                  /\ errors' = errors + 1
                  /\ life' = [life EXCEPT ![r] = "closing"]
                  /\ UNCHANGED handler

WriteToClient(r, caller) ==
  IF InFlight(async[r])
  THEN /\ handler' = [handler EXCEPT ![r] = @ \/ (caller = "queue" /\
                                                 HasPending(at[r], pos[r], produced))]
       /\ UNCHANGED <<backlog, refs, placevars, async, life, ring, sock, wire, refused, errors>>
  ELSE IF at[r] = 0
  THEN UNCHANGED <<backlog, refs, placevars, async, handler, life, ring, sock, wire,
                   refused, errors>>
  ELSE WriteLoop(r, Offset(at[r], pos[r]), ring, caller)

-----------------------------------------------------------------------------
(* The event loop. *)

\* replicationFeedSlaves() and feedReplicationBuffer(): replicas with nothing pending
\* are queued, n units are appended, replicas and backlog without a block get the
\* first one that received data, and the backlog is trimmed.
Feed(n) ==
  /\ produced + n <= MaxUnits
  /\ LET start == produced \div BlockCap + 1
         joins == {r \in Replica : life[r] # "none" /\ at[r] = 0}
         rc == [refs EXCEPT ![start] = @ + Cardinality(joins)
                                         + (IF backlog = 0 THEN 1 ELSE 0)] IN
     /\ at' = [r \in Replica |-> IF r \in joins THEN start ELSE at[r]]
     /\ pos' = [r \in Replica |-> IF r \in joins THEN produced % BlockCap ELSE pos[r]]
     /\ Trim(IF backlog = 0 THEN start ELSE backlog, rc, produced + n)
  /\ queued' = [r \in Replica |->
       queued[r] \/ (life[r] = "online" /\ ~HasPending(at[r], pos[r], produced))]
  /\ produced' = produced + n
  /\ UNCHANGED <<async, handler, life, ring, peervars, refused, boundvars>>

\* A replica asks for the stream after its first k units, which the backlog still has
\* (addReplyReplicationBacklog()), or for everything while there is no stream yet.
Attach(r, k) ==
  /\ life[r] = "none" /\ attached < MaxAttach
  /\ attached' = attached + 1
  /\ IF backlog = 0
     THEN k = 0 /\ UNCHANGED <<placevars, refs, queued>>
     ELSE /\ k >= Offset(backlog, 0)
          /\ LET b == Max({backlog, (k + BlockCap - 1) \div BlockCap}) IN
             /\ at' = [at EXCEPT ![r] = b]
             /\ pos' = [pos EXCEPT ![r] = k - Offset(b, 0)]
             /\ refs' = [refs EXCEPT ![b] = @ + 1]
          /\ queued' = [queued EXCEPT ![r] = TRUE]
  /\ life' = [life EXCEPT ![r] = "online"]
  /\ from' = [from EXCEPT ![r] = k]
  /\ wire' = [wire EXCEPT ![r] = <<>>]
  /\ sock' = [sock EXCEPT ![r] = 0]
  /\ refused' = [refused EXCEPT ![r] = FALSE]
  /\ UNCHANGED <<produced, backlog, async, handler, ring, errors>>

\* handleClientsWithPendingWrites().
FlushPendingWrites(r) ==
  /\ life[r] # "none" /\ queued[r]
  /\ queued' = [queued EXCEPT ![r] = FALSE]
  /\ IF life[r] = "online" THEN WriteToClient(r, "queue")
     ELSE UNCHANGED <<backlog, refs, placevars, async, handler, life, ring, sock, wire,
                      refused, errors>>
  /\ UNCHANGED <<produced, from, attached>>

\* sendReplyToClient().
EpollOut(r) ==
  /\ life[r] # "none" /\ handler[r] /\ Room(r) > 0
  /\ WriteToClient(r, "handler")
  /\ UNCHANGED <<produced, queued, from, attached>>

\* (variant: the position is not advanced when the block grew meanwhile)
AckUnlessGrown(op, b) == IF op.buf[2] + op.count = Used(b, produced) THEN op.ret ELSE 0

\* callback_before_common() advances by what was written.
Acked(op, b) == IF op.ret > 0 THEN op.ret ELSE 0

\* (variant: only the event loop's own writes install the handler)
NoHandler(pending) == FALSE

\* After EAGAIN, with output left, callback_after_common() installs the write handler.
WaitsForSocket(pending) == pending

\* write_callback_common() for a replica: callback_before_common() accounts and moves
\* the reference, callback_after_common() sends the rest, waits for EPOLLOUT after
\* EAGAIN, or gives the replica up.
Completion(op) ==
  LET r == op.fd
      u == Offset(at[r], pos[r]) + Acked(op, at[r])
      new == Standing(u, produced)
      pending == HasPending(new[1], new[2], produced)
      rest == ring \ {op}
      moved == op.ret > 0 IN
  /\ CallsBack(op, Registered)
  /\ \/ \* a broken connection
        /\ op.err = "EPIPE"
        /\ life' = [life EXCEPT ![r] = "closing"]
        /\ async' = [async EXCEPT ![r] = FALSE]
        /\ ring' = rest
        /\ UNCHANGED <<backlog, refs, placevars, handler, sock, wire, refused, errors>>
     \/ \* nothing left, or the socket is full
        /\ op.err # "EPIPE" /\ (pending => op.err = "EAGAIN")
        /\ IF moved
           THEN /\ Trim(backlog, MoveRef(refs, at[r], new[1]), produced)
                /\ at' = [at EXCEPT ![r] = new[1]]
                /\ pos' = [pos EXCEPT ![r] = new[2]]
           ELSE UNCHANGED <<backlog, refs, placevars>>
        /\ handler' = [handler EXCEPT ![r] = @ \/ WaitsForSocket(pending)]
        /\ async' = [async EXCEPT ![r] = FALSE]
        /\ ring' = rest
        /\ UNCHANGED <<life, sock, wire, refused, errors>>
     \/ \* the rest: writeToClient(c, 0), whose result is ignored
        /\ op.err \notin {"EPIPE", "EAGAIN"} /\ pending
        /\ WriteLoop(r, u, rest, "callback")
  /\ UNCHANGED <<produced, queued, from, attached>>

\* freeClientAsync() from elsewhere: CLIENT KILL, REPLICAOF, a replication timeout.
KillReplica(r) ==
  /\ life[r] = "online"
  /\ life' = [life EXCEPT ![r] = "closing"]
  /\ UNCHANGED <<blockvars, placevars, async, queued, handler, ring, peervars, refused,
                 boundvars>>

\* freeClient() with freeReplicaReferencedReplBuffer(); closing the descriptor is taken
\* to withdraw the operation of the replica.
FreeReplica(r) ==
  /\ life[r] = "closing"
  /\ life' = [life EXCEPT ![r] = "none"]
  /\ IF at[r] = 0 THEN UNCHANGED <<backlog, refs>>
     ELSE Trim(backlog, MoveRef(refs, at[r], 0), produced)
  /\ at' = [at EXCEPT ![r] = 0]
  /\ pos' = [pos EXCEPT ![r] = 0]
  /\ async' = [async EXCEPT ![r] = FALSE]
  /\ queued' = [queued EXCEPT ![r] = FALSE]
  /\ handler' = [handler EXCEPT ![r] = FALSE]
  /\ ring' = {op \in ring : op.fd # r}
  /\ UNCHANGED <<produced, peervars, refused, boundvars>>

-----------------------------------------------------------------------------
(* The ring and the peers. *)

RingWrite(op) ==
  /\ op.st = "flight"
  /\ \E n \in 1..Min({op.count, Room(op.fd)}) :
       /\ wire' = [wire EXCEPT ![op.fd] = @ \o Load(op.buf[1], Offset(op.buf[1], op.buf[2]), n)]
       /\ sock' = [sock EXCEPT ![op.fd] = @ + n]
       /\ ring' = (ring \ {op}) \union {Reported(op, n, "none")}
  /\ UNCHANGED <<blockvars, placevars, linkvars, from, refused, boundvars>>

RingFail(op) ==
  /\ op.st = "flight"
  /\ \E e \in {"EAGAIN", "EINTR", "EPIPE"} :
       /\ e = "EAGAIN" => Room(op.fd) = 0
       /\ e # "EAGAIN" => errors < MaxErr
       /\ errors' = IF e = "EAGAIN" THEN errors ELSE errors + 1
       /\ ring' = (ring \ {op}) \union {Reported(op, -1, e)}
  /\ UNCHANGED <<blockvars, placevars, linkvars, peervars, refused, attached>>

PeerRead(r) ==
  /\ sock[r] > 0
  /\ sock' = [sock EXCEPT ![r] = @ - 1]
  /\ UNCHANGED <<blockvars, placevars, linkvars, ring, wire, from, refused, boundvars>>

-----------------------------------------------------------------------------
Init ==
  /\ produced = 0 /\ backlog = 0 /\ refs = [b \in Block |-> 0]
  /\ at = [r \in Replica |-> 0] /\ pos = [r \in Replica |-> 0]
  /\ async = [r \in Replica |-> FALSE]
  /\ queued = [r \in Replica |-> FALSE]
  /\ handler = [r \in Replica |-> FALSE]
  /\ life = [r \in Replica |-> "none"]
  /\ ring = {}
  /\ sock = [r \in Replica |-> 0] /\ wire = [r \in Replica |-> <<>>]
  /\ from = [r \in Replica |-> 0] /\ refused = [r \in Replica |-> FALSE]
  /\ errors = 0 /\ attached = 0

Next ==
  \/ \E n \in 1..MaxUnits : Feed(n)
  \/ \E r \in Replica, k \in 0..produced : Attach(r, k)
  \/ \E r \in Replica : FlushPendingWrites(r)
  \/ \E r \in Replica : EpollOut(r)
  \/ \E op \in ring : Completion(op)
  \/ \E r \in Replica : KillReplica(r)
  \/ \E r \in Replica : FreeReplica(r)
  \/ \E op \in ring : RingWrite(op)
  \/ \E op \in ring : RingFail(op)
  \/ \E r \in Replica : PeerRead(r)

Spec == Init /\ [][Next]_vars

-----------------------------------------------------------------------------
(* Properties. *)

Op == [call : {"write"}, fd : Replica, buf : Block \X (0..BlockCap), count : 1..BlockCap,
       st : {"flight", "done"}, ret : -1..BlockCap,
       err : {"none", "EAGAIN", "EINTR", "EPIPE"}]

\* The values every variable takes.
TypeOK ==
  /\ produced \in 0..MaxUnits /\ backlog \in Block \union {0}
  /\ refs \in [Block -> Int]
  /\ at \in [Replica -> Block \union {0}] /\ pos \in [Replica -> 0..BlockCap]
  /\ async \in [Replica -> BOOLEAN] /\ queued \in [Replica -> BOOLEAN]
  /\ handler \in [Replica -> BOOLEAN] /\ refused \in [Replica -> BOOLEAN]
  /\ life \in [Replica -> {"none", "online", "closing"}]
  /\ ring \subseteq Op
  /\ sock \in [Replica -> 0..SockCap] /\ from \in [Replica -> 0..MaxUnits]
  /\ wire \in [Replica -> Seq(Nat)]
  /\ errors \in Nat /\ attached \in Nat

\* The patch moves references by hand in two places (lines 111-112, 357-358): every
\* block's count is the number of its holders, so a block is never released under a
\* replica and never kept for ever.
RefcountsExact ==
  \A b \in Block :
    refs[b] = Cardinality({r \in Replica : at[r] = b}) + (IF backlog = b THEN 1 ELSE 0)

\* While a write is in flight its replica still stands where it was submitted, and the
\* block is in the list: the ring reads memory that is there, and the completion
\* accounts against the block it came from (lines 105-107).
InFlightBlockHeld ==
  \A op \in ring :
    /\ op.buf = <<at[op.fd], pos[op.fd]>>
    /\ op.buf[1] >= backlog
    /\ op.buf[2] + op.count <= Used(op.buf[1], produced)

\* One write of a replica at a time, and CLIENT_ASYNC says when: also when the library
\* refuses with a negative value, which write_async() returns as a size_t.
OneInFlight ==
  \A r \in Replica : Cardinality({op \in ring : op.fd = r}) = IF async[r] THEN 1 ELSE 0

\* A replica receives the stream from the offset it asked for: no unit lost, repeated
\* or replaced by what a released block holds.
StreamFromOffset ==
  \A r \in Replica : \A i \in 1..Len(wire[r]) : wire[r][i] = from[r] + i

\* A replica with output pending that is not being closed has somebody who will
\* continue: the queue, the ring or EPOLLOUT; unless the ring refused.
NoOrphanedReplica ==
  \A r \in Replica :
    life[r] = "online" /\ HasPending(at[r], pos[r], produced) /\ ~refused[r]
      => async[r] \/ queued[r] \/ handler[r]
=============================================================================

-------------------------------- MODULE Dtoe --------------------------------
(***************************************************************************)
(* Connections whose TCP work is offloaded to the library kbdtoe, and the  *)
(* event loop that polls the library at every turn and epoll at every      *)
(* EPOLL_WAIT_TIMES-th.  An offloaded connection is closed in three steps: *)
(* kbdtoe_close() here, close() in the library, the rest in a callback of  *)
(* the library, which finds the connection through the number of the       *)
(* descriptor that is closed by then (line 845).                           *)
(*                                                                         *)
(* The library is external.  It is taken to close the descriptor at any    *)
(* time after it was told to, to call back inside kbdtoe_thread_poll(),    *)
(* and to report each offloaded descriptor with input once per poll.       *)
(***************************************************************************)
EXTENDS Integers, Sequences, FiniteSets

CONSTANTS
  MaxFd,           \* bound: descriptors 2 .. MaxFd; 1 is the listening one
  MaxConn,         \* bound: connections accepted
  MaxClients,      \* maxclients as configured
  ReservedFds,     \* CONFIG_MIN_RESERVED_FDS
  FdsetIncr,       \* CONFIG_FDSET_INCR
  PollTimes,       \* EPOLL_WAIT_TIMES
  Recycled         \* may a descriptor be given away again after the library closed it
                   \* and before it calls back for it?

\* The two numbers of upstream Redis are 32 and 128.
ASSUME DtoeAssumption ==
  /\ {MaxFd, MaxConn, MaxClients, ReservedFds, FdsetIncr, PollTimes} \subseteq Nat \ {0}
  /\ 2 * ReservedFds <= FdsetIncr
  /\ Recycled \in BOOLEAN

VARIABLES
  used,            \* AE_USED_DTOE_FEATURE: dtoe-ip is configured
  mask,            \* events[fd].mask
  data,            \* events[fd].clientData, which outlives the registration
  conns,           \* the connections: fd (0 is -1), CONN_FLAG_DTOE, and life
  created,         \* connections so far
  closing,         \* clients queued by freeClientAsync()
  fired,           \* entries of fired[] still to be handled
  stale,           \* the entries of fired[], of those in Recv, in whose mask
                   \* AE_WRITABLE is left
  polls,           \* epoll_wait_count
  open,            \* descriptors that are open
  offload,         \* what kbdtoe does with each: "no", "started", "done", "closing"
  owed,            \* descriptors that the library has closed and not called back for
  ready,           \* sockets with input
  abandoned        \* history: closed while the offload was not done

loopvars == <<fired, stale, polls>>
connvars == <<mask, data, conns, closing, open, offload, owed, abandoned>>
vars == <<used, connvars, created, loopvars, ready>>

Listener == 1
Fd == 2..MaxFd
Conn == 1..MaxConn

\* The entries of fired[] that the library may fill: it comes first.
Recv == IF used THEN 1..(MaxFd - 1) ELSE {}

Alive == {c \in Conn : conns[c].life \in {"client", "closed"}}

-----------------------------------------------------------------------------
(* Capacity. *)

\* (variant: maxclients is not doubled)
SingleSetSize == MaxClients + FdsetIncr

\* aeCreateEventLoop(server.maxclients + CONFIG_FDSET_INCR), maxclients doubled for DTOE.
SetSize == MaxClients + FdsetIncr + (IF used THEN MaxClients ELSE 0)

-----------------------------------------------------------------------------
(* Closing. *)

\* (variant: the descriptor of an offloaded connection is closed here as well)
ClosesAll(c) == TRUE

\* connSocketClose() closes the descriptor and frees the connection.
ClosesItself(c) == ~conns[c].dtoe

\* (variant: the test is inverted)
NotOffloaded(fd) == offload[fd] = "started"

\* kbdtoe_is_conn_offload_success(fd), the condition of kbdtoe_close(fd).
OffloadSuccess(fd) == offload[fd] = "done"

\* connSocketClose(c), c not inside a handler of its own.
Close(c) ==
  LET fd == conns[c].fd
      dtoe == conns[c].dtoe IN
  /\ mask' = [mask EXCEPT ![fd] = {}]
  /\ open' = IF ClosesItself(c) THEN open \ {fd} ELSE open
  /\ offload' = IF dtoe /\ OffloadSuccess(fd) THEN [offload EXCEPT ![fd] = "closing"]
                ELSE offload
  /\ conns' = [conns EXCEPT ![c] = IF dtoe THEN [@ EXCEPT !.life = "closed"]
                                   ELSE [fd |-> 0, dtoe |-> FALSE, life |-> "freed"]]
  /\ abandoned' = IF dtoe /\ offload[fd] # "done" THEN abandoned \union {c} ELSE abandoned
  /\ closing' = closing \ {c}
  /\ UNCHANGED <<data, owed>>

\* The library closes a descriptor that it was told to close.
LibraryClose(fd) ==
  /\ offload[fd] = "closing"
  /\ offload' = [offload EXCEPT ![fd] = "no"]
  /\ open' = open \ {fd}
  /\ owed' = owed \union {fd}
  /\ UNCHANGED <<used, mask, data, conns, closing, abandoned, created, loopvars, ready>>

\* connSocketDtoeCloseDoneCallback(fd): whatever connection events[fd] names is freed.
CloseDone(fd) ==
  /\ fired = <<>> /\ closing = {} /\ used
  /\ fd \in owed
  /\ owed' = owed \ {fd}
  /\ conns' = [conns EXCEPT ![data[fd]] = [fd |-> 0, dtoe |-> FALSE, life |-> "freed"]]
  /\ UNCHANGED <<used, mask, data, closing, open, offload, abandoned, created, loopvars,
                 ready>>

\* freeClientsInAsyncFreeQueue(), which beforeSleep() calls.
FreeClient(c) ==
  /\ fired = <<>> /\ c \in closing
  /\ Close(c)
  /\ UNCHANGED <<used, created, loopvars, ready>>

-----------------------------------------------------------------------------
(* aeApiPoll(). *)

Orders(S) == {s \in [1..Cardinality(S) -> S] : \A i, j \in DOMAIN s : s[i] = s[j] => i = j}

\* The descriptors with input; a connection may have arrived.
Inputs == {ready} \union (IF created < MaxConn THEN {ready \union {Listener}} ELSE {})

\* The sockets that wait for room.
Writing == {fd \in Fd : "w" \in mask[fd]}

\* The sockets that epoll watches: it tells of errors whatever the events asked for.
Watched == {fd \in Fd : mask[fd] # {}}

\* What epoll reports of fd when there is input for the descriptors in input, room in the
\* sockets in room, and EPOLLERR or EPOLLHUP for those in broken.
Reported(fd, input, room, broken) ==
  IF fd \in broken THEN {"r", "w"}
  ELSE mask[fd] \intersect ((IF fd \in input THEN {"r"} ELSE {})
                              \union (IF fd \in room THEN {"w"} ELSE {}))

\* (variant: the flag of the connection is taken for the state of the offload)
FlaggedForOffload(fd) == fd \in Fd /\ data[fd] # 0 /\ conns[data[fd]].dtoe

\* knet_fd_is_offloaded(fd)
Offloaded(fd) == fd \in Fd /\ offload[fd] = "done"

\* What is left of it: the library tells of the input of offloaded descriptors.
Kept(fd, input, room, broken) ==
  Reported(fd, input, room, broken) \ (IF used /\ Offloaded(fd) THEN {"r"} ELSE {})

\* epoll_wait_count >= EPOLL_WAIT_TIMES
Consulted(n) == n >= PollTimes

\* fired[i].mask |= AE_READABLE
OrReadable(i) == {"r"} \union (IF i \in stale THEN {"w"} ELSE {})

\* What kbdtoe_thread_poll() tells of.
Reading == IF used THEN {fd \in ready : offload[fd] = "done"} ELSE {}

\* What epoll, if it is consulted, tells of that is kept.
Told(room, input, broken) ==
  IF used => Consulted(polls + 1)
  THEN {fd \in open \union {Listener} : Kept(fd, input, room, broken) # {}} ELSE {}

Poll ==
  /\ fired = <<>> /\ closing = {}
  /\ \E room \in SUBSET Writing, input \in Inputs, broken \in SUBSET Watched :
     \E recv \in Orders(Reading), polled \in Orders(Told(room, input, broken)) :
       LET batch == [i \in 1..Len(recv) |-> [fd |-> recv[i], mask |-> OrReadable(i)]]
                      \o [i \in 1..Len(polled) |->
                            [fd |-> polled[i], mask |-> Kept(polled[i], input, room, broken)]] IN
       /\ fired' = batch
       /\ stale' = {i \in Recv : IF i \in 1..Len(batch) THEN "w" \in batch[i].mask
                                  ELSE i \in stale}
  /\ polls' = IF used /\ ~Consulted(polls + 1) THEN polls + 1 ELSE 0
  /\ UNCHANGED <<used, connvars, created, ready>>

-----------------------------------------------------------------------------
(* aeProcessEvents(): the first entry that is left. *)

Entry == Head(fired)
Handled == fired' = Tail(fired)

\* The events of an entry are still wanted.
Wanted == mask[Entry.fd] \intersect Entry.mask

\* Nobody wants the event any more.
SkipEvent ==
  /\ fired # <<>> /\ Wanted = {}
  /\ Handled
  /\ UNCHANGED <<used, connvars, created, stale, polls, ready>>

\* The descriptors that accept() can be given.
Free == Fd \ (open \union (IF Recycled THEN {} ELSE owed))

\* acceptTcpHandler() and clientAcceptHandler(): the kernel gives the lowest free
\* descriptor; the offload of a client of another host is started, perhaps.
Accept ==
  /\ fired # <<>> /\ Wanted # {} /\ Entry.fd = Listener
  /\ IF Free # {}
     THEN LET fd == CHOOSE f \in Free : \A g \in Free : f <= g
              c == created + 1 IN
          /\ created' = c
          /\ open' = open \union {fd}
          /\ mask' = [mask EXCEPT ![fd] = {"r"}]
          /\ data' = [data EXCEPT ![fd] = c]
          /\ \E started \in {FALSE} \union {used} :
               /\ conns' = [conns EXCEPT ![c] = [fd |-> fd, dtoe |-> started,
                                                 life |-> "client"]]
               /\ offload' = [offload EXCEPT ![fd] = IF started THEN "started" ELSE "no"]
          /\ ready' = ready \ {fd}
     ELSE UNCHANGED <<created, open, mask, data, conns, offload, ready>>
  /\ Handled
  /\ UNCHANGED <<used, closing, owed, abandoned, stale, polls>>

\* readQueryFromClient() and sendReplyToClient() of one connection.  A read takes all
\* input; the command may free another client at once (CLIENT KILL), the client may have
\* to be freed later, and its reply may not fit the socket, so that the write handler is
\* installed.  A write completes the reply or not.
Serve ==
  /\ fired # <<>> /\ Wanted # {} /\ Entry.fd \in Fd
  /\ \/ \* the reply fits, or the write does not complete it
        /\ UNCHANGED connvars
     \/ \* the write completes the reply
        /\ "w" \in Wanted
        /\ mask' = [mask EXCEPT ![Entry.fd] = @ \ {"w"}]
        /\ UNCHANGED <<data, conns, closing, open, offload, owed, abandoned>>
     \/ \* the reply does not fit
        /\ "r" \in Wanted
        /\ mask' = [mask EXCEPT ![Entry.fd] = @ \union {"w"}]
        /\ UNCHANGED <<data, conns, closing, open, offload, owed, abandoned>>
     \/ \* end of input, QUIT or an error
        /\ closing' = closing \union {data[Entry.fd]}
        /\ UNCHANGED <<mask, data, conns, open, offload, owed, abandoned>>
     \/ \* CLIENT KILL of another client
        /\ "r" \in Wanted
        /\ \E d \in Alive \ {data[Entry.fd]} : conns[d].life = "client" /\ Close(d)
  /\ ready' = IF "r" \in Wanted THEN ready \ {Entry.fd} ELSE ready
  /\ Handled
  /\ UNCHANGED <<used, created, stale, polls>>

-----------------------------------------------------------------------------
(* The library and the peers. *)

OffloadDone(fd) ==
  /\ offload[fd] = "started"
  /\ offload' = [offload EXCEPT ![fd] = "done"]
  /\ UNCHANGED <<used, mask, data, conns, closing, open, owed, abandoned, created, loopvars,
                 ready>>

PeerSend(fd) ==
  /\ fd \in open \ ready
  /\ ready' = ready \union {fd}
  /\ UNCHANGED <<used, connvars, created, loopvars>>

-----------------------------------------------------------------------------
\* fired is allocated and not initialised.
Init ==
  /\ used \in BOOLEAN
  /\ mask = [fd \in 1..MaxFd |-> IF fd = Listener THEN {"r"} ELSE {}]
  /\ data = [fd \in 1..MaxFd |-> 0]
  /\ conns = [c \in Conn |-> [fd |-> 0, dtoe |-> FALSE, life |-> "none"]]
  /\ created = 0 /\ closing = {}
  /\ fired = <<>> /\ stale \in SUBSET Recv /\ polls = 0
  /\ open = {} /\ offload = [fd \in Fd |-> "no"] /\ owed = {} /\ abandoned = {}
  /\ ready = {}

Loop == Poll \/ SkipEvent \/ Accept \/ Serve \/ \E c \in Conn : FreeClient(c)

Next ==
  \/ Poll
  \/ SkipEvent
  \/ Accept
  \/ Serve
  \/ \E c \in Conn : FreeClient(c)
  \/ \E fd \in Fd : LibraryClose(fd)
  \/ \E fd \in Fd : CloseDone(fd)
  \/ \E fd \in Fd : OffloadDone(fd)
  \/ \E fd \in Fd : PeerSend(fd)

Spec == Init /\ [][Next]_vars

\* aeMain() never stops, and the library closes what it was told to and calls back.
Fairness ==
  /\ WF_vars(Loop)
  /\ WF_vars(\E fd \in Fd : LibraryClose(fd))
  /\ SF_vars(\E fd \in Fd : CloseDone(fd))

FairSpec == Spec /\ Fairness

-----------------------------------------------------------------------------
(* Properties. *)

\* Descriptors and connections correspond: a connection that is not freed has a descriptor
\* of its own, which is open or which the library has closed and will call back for; events
\* are only registered for a connection that has its client; and the callback, which has
\* nothing but the number of the descriptor (line 844), will find the connection that the
\* descriptor was closed for, whichever handler of a batch closed it and whatever is
\* accepted, and on whichever descriptors, until then.
DescriptorOwned ==
  /\ open \union owed = {conns[c].fd : c \in Alive}
  /\ \A c, d \in Alive : conns[c].fd = conns[d].fd => c = d
  /\ \A fd \in Fd :
       /\ mask[fd] # {} => data[fd] \in Alive /\ conns[data[fd]].life = "client"
       /\ offload[fd] = "closing" \/ fd \in owed
            => data[fd] \in Alive /\ conns[data[fd]].life = "closed"
  /\ \A c \in Alive : data[conns[c].fd] = c

\* The process has no more descriptors than adjustOpenFilesLimit() asks for, which runs
\* before maxclients is doubled and only ever raises the limit.
LimitAsAsked == MaxFd <= MaxClients + ReservedFds

\* An offloaded descriptor can take two entries of fired[], one from the library and one
\* from epoll (lines 719-752): they fit, because maxclients was doubled, if the process
\* did not have a higher limit on its descriptors than it needed.
FiredFits == LimitAsAsked => Len(fired) <= SetSize

\* Input of an ordinary or offloaded connection is handled, although epoll is consulted
\* once in PollTimes turns and what it says of an offloaded descriptor is dropped.
RequestServed ==
  \A c \in Conn :
    (conns[c].life = "client" /\ conns[c].fd \in ready)
      ~> (conns[c].life # "client" \/ conns[c].fd \notin ready)

\* The connections that are closed are freed in the end, except those closed after
\* kbdtoe_conn_start_offload() succeeded and before the offload did: then neither
\* kbdtoe_close() nor close() is called (lines 870-878).
ClosedIsFreed ==
  []<>(\A c \in Conn : conns[c].life = "closed" => c \in abandoned)
=============================================================================

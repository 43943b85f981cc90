------------------------------ MODULE DtoeProofs ------------------------------
(***************************************************************************)
(* Descriptors and connections of DTOE: whatever the order in which the    *)
(* events of a batch are handled, connections are closed and the library   *)
(* closes and calls back, its callback finds the connection the descriptor *)
(* was closed for, if the number is not given away before (~Recycled); the *)
(* connections that are abandoned stay; and the entries of a batch fit.    *)
(***************************************************************************)
EXTENDS Dtoe, FiniteSetTheorems, SequenceTheorems, WellFoundedInduction, TLAPS

Events == SUBSET {"r", "w"}
FiredEntry == [fd : 1..MaxFd, mask : Events]
Connection == [fd : 0..MaxFd, dtoe : BOOLEAN, life : {"none", "client", "closed", "freed"}]

\* What the variables are.
DtoeTypes ==
  /\ used \in BOOLEAN
  /\ mask \in [1..MaxFd -> Events]
  /\ data \in [1..MaxFd -> 0..MaxConn]
  /\ conns \in [Conn -> Connection]
  /\ created \in 0..MaxConn
  /\ open \subseteq Fd
  /\ owed \subseteq Fd
  /\ offload \in [Fd -> {"no", "started", "done", "closing"}]
  /\ ready \subseteq Fd
  /\ fired \in Seq(FiredEntry)

\* The part of it that the size of a batch rests on.
BatchTypes ==
  /\ used \in BOOLEAN
  /\ mask \in [1..MaxFd -> Events]
  /\ open \subseteq Fd
  /\ ready \subseteq Fd
  /\ fired \in Seq(FiredEntry)

\* Connections are made in turn, and those to be freed later still have their client.
Lives ==
  /\ \A c \in Conn : c > created => conns[c].life = "none"
  /\ closing \subseteq {c \in Conn : conns[c].life = "client"}

\* A batch tells of new connections once, and only when there are some.
Arrivals ==
  /\ \A i, j \in DOMAIN fired : fired[i].fd = Listener /\ fired[j].fd = Listener => i = j
  /\ \A i \in DOMAIN fired : fired[i].fd = Listener => created < MaxConn

\* The descriptor, as data says, is that of a connection in this part of its life.
Holds(fd, life) ==
  data[fd] \in Conn /\ conns[data[fd]].fd = fd /\ conns[data[fd]].life = life

\* Who may use a descriptor, with the connection itself named.
Held ==
  \A fd \in Fd :
    /\ mask[fd] # {} => Holds(fd, "client")
    /\ offload[fd] = "closing" => Holds(fd, "closed")
    /\ fd \in owed => Holds(fd, "closed") /\ fd \notin open /\ offload[fd] = "no"

\* Descriptors that are open, or not called back for yet, and connections that are not
\* freed, one to one.
Paired ==
  /\ open \union owed = {conns[c].fd : c \in Alive}
  /\ \A c \in Alive : conns[c].fd \in Fd /\ data[conns[c].fd] = c

\* The inductive invariant.
DtoeInv == DtoeTypes /\ Lives /\ Arrivals /\ Held /\ Paired

\* It implies what the property says.
LEMMA InvOwned == DtoeInv => DescriptorOwned
<1> SUFFICES ASSUME DtoeInv PROVE DescriptorOwned
  OBVIOUS
<1>1. ASSUME NEW c \in Alive, NEW d \in Alive, conns[c].fd = conns[d].fd
      PROVE  c = d
  BY <1>1 DEF DtoeInv, Paired
<1>2. ASSUME NEW fd \in Fd
      PROVE  /\ mask[fd] # {} => data[fd] \in Alive /\ conns[data[fd]].life = "client"
             /\ offload[fd] = "closing" \/ fd \in owed
                  => data[fd] \in Alive /\ conns[data[fd]].life = "closed"
  BY DEF DtoeInv, Held, Holds, Alive
<1>3. open \union owed = {conns[c].fd : c \in Alive} /\ \A c \in Alive : data[conns[c].fd] = c
  BY DEF DtoeInv, Paired
<1> QED
  BY <1>1, <1>2, <1>3 DEF DescriptorOwned

\* What the constants and the ranges of descriptors are.
LEMMA Bounds ==
  /\ MaxFd \in Nat /\ MaxConn \in Nat
  /\ Listener \in 1..MaxFd /\ Listener \notin Fd /\ Fd \subseteq 1..MaxFd
  /\ Fd \subseteq Nat
<1>1. MaxFd \in Nat \ {0} /\ MaxConn \in Nat \ {0}
  BY DtoeAssumption
<1> QED
  BY <1>1 DEF Listener, Fd

\* A set of descriptors that is not empty has a least one: accept() finds it.
LEMMA LowestExists ==
  ASSUME NEW F \in SUBSET Fd, F # {}
  PROVE  (CHOOSE f \in F : \A g \in F : f <= g) \in F
<1>1. F \subseteq Nat
  BY Bounds
<1>2. IsWellFoundedOn(OpToRel(<, Nat), Nat)
  BY NatLessThanWellFounded
<1>3. PICK x \in F : \A y \in F : ~ (<<y, x>> \in OpToRel(<, Nat))
  BY <1>1, <1>2, WFMin
<1>4. \A y \in F : ~ (y < x)
  BY <1>1, <1>3 DEF OpToRel
<1>5. ASSUME NEW y \in F PROVE x <= y
  <2>1. ~ (y < x) /\ x \in Nat /\ y \in Nat
    BY <1>1, <1>3, <1>4
  <2> QED
    BY <2>1
<1> QED
  BY <1>3, <1>5

\* The invariant holds in the beginning: no connection, no descriptor.
LEMMA DtoeInit == Init => DtoeInv
<1> SUFFICES ASSUME Init PROVE DtoeInv
  OBVIOUS
<1>1. DtoeTypes
  <2>1. mask \in [1..MaxFd -> Events] /\ data \in [1..MaxFd -> 0..MaxConn]
    BY Bounds DEF Init, Events
  <2>2. conns \in [Conn -> Connection]
    BY Bounds DEF Init, Connection
  <2>3. offload \in [Fd -> {"no", "started", "done", "closing"}]
    BY DEF Init
  <2>4. created \in 0..MaxConn /\ fired \in Seq(FiredEntry)
    BY Bounds DEF Init
  <2> QED
    BY <2>1, <2>2, <2>3, <2>4 DEF Init, DtoeTypes
<1>2. Alive = {}
  BY DEF Init, Alive
<1>3. Paired
  BY <1>2 DEF Init, Paired
<1>4. Held
  BY Bounds DEF Init, Held
<1> QED
  BY <1>1, <1>3, <1>4 DEF Init, DtoeInv, Lives, Arrivals

\* Closing a connection that has its client.  Its own descriptor loses its events; one
\* of an offload that is done is from now on being closed, and data still names it.
LEMMA CloseKeeps ==
  ASSUME DtoeInv, NEW c \in Conn, conns[c].life = "client", Close(c),
         UNCHANGED <<used, created>>
  PROVE  /\ Held' /\ Paired' /\ Lives'
         /\ mask' \in [1..MaxFd -> Events] /\ data' = data
         /\ conns' \in [Conn -> Connection] /\ open' \subseteq Fd /\ owed' = owed
         /\ offload' \in [Fd -> {"no", "started", "done", "closing"}]
<1> DEFINE fd == conns[c].fd
           new == IF conns[c].dtoe THEN [conns[c] EXCEPT !.life = "closed"]
                  ELSE [fd |-> 0, dtoe |-> FALSE, life |-> "freed"]
<1>1. c \in Alive /\ fd \in Fd /\ data[fd] = c /\ fd \notin owed
  BY DEF DtoeInv, Paired, Held, Holds, Alive
<1>2. new \in Connection /\ new.life \in {"closed", "freed"}
      /\ (conns[c].dtoe => new.fd = fd /\ new.life = "closed")
      /\ (~ conns[c].dtoe => new.life = "freed")
  <2>1. conns[c] \in Connection
    BY DEF DtoeInv, DtoeTypes
  <2>2. CASE conns[c].dtoe
    BY <2>1, <2>2 DEF Connection
  <2>3. CASE ~ conns[c].dtoe
    BY <2>3, Bounds DEF Connection
  <2> QED
    BY <2>2, <2>3
<1>3. conns' = [conns EXCEPT ![c] = new]
  BY DEF Close
<1>4. conns' \in [Conn -> Connection]
  BY <1>2, <1>3 DEF DtoeInv, DtoeTypes
<1>5. conns'[c] = new /\ \A d \in Conn \ {c} : conns'[d] = conns[d]
  BY <1>3 DEF DtoeInv, DtoeTypes
<1>6. mask' \in [1..MaxFd -> Events] /\ mask'[fd] = {}
      /\ \A g \in 1..MaxFd \ {fd} : mask'[g] = mask[g]
  BY <1>1, Bounds DEF Close, DtoeInv, DtoeTypes, Events
<1>7. /\ data' = data /\ closing' = closing \ {c} /\ owed' = owed
      /\ open' \subseteq open /\ open' \subseteq Fd
  BY DEF Close, DtoeInv, DtoeTypes
<1>8. /\ offload' \in [Fd -> {"no", "started", "done", "closing"}]
      /\ \A g \in Fd \ {fd} : offload'[g] = offload[g]
      /\ offload'[fd] = offload[fd] \/ (offload'[fd] = "closing" /\ conns[c].dtoe)
  BY <1>1 DEF Close, DtoeInv, DtoeTypes
<1>9. Lives'
  BY <1>2, <1>5, <1>7 DEF DtoeInv, Lives
<1>10. Held'
  <2> SUFFICES ASSUME NEW g \in Fd
               PROVE  /\ mask'[g] # {} => Holds(g, "client")'
                      /\ offload'[g] = "closing" => Holds(g, "closed")'
                      /\ g \in owed' => /\ Holds(g, "closed")'
                                        /\ g \notin open' /\ offload'[g] = "no"
    BY DEF Held
  <2>1. CASE g = fd
    <3>1. offload[fd] # "closing"
      BY <1>1 DEF DtoeInv, Held, Holds
    <3>2. mask'[g] = {}
      BY <1>6, <2>1
    <3>3. ASSUME offload'[g] = "closing" PROVE Holds(g, "closed")'
      <4>1. conns[c].dtoe
        BY <1>8, <2>1, <3>1, <3>3
      <4>2. data'[g] = c /\ conns'[c].fd = fd /\ conns'[c].life = "closed"
        <5> HIDE DEF new
        <5> QED
          BY <1>1, <1>2, <1>5, <1>7, <2>1, <4>1
      <4> QED
        BY <2>1, <4>2 DEF Holds
    <3> QED
      BY <1>1, <1>7, <2>1, <3>2, <3>3
  <2>2. CASE g # fd
    <3>1. g \in 1..MaxFd /\ mask'[g] = mask[g] /\ offload'[g] = offload[g]
      BY <1>6, <1>8, <2>2, Bounds
    <3>2. ASSUME NEW l, Holds(g, l) PROVE Holds(g, l)'
      <4>1. data[g] # c
        BY <2>2, <3>2 DEF Holds
      <4> QED
        BY <1>5, <1>7, <3>2, <4>1 DEF Holds
    <3> QED
      BY <1>7, <3>1, <3>2 DEF DtoeInv, Held
  <2> QED
    BY <2>1, <2>2
<1>11. Paired'
  <2>1. CASE conns[c].dtoe
    <3>1. conns'[c].fd = fd /\ conns'[c].life = "closed"
      BY <1>2, <1>5, <2>1
    <3>a. \A d \in Conn : conns'[d].fd = conns[d].fd
      BY <1>5, <3>1
    <3>b. \A d \in Conn : conns'[d].life \in {"client", "closed"}
                           <=> conns[d].life \in {"client", "closed"}
      BY <1>5, <3>1
    <3>2. Alive' = Alive /\ \A d \in Alive : conns'[d].fd = conns[d].fd
      BY <3>a, <3>b DEF Alive
    <3>3. open' = open
      BY <2>1 DEF Close, ClosesItself
    <3> QED
      BY <1>7, <3>2, <3>3 DEF DtoeInv, Paired
  <2>2. CASE ~ conns[c].dtoe
    <3>1. conns'[c].life = "freed"
      BY <1>2, <1>5, <2>2
    <3>2. Alive' = Alive \ {c} /\ \A d \in Alive' : conns'[d] = conns[d]
      BY <1>1, <1>5, <3>1 DEF Alive
    <3>3. open' = open \ {fd}
      BY <2>2 DEF Close, ClosesItself
    <3>4. \A d \in Alive \ {c} : conns[d].fd # fd
      BY <1>1 DEF DtoeInv, Paired
    <3>5. open \union owed = {conns[d].fd : d \in Alive}
      BY DEF DtoeInv, Paired
    <3>a. open' \union owed' = (open \union owed) \ {fd}
      BY <1>1, <1>7, <3>3
    <3>6. open' \union owed' = {conns[d].fd : d \in Alive \ {c}}
      BY <3>a, <3>4, <3>5
    <3>7. open' \union owed' = {conns'[d].fd : d \in Alive'}
      BY <3>2, <3>6
    <3> QED
      BY <1>7, <3>2, <3>7 DEF DtoeInv, Paired
  <2> QED
    BY <2>1, <2>2
<1> QED
  BY <1>4, <1>6, <1>7, <1>8, <1>9, <1>10, <1>11

\* Handling the first entry of a batch: those that remain were there before.
LEMMA HandledFacts ==
  ASSUME DtoeInv, fired # <<>>, Handled
  PROVE  /\ Entry \in FiredEntry /\ Entry = fired[1] /\ 1 \in DOMAIN fired
         /\ fired' \in Seq(FiredEntry)
         /\ \A i \in DOMAIN fired' : i + 1 \in DOMAIN fired /\ fired'[i] = fired[i + 1]
                                     /\ i \in Nat /\ i >= 1
<1>1. fired \in Seq(FiredEntry)
  BY DEF DtoeInv, DtoeTypes
<1> QED
  BY <1>1 DEF Handled, Entry

\* So what is said of arrivals stays true while no connection is accepted.
LEMMA HandledArrivals ==
  ASSUME DtoeInv, fired # <<>>, Handled, created' = created
  PROVE  Arrivals'
<1>1. \A i \in DOMAIN fired' : i + 1 \in DOMAIN fired /\ fired'[i] = fired[i + 1]
                               /\ i \in Nat
  BY HandledFacts
<1>2. ASSUME NEW i \in DOMAIN fired', NEW j \in DOMAIN fired',
             fired'[i].fd = Listener, fired'[j].fd = Listener
      PROVE  i = j
  <2>1. i + 1 = j + 1
    BY <1>1, <1>2 DEF DtoeInv, Arrivals
  <2> QED
    BY <1>1, <2>1
<1>3. ASSUME NEW i \in DOMAIN fired', fired'[i].fd = Listener
      PROVE  created' < MaxConn
  BY <1>1, <1>3 DEF DtoeInv, Arrivals
<1> QED
  BY <1>2, <1>3 DEF Arrivals

\* Steps that change no connection and no descriptor.
LEMMA SameConnections ==
  ASSUME DtoeInv, UNCHANGED <<data, conns, closing, open, owed, created>>,
         \A fd \in Fd : mask'[fd] # {} => mask[fd] # {},
         \A fd \in Fd : offload'[fd] = "closing" => offload[fd] = "closing",
         \A fd \in Fd : offload[fd] = "no" => offload'[fd] = "no"
  PROVE  Lives' /\ Held' /\ Paired'
<1>1. Alive' = Alive
  BY DEF Alive
<1>2. ASSUME NEW fd \in Fd, NEW l, Holds(fd, l) PROVE Holds(fd, l)'
  BY <1>2 DEF Holds
<1> QED
  BY <1>1, <1>2 DEF DtoeInv, Lives, Held, Paired

\* freeClientsInAsyncFreeQueue().
LEMMA FreeClientKeeps ==
  ASSUME DtoeInv, NEW c \in Conn, FreeClient(c)
  PROVE  DtoeInv'
<1>1. c \in closing /\ Close(c) /\ UNCHANGED <<used, created, ready, fired>>
  BY DEF FreeClient, loopvars
<1>2. conns[c].life = "client"
  BY <1>1 DEF DtoeInv, Lives
<1>3. Arrivals'
  BY <1>1 DEF DtoeInv, Arrivals
<1> QED
  BY <1>1, <1>2, <1>3, CloseKeeps DEF DtoeInv, DtoeTypes

\* The library closes a descriptor: its connection waits for the callback from now on.
LEMMA LibraryCloseKeeps ==
  ASSUME DtoeInv, NEW fd \in Fd, LibraryClose(fd)
  PROVE  DtoeInv'
<1>1. offload[fd] = "closing" /\ Holds(fd, "closed")
  BY DEF LibraryClose, DtoeInv, Held
<1>2. UNCHANGED <<used, mask, data, conns, closing, created, fired, ready>>
  BY DEF LibraryClose, loopvars
<1>3. /\ offload' \in [Fd -> {"no", "started", "done", "closing"}]
      /\ offload'[fd] = "no" /\ \A g \in Fd \ {fd} : offload'[g] = offload[g]
  BY DEF LibraryClose, DtoeInv, DtoeTypes
<1>4. open' = open \ {fd} /\ owed' = owed \union {fd}
  BY DEF LibraryClose
<1>5. DtoeTypes' /\ Lives' /\ Arrivals'
  BY <1>2, <1>3, <1>4 DEF DtoeInv, DtoeTypes, Lives, Arrivals
<1>6. ASSUME NEW g \in Fd, NEW l, Holds(g, l) PROVE Holds(g, l)'
  BY <1>2, <1>6 DEF Holds
<1>7. Held'
  BY <1>1, <1>2, <1>3, <1>4, <1>6 DEF DtoeInv, Held
<1>8. fd \in open \union owed
  BY <1>1 DEF DtoeInv, Paired, Holds, Alive
<1>9. open' \union owed' = open \union owed /\ Alive' = Alive
  BY <1>2, <1>4, <1>8 DEF Alive
<1> QED
  BY <1>2, <1>5, <1>7, <1>9 DEF DtoeInv, Paired

\* The library calls back: the connection that data names is the one whose descriptor was
\* closed, so that it, and no other, is freed.
LEMMA CloseDoneKeeps ==
  ASSUME DtoeInv, NEW fd \in Fd, CloseDone(fd)
  PROVE  DtoeInv'
<1> DEFINE c == data[fd]
           new == [fd |-> 0, dtoe |-> FALSE, life |-> "freed"]
<1>1. c \in Conn /\ conns[c].fd = fd /\ conns[c].life = "closed" /\ c \in Alive
  BY DEF CloseDone, DtoeInv, Held, Holds, Alive
<1>2. UNCHANGED <<used, mask, data, closing, open, offload, created, fired, ready>>
  BY DEF CloseDone, loopvars
<1>3. /\ conns'[c] = new /\ \A d \in Conn \ {c} : conns'[d] = conns[d]
      /\ conns' \in [Conn -> Connection]
  <2>1. new \in Connection
    BY Bounds DEF Connection
  <2>2. conns' = [conns EXCEPT ![c] = new]
    BY DEF CloseDone
  <2> QED
    BY <1>1, <2>1, <2>2 DEF DtoeInv, DtoeTypes
<1>4. fd \notin open /\ offload[fd] = "no"
  BY DEF CloseDone, DtoeInv, Held
<1>5. owed' = owed \ {fd}
  BY DEF CloseDone
<1>6. DtoeTypes'
  BY <1>2, <1>3, <1>5 DEF DtoeInv, DtoeTypes
<1>7. Lives' /\ Arrivals'
  BY <1>1, <1>2, <1>3 DEF DtoeInv, Lives, Arrivals
<1>8. ASSUME NEW g \in Fd, NEW l, g # fd, Holds(g, l) PROVE Holds(g, l)'
  <2>1. data[g] # c
    BY <1>1, <1>8 DEF Holds
  <2> QED
    BY <1>2, <1>3, <1>8, <2>1 DEF Holds
<1>9. mask'[fd] = {}
  BY <1>1, <1>2 DEF DtoeInv, Held, Holds
<1>10. Held'
  BY <1>2, <1>4, <1>5, <1>8, <1>9 DEF DtoeInv, Held
<1>11. Alive' = Alive \ {c} /\ \A d \in Alive' : conns'[d] = conns[d]
  BY <1>1, <1>3 DEF Alive
<1>12. Paired'
  <2>1. \A d \in Alive \ {c} : conns[d].fd # fd
    BY DEF DtoeInv, Paired
  <2>2. open \union owed = {conns[d].fd : d \in Alive}
    BY DEF DtoeInv, Paired
  <2>a. open' \union owed' = (open \union owed) \ {fd}
    BY <1>2, <1>4, <1>5
  <2>3. open' \union owed' = {conns[d].fd : d \in Alive \ {c}}
    BY <1>1, <2>a, <2>1, <2>2
  <2>4. open' \union owed' = {conns'[d].fd : d \in Alive'}
    BY <1>11, <2>3
  <2> QED
    BY <1>2, <1>11, <2>4 DEF DtoeInv, Paired
<1> QED
  BY <1>6, <1>7, <1>10, <1>12 DEF DtoeInv

\* An entry of the batch whose events are no longer wanted.
LEMMA SkipKeeps ==
  ASSUME DtoeInv, SkipEvent
  PROVE  DtoeInv'
<1>1. fired # <<>> /\ Handled /\ UNCHANGED <<used, mask, data, conns, closing, open, owed,
                                             offload, created, ready>>
  BY DEF SkipEvent, connvars
<1>2. fired' \in Seq(FiredEntry)
  BY <1>1, HandledFacts
<1>3. DtoeTypes'
  BY <1>1, <1>2 DEF DtoeInv, DtoeTypes
<1> QED
  BY <1>1, <1>3, HandledArrivals, SameConnections DEF DtoeInv

\* The library has finished an offload, or a peer has sent something.
LEMMA OutsideKeeps ==
  ASSUME DtoeInv, \E fd \in Fd : OffloadDone(fd) \/ PeerSend(fd)
  PROVE  DtoeInv'
<1>1. UNCHANGED <<used, mask, data, conns, closing, open, owed, created, fired>>
  BY DEF OffloadDone, PeerSend, connvars, loopvars
<1>2. /\ offload' \in [Fd -> {"no", "started", "done", "closing"}]
      /\ \A fd \in Fd : offload'[fd] = "closing" => offload[fd] = "closing"
      /\ \A fd \in Fd : offload[fd] = "no" => offload'[fd] = "no"
  BY DEF OffloadDone, PeerSend, connvars, DtoeInv, DtoeTypes
<1>3. ready' \subseteq Fd
  BY DEF OffloadDone, PeerSend, DtoeInv, DtoeTypes
<1>4. DtoeTypes' /\ Arrivals'
  BY <1>1, <1>2, <1>3 DEF DtoeInv, DtoeTypes, Arrivals
<1> QED
  BY <1>1, <1>2, <1>4, SameConnections DEF DtoeInv


\* A handler of a connection: it may install or remove the write handler, have its client
\* freed later, or free another one at once.
LEMMA ServeKeeps ==
  ASSUME DtoeInv, Serve
  PROVE  DtoeInv'
<1> DEFINE fd == Entry.fd
<1>1. fired # <<>> /\ Handled /\ fd \in Fd /\ fd \in 1..MaxFd /\ mask[fd] # {}
      /\ UNCHANGED <<used, created>>
  BY Bounds DEF Serve, Wanted
<1>2. fired' \in Seq(FiredEntry) /\ Arrivals'
  BY <1>1, HandledFacts, HandledArrivals
<1>3. ready' \subseteq Fd
  BY DEF Serve, DtoeInv, DtoeTypes
<1>4. Holds(fd, "client")
  BY <1>1 DEF DtoeInv, Held
<1>5. CASE UNCHANGED <<data, conns, closing, open, offload, owed, abandoned>>
           /\ \E E \in Events : mask' = [mask EXCEPT ![fd] = E]
  <2>1. PICK E \in Events : mask' = [mask EXCEPT ![fd] = E]
    BY <1>5
  <2>2. mask' \in [1..MaxFd -> Events] /\ \A g \in 1..MaxFd \ {fd} : mask'[g] = mask[g]
    BY <1>1, <2>1 DEF DtoeInv, DtoeTypes
  <2>3. \A g \in Fd : mask'[g] # {} => mask[g] # {}
    BY <1>1, <2>2, Bounds
  <2>4. DtoeTypes'
    BY <1>1, <1>2, <1>3, <1>5, <2>2 DEF DtoeInv, DtoeTypes
  <2> QED
    BY <1>1, <1>2, <1>5, <2>3, <2>4, SameConnections DEF DtoeInv
<1>6. CASE UNCHANGED <<mask, data, conns, open, offload, owed, abandoned>>
           /\ (closing' = closing \/ closing' = closing \union {data[fd]})
  <2>1. DtoeTypes'
    BY <1>1, <1>2, <1>3, <1>6 DEF DtoeInv, DtoeTypes
  <2>2. Lives'
    BY <1>1, <1>4, <1>6 DEF DtoeInv, Lives, Holds
  <2>3. Alive' = Alive
    BY <1>6 DEF Alive
  <2>4. ASSUME NEW g \in Fd, NEW l, Holds(g, l) PROVE Holds(g, l)'
    BY <1>6, <2>4 DEF Holds
  <2> QED
    BY <1>2, <1>6, <2>1, <2>2, <2>3, <2>4 DEF DtoeInv, Held, Paired
<1>7. CASE \E d \in Alive : conns[d].life = "client" /\ Close(d)
  <2>1. PICK d \in Alive : conns[d].life = "client" /\ Close(d)
    BY <1>7
  <2>2. d \in Conn
    BY DEF Alive
  <2>3. /\ Held' /\ Paired' /\ Lives'
        /\ mask' \in [1..MaxFd -> Events] /\ data' = data
        /\ conns' \in [Conn -> Connection] /\ open' \subseteq Fd /\ owed' = owed
        /\ offload' \in [Fd -> {"no", "started", "done", "closing"}]
    BY <1>1, <2>1, <2>2, CloseKeeps
  <2> QED
    BY <1>1, <1>2, <1>3, <2>3 DEF DtoeInv, DtoeTypes
<1>8. \/ UNCHANGED connvars
      \/ "w" \in Wanted /\ mask' = [mask EXCEPT ![fd] = @ \ {"w"}]
         /\ UNCHANGED <<data, conns, closing, open, offload, owed, abandoned>>
      \/ mask' = [mask EXCEPT ![fd] = @ \union {"w"}]
         /\ UNCHANGED <<data, conns, closing, open, offload, owed, abandoned>>
      \/ closing' = closing \union {data[fd]}
         /\ UNCHANGED <<mask, data, conns, open, offload, owed, abandoned>>
      \/ \E d \in Alive : conns[d].life = "client" /\ Close(d)
  BY DEF Serve
<1>9. mask[fd] \ {"w"} \in Events /\ mask[fd] \union {"w"} \in Events
  BY <1>1 DEF DtoeInv, DtoeTypes, Events
<1> QED
  BY <1>5, <1>6, <1>7, <1>8, <1>9 DEF connvars

\* A connection arrives: it gets a descriptor nobody holds, and data names it from then on.
LEMMA AcceptKeeps ==
  ASSUME ~Recycled, DtoeInv, Accept
  PROVE  DtoeInv'
<1>1. fired # <<>> /\ Handled /\ Entry.fd = Listener /\ UNCHANGED <<used, closing, owed>>
  BY DEF Accept
<1>2. fired' \in Seq(FiredEntry) /\ Entry = fired[1] /\ 1 \in DOMAIN fired
  BY <1>1, HandledFacts
<1>3. created < MaxConn
  BY <1>1, <1>2 DEF DtoeInv, Arrivals
<1>4. \A i \in DOMAIN fired' : fired'[i].fd # Listener
  <2>1. ASSUME NEW i \in DOMAIN fired', fired'[i].fd = Listener PROVE FALSE
    <3>1. i + 1 \in DOMAIN fired /\ fired[i + 1].fd = Listener /\ i \in Nat /\ i >= 1
      BY <1>1, <2>1, HandledFacts
    <3>2. i + 1 = 1
      BY <1>1, <1>2, <3>1 DEF DtoeInv, Arrivals
    <3> QED
      BY <3>1, <3>2
  <2> QED
    BY <2>1
<1>5. Arrivals'
  BY <1>4 DEF Arrivals
<1>6. CASE UNCHANGED <<created, open, mask, data, conns, offload, ready>>
  <2>1. DtoeTypes'
    BY <1>1, <1>2, <1>6 DEF DtoeInv, DtoeTypes
  <2> QED
    BY <1>1, <1>5, <1>6, <2>1, SameConnections DEF DtoeInv
<1>7. CASE Free # {}
  <2> DEFINE fd == CHOOSE f \in Free : \A g \in Free : f <= g
             c == created + 1
  <2>1. fd \in Fd /\ fd \notin open /\ fd \notin owed /\ fd \in 1..MaxFd
    <3>1. Free \in SUBSET Fd /\ Free = Fd \ (open \union owed)
      BY DEF Free
    <3>2. fd \in Free
      BY <1>7, <3>1, LowestExists
    <3> HIDE DEF fd
    <3> QED
      BY <3>1, <3>2, Bounds
  <2>2. c \in Conn /\ c \in 0..MaxConn /\ c > created
    BY <1>3, Bounds DEF Conn, DtoeInv, DtoeTypes
  <2>3. PICK started \in BOOLEAN :
          /\ conns' = [conns EXCEPT ![c] = [fd |-> fd, dtoe |-> started, life |-> "client"]]
          /\ offload' = [offload EXCEPT ![fd] = IF started THEN "started" ELSE "no"]
    BY <1>7 DEF Accept, DtoeInv, DtoeTypes
  <2>4. /\ created' = c /\ open' = open \union {fd}
        /\ mask' = [mask EXCEPT ![fd] = {"r"}] /\ data' = [data EXCEPT ![fd] = c]
        /\ ready' = ready \ {fd}
    BY <1>7 DEF Accept
  <2> HIDE DEF fd, c
  <2>5. [fd |-> fd, dtoe |-> started, life |-> "client"] \in Connection
    BY <2>1, <2>3, Bounds DEF Connection
  <2>6. /\ conns' \in [Conn -> Connection]
        /\ conns'[c].fd = fd /\ conns'[c].life = "client"
        /\ \A d \in Conn \ {c} : conns'[d] = conns[d]
    BY <2>2, <2>3, <2>5 DEF DtoeInv, DtoeTypes
  <2>7. /\ offload' \in [Fd -> {"no", "started", "done", "closing"}]
        /\ offload'[fd] # "closing" /\ \A g \in Fd \ {fd} : offload'[g] = offload[g]
    BY <2>1, <2>3 DEF DtoeInv, DtoeTypes
  <2>8. /\ mask' \in [1..MaxFd -> Events]
        /\ \A g \in 1..MaxFd \ {fd} : mask'[g] = mask[g]
    BY <2>1, <2>4 DEF DtoeInv, DtoeTypes, Events
  <2>9. /\ data' \in [1..MaxFd -> 0..MaxConn] /\ data'[fd] = c
        /\ \A g \in 1..MaxFd \ {fd} : data'[g] = data[g]
    BY <2>1, <2>2, <2>4 DEF DtoeInv, DtoeTypes
  <2>10. DtoeTypes'
    BY <1>1, <1>2, <2>1, <2>2, <2>4, <2>6, <2>7, <2>8, <2>9 DEF DtoeInv, DtoeTypes
  <2>11. conns[c].life = "none"
    BY <2>2 DEF DtoeInv, Lives
  <2>12. Lives'
    <3>1. \A d \in Conn : d > created' => conns'[d].life = "none"
      <4>1. ASSUME NEW d \in Conn, d > c PROVE d # c /\ d > created
        BY <2>2, <4>1, Bounds DEF Conn, DtoeInv, DtoeTypes, c
      <4> QED
        BY <2>4, <2>6, <4>1 DEF DtoeInv, Lives
    <3>2. \A d \in closing : d \in Conn /\ d # c /\ conns'[d].life = "client"
      BY <2>6, <2>11 DEF DtoeInv, Lives
    <3> QED
      BY <1>1, <3>1, <3>2 DEF Lives
  <2>13. ASSUME NEW g \in Fd, NEW l, g # fd, l # "none", Holds(g, l) PROVE Holds(g, l)'
    <3>1. data[g] # c /\ g \in 1..MaxFd
      BY <2>11, <2>13, Bounds DEF Holds
    <3> QED
      BY <2>6, <2>9, <2>13, <3>1 DEF Holds
  <2>14. data'[fd] \in Conn /\ conns'[data'[fd]].fd = fd
         /\ conns'[data'[fd]].life = "client"
    BY <2>2, <2>6, <2>9
  <2>15. Held'
    <3>1. ASSUME NEW g \in Fd, g # fd
          PROVE  /\ mask'[g] # {} => Holds(g, "client")'
                 /\ offload'[g] = "closing" => Holds(g, "closed")'
                 /\ g \in owed' => /\ Holds(g, "closed")'
                                   /\ g \notin open' /\ offload'[g] = "no"
      <4>1. g \in 1..MaxFd /\ mask'[g] = mask[g] /\ offload'[g] = offload[g]
        BY <2>7, <2>8, <3>1, Bounds
      <4> QED
        BY <1>1, <2>4, <2>13, <3>1, <4>1 DEF DtoeInv, Held
    <3>2. ASSUME NEW g \in Fd, g = fd
          PROVE  offload'[g] # "closing" /\ g \notin owed' /\ Holds(g, "client")'
      BY <1>1, <2>1, <2>7, <2>14, <3>2 DEF Holds
    <3> QED
      BY <3>1, <3>2 DEF Held
  <2>16. Alive' = Alive \union {c} /\ c \notin Alive /\ \A d \in Alive : conns'[d] = conns[d]
    BY <2>2, <2>6, <2>11 DEF Alive
  <2>17. open' \union owed' = {conns'[d].fd : d \in Alive'}
    <3>1. open \union owed = {conns[d].fd : d \in Alive}
      BY DEF DtoeInv, Paired
    <3>2. open \union owed = {conns'[d].fd : d \in Alive}
      BY <2>16, <3>1
    <3>3. (open \union owed) \union {fd} = {conns'[d].fd : d \in Alive \union {c}}
      BY <2>6, <3>2
    <3> QED
      BY <1>1, <2>4, <2>16, <3>3
  <2>18. ASSUME NEW d \in Alive' PROVE conns'[d].fd \in Fd /\ data'[conns'[d].fd] = d
    <3>1. CASE d = c
      BY <2>1, <2>6, <2>9, <3>1
    <3>2. CASE d # c
      <4>1. d \in Alive /\ conns'[d] = conns[d]
        BY <2>16, <2>18, <3>2
      <4>2. conns[d].fd \in Fd /\ conns[d].fd \in open \union owed /\ data[conns[d].fd] = d
        BY <4>1 DEF DtoeInv, Paired
      <4> QED
        BY <2>1, <2>9, <4>1, <4>2, Bounds
    <3> QED
      BY <3>1, <3>2
  <2> QED
    BY <1>5, <2>10, <2>12, <2>15, <2>17, <2>18 DEF DtoeInv, Paired
<1> QED
  BY <1>6, <1>7 DEF Accept


\* An order of a finite set is a sequence of its members, each of them once.
LEMMA OrderFacts ==
  ASSUME NEW S \in SUBSET (1..MaxFd), NEW s \in Orders(S)
  PROVE  /\ Cardinality(S) \in Nat /\ s \in [1..Cardinality(S) -> S] /\ Len(s) = Cardinality(S)
         /\ \A i, j \in 1..Len(s) : s[i] = s[j] => i = j
<1>1. IsFiniteSet(S)
  <2>1. IsFiniteSet(1..MaxFd)
    BY Bounds, FS_Interval
  <2> QED
    BY <2>1, FS_Subset
<1>2. Cardinality(S) \in Nat
  BY <1>1, FS_CardinalityType
<1>3. s \in [1..Cardinality(S) -> S] /\ \A i, j \in DOMAIN s : s[i] = s[j] => i = j
  BY DEF Orders
<1>4. s \in Seq(S) /\ Len(s) = Cardinality(S)
  BY <1>2, <1>3
<1> QED
  BY <1>2, <1>3, <1>4

\* What a turn is told: first the library's descriptors s, then epoll's, t.
Batch(s, t, M) ==
  [i \in 1..Len(s) |-> [fd |-> s[i], mask |-> OrReadable(i)]]
    \o [i \in 1..Len(t) |-> [fd |-> t[i], mask |-> M[t[i]]]]

\* Only epoll tells of new connections, and it names a descriptor once.
LEMMA BatchFacts ==
  ASSUME NEW R \in SUBSET Fd, NEW T \in SUBSET (1..MaxFd), NEW M \in [1..MaxFd -> Events],
         NEW recv \in Orders(R), NEW polled \in Orders(T),
         NEW batch, batch = Batch(recv, polled, M),
         Listener \in T => created < MaxConn
  PROVE  /\ batch \in Seq(FiredEntry)
         /\ Len(batch) = Cardinality(R) + Cardinality(T)
         /\ \A i, j \in DOMAIN batch :
              batch[i].fd = Listener /\ batch[j].fd = Listener => i = j
         /\ \A i \in DOMAIN batch : batch[i].fd = Listener => created < MaxConn
<1> DEFINE n == Len(recv)
           m == Len(polled)
           A == [i \in 1..n |-> [fd |-> recv[i], mask |-> OrReadable(i)]]
           B == [i \in 1..m |-> [fd |-> polled[i], mask |-> M[polled[i]]]]
<1>1. n \in Nat /\ recv \in [1..n -> R]
  BY OrderFacts, Bounds
<1>2. m \in Nat /\ polled \in [1..m -> T] /\ \A i, j \in 1..m : polled[i] = polled[j] => i = j
  BY OrderFacts
<1>3. A \in Seq(FiredEntry) /\ Len(A) = n
  <2>1. \A i \in 1..n : OrReadable(i) \in Events
    BY DEF OrReadable, Events
  <2>2. \A i \in 1..n : A[i] \in FiredEntry
    BY <1>1, <2>1, Bounds DEF FiredEntry
  <2> QED
    BY <1>1, <2>2
<1>4. B \in Seq(FiredEntry) /\ Len(B) = m
  <2>1. \A i \in 1..m : B[i] \in FiredEntry
    BY <1>2 DEF FiredEntry
  <2> QED
    BY <1>2, <2>1
<1>5. batch = A \o B
  BY DEF Batch
<1>6. \A i \in 1..n : A[i].fd # Listener
  BY <1>1, Bounds
<1>7. \A i \in 1..m : B[i].fd = polled[i]
  OBVIOUS
<1> HIDE DEF A, B, n, m
<1>8. batch \in Seq(FiredEntry) /\ DOMAIN batch = 1..(n + m) /\ Len(batch) = n + m
      /\ \A i \in 1..(n + m) : batch[i] = IF i <= n THEN A[i] ELSE B[i - n]
  <2>1. batch \in Seq(FiredEntry) /\ Len(batch) = n + m
    <3> HIDE DEF FiredEntry
    <3> QED
      BY <1>3, <1>4, <1>5, ConcatProperties
  <2>2. DOMAIN batch = 1..(n + m)
    BY <2>1
  <2>3. ASSUME NEW i \in 1..(n + m) PROVE batch[i] = IF i <= n THEN A[i] ELSE B[i - n]
    <3> HIDE DEF FiredEntry
    <3> QED
      BY <1>3, <1>4, <1>5, <2>3, ConcatProperties
  <2> QED
    BY <2>1, <2>2, <2>3
<1>9. ASSUME NEW i \in DOMAIN batch, batch[i].fd = Listener
      PROVE  i \in Nat /\ i - n \in 1..m /\ polled[i - n] = Listener
  <2>1. i \in 1..(n + m)
    BY <1>8, <1>9
  <2>2. ~ (i <= n)
    BY <1>1, <1>6, <1>8, <1>9, <2>1
  <2>3. i - n \in 1..m
    BY <1>1, <1>2, <2>1, <2>2
  <2> QED
    BY <1>7, <1>8, <1>9, <2>1, <2>2, <2>3
<1>10. ASSUME NEW i \in DOMAIN batch, NEW j \in DOMAIN batch,
              batch[i].fd = Listener, batch[j].fd = Listener
       PROVE  i = j
  <2>1. i - n = j - n /\ i \in Nat /\ j \in Nat
    BY <1>2, <1>9, <1>10
  <2> QED
    BY <1>1, <2>1
<1>11. ASSUME NEW i \in DOMAIN batch, batch[i].fd = Listener PROVE created < MaxConn
  BY <1>2, <1>9, <1>11
<1>12. n = Cardinality(R) /\ m = Cardinality(T)
  <2>1. R \in SUBSET (1..MaxFd)
    BY Bounds
  <2> QED
    BY <2>1, OrderFacts DEF n, m
<1> QED
  BY <1>8, <1>10, <1>11, <1>12

\* fired[] has an entry for everything that two pollers can tell of a descriptor.
LEMMA TwoEntriesFit ==
  ASSUME LimitAsAsked, used \in BOOLEAN, NEW R \in SUBSET Fd, NEW T \in SUBSET (1..MaxFd),
         ~used => R = {}
  PROVE  /\ Cardinality(R) \in Nat /\ Cardinality(T) \in Nat
         /\ Cardinality(R) + Cardinality(T) <= SetSize
<1>1. IsFiniteSet(1..MaxFd) /\ Cardinality(1..MaxFd) = MaxFd
  BY Bounds, FS_Interval
<1>2. Cardinality(T) \in Nat /\ Cardinality(T) <= MaxFd
  <2>1. IsFiniteSet(T) /\ Cardinality(T) <= Cardinality(1..MaxFd)
    BY <1>1, FS_Subset
  <2> QED
    BY <1>1, <2>1, FS_CardinalityType
<1>3. R \subseteq 1..MaxFd
  BY Bounds
<1>4. Cardinality(R) \in Nat /\ Cardinality(R) <= MaxFd
  <2>1. IsFiniteSet(R) /\ Cardinality(R) <= Cardinality(1..MaxFd)
    BY <1>1, <1>3, FS_Subset
  <2> QED
    BY <1>1, <2>1, FS_CardinalityType
<1>5. ~used => Cardinality(R) = 0
  BY FS_EmptySet
<1>6. MaxClients \in Nat /\ ReservedFds \in Nat /\ FdsetIncr \in Nat /\ MaxFd \in Nat
      /\ MaxFd <= MaxClients + ReservedFds /\ 2 * ReservedFds <= FdsetIncr
  BY DtoeAssumption DEF LimitAsAsked
<1>7. CASE used
  BY <1>2, <1>4, <1>6, <1>7 DEF SetSize
<1>8. CASE ~used
  BY <1>2, <1>5, <1>6, <1>8 DEF SetSize
<1> QED
  BY <1>2, <1>4, <1>7, <1>8

\* What one turn of the loop is told: offloaded descriptors by the library, then others
\* by epoll, unless it is not asked this time.
LEMMA PollBatch ==
  ASSUME BatchTypes, Poll
  PROVE  /\ fired' \in Seq(FiredEntry)
         /\ \A i, j \in DOMAIN fired' : fired'[i].fd = Listener /\ fired'[j].fd = Listener => i = j
         /\ \A i \in DOMAIN fired' : fired'[i].fd = Listener => created < MaxConn
         /\ LimitAsAsked => Len(fired') <= SetSize
<1>a. PICK room \in SUBSET Writing, input \in Inputs, broken \in SUBSET Watched,
           R \in SUBSET Fd, T \in SUBSET (1..MaxFd) :
        /\ \A fd \in T : Kept(fd, input, room, broken) # {}
        /\ ~used => R = {}
        /\ \E recv \in Orders(R), polled \in Orders(T) :
             fired' = [i \in 1..Len(recv) |-> [fd |-> recv[i], mask |-> OrReadable(i)]]
                        \o [i \in 1..Len(polled) |->
                              [fd |-> polled[i], mask |-> Kept(polled[i], input, room, broken)]]
  <2>1. PICK room \in SUBSET Writing, input \in Inputs, broken \in SUBSET Watched :
          \E recv \in Orders(Reading), polled \in Orders(Told(room, input, broken)) :
            fired' = [i \in 1..Len(recv) |-> [fd |-> recv[i], mask |-> OrReadable(i)]]
                       \o [i \in 1..Len(polled) |->
                             [fd |-> polled[i], mask |-> Kept(polled[i], input, room, broken)]]
    BY Zenon DEF Poll
  <2>2. Reading \in SUBSET Fd /\ (~used => Reading = {})
    BY DEF BatchTypes, Reading
  <2>3. Told(room, input, broken) \in SUBSET (1..MaxFd)
        /\ \A fd \in Told(room, input, broken) : Kept(fd, input, room, broken) # {}
    BY Bounds DEF BatchTypes, Told
  <2> QED
    BY <2>1, <2>2, <2>3
<1>3. PICK recv \in Orders(R), polled \in Orders(T) :
        fired' = [i \in 1..Len(recv) |-> [fd |-> recv[i], mask |-> OrReadable(i)]]
                   \o [i \in 1..Len(polled) |->
                         [fd |-> polled[i], mask |-> Kept(polled[i], input, room, broken)]]
  BY <1>a
<1>4. \A fd \in 1..MaxFd : Kept(fd, input, room, broken) \in Events
  BY DEF Kept, Reported, Events, BatchTypes
<1>5. Listener \in T => created < MaxConn
  <2>1. Listener \notin room /\ Listener \notin broken /\ Listener \notin ready
    BY Bounds DEF Writing, Watched, BatchTypes
  <2>2. Listener \in T => Listener \in input
    BY <1>a, <2>1 DEF Kept, Reported
  <2>3. ~ (created < MaxConn) => input = ready
    BY <1>a DEF Inputs
  <2> QED
    BY <2>1, <2>2, <2>3
<1>6. /\ fired' \in Seq(FiredEntry)
      /\ Len(fired') = Cardinality(R) + Cardinality(T)
      /\ \A i, j \in DOMAIN fired' : fired'[i].fd = Listener /\ fired'[j].fd = Listener => i = j
      /\ \A i \in DOMAIN fired' : fired'[i].fd = Listener => created < MaxConn
  <2> DEFINE M == [fd \in 1..MaxFd |-> Kept(fd, input, room, broken)]
  <2>1. M \in [1..MaxFd -> Events]
    BY <1>4
  <2>2. polled \in [1..Cardinality(T) -> T] /\ Len(polled) = Cardinality(T)
    BY <1>a, <1>3, OrderFacts
  <2>3. \A i \in 1..Len(polled) : M[polled[i]] = Kept(polled[i], input, room, broken)
    BY <1>3, <2>2
  <2>4. fired' = Batch(recv, polled, M)
    <3> HIDE DEF M
    <3> QED
      BY <1>3, <2>3 DEF Batch
  <2> HIDE DEF M
  <2> QED
    <3>1. PICK b : b = fired'
      OBVIOUS
    <3>2. b = Batch(recv, polled, M)
      BY <2>4, <3>1
    <3>3. /\ b \in Seq(FiredEntry)
          /\ Len(b) = Cardinality(R) + Cardinality(T)
          /\ \A i, j \in DOMAIN b : b[i].fd = Listener /\ b[j].fd = Listener => i = j
          /\ \A i \in DOMAIN b : b[i].fd = Listener => created < MaxConn
      <4>1. R \in SUBSET Fd /\ T \in SUBSET (1..MaxFd) /\ (Listener \in T => created < MaxConn)
        BY <1>a, <1>5
      <4>2. recv \in Orders(R) /\ polled \in Orders(T)
        BY <1>3
      <4> QED
        BY BatchFacts, <4>1, <4>2, <2>1, <3>2
    <3> QED
      BY <3>1, <3>3
<1>7. LimitAsAsked => Len(fired') <= SetSize
  BY <1>a, <1>6, TwoEntriesFit DEF BatchTypes
<1> QED
  BY <1>6, <1>7

\* So a turn of the loop keeps the invariant.
LEMMA PollKeeps ==
  ASSUME DtoeInv, Poll
  PROVE  DtoeInv'
<1>1. UNCHANGED <<used, mask, data, conns, closing, open, owed, offload, created, ready>>
  BY DEF Poll, connvars
<1>2. BatchTypes
  BY DEF DtoeInv, DtoeTypes, BatchTypes
<1>3. DtoeTypes' /\ Arrivals'
  BY <1>1, <1>2, PollBatch DEF DtoeInv, DtoeTypes, Arrivals
<1> QED
  BY <1>1, <1>3, SameConnections DEF DtoeInv

\* It is a property of the variables.
LEMMA DtoeStutter ==
  ASSUME DtoeInv, UNCHANGED vars
  PROVE  DtoeInv'
<1>1. UNCHANGED <<used, mask, data, conns, closing, open, owed, offload, created, fired, ready>>
  BY DEF vars, connvars, loopvars
<1>2. DtoeTypes' /\ Arrivals'
  BY <1>1 DEF DtoeInv, DtoeTypes, Arrivals
<1> QED
  BY <1>1, <1>2, SameConnections DEF DtoeInv

\* Every step keeps the invariant, unless a descriptor is given away again before the
\* callback for it.
LEMMA DtoeStep ==
  ASSUME ~Recycled
  PROVE  DtoeInv /\ [Next]_vars => DtoeInv'
<1> SUFFICES ASSUME DtoeInv, [Next]_vars PROVE DtoeInv'
  OBVIOUS
<1>1. CASE Poll
  BY <1>1, PollKeeps
<1>2. CASE SkipEvent
  BY <1>2, SkipKeeps
<1>3. CASE Accept
  BY <1>3, AcceptKeeps
<1>4. CASE Serve
  BY <1>4, ServeKeeps
<1>5. ASSUME NEW c \in Conn, FreeClient(c) PROVE DtoeInv'
  BY <1>5, FreeClientKeeps
<1>6. ASSUME NEW fd \in Fd, CloseDone(fd) PROVE DtoeInv'
  BY <1>6, CloseDoneKeeps
<1>7. ASSUME NEW fd \in Fd, LibraryClose(fd) PROVE DtoeInv'
  BY <1>7, LibraryCloseKeeps
<1>8. ASSUME NEW fd \in Fd, OffloadDone(fd) \/ PeerSend(fd) PROVE DtoeInv'
  BY <1>8, OutsideKeeps
<1>9. CASE UNCHANGED vars
  BY <1>9, DtoeStutter
<1> QED
  BY <1>1, <1>2, <1>3, <1>4, <1>5, <1>6, <1>7, <1>8, <1>9 DEF Next

\* DtoeInv in every reachable state.
LEMMA DtoeInvariant ==
  ASSUME ~Recycled
  PROVE  Spec => []DtoeInv
  BY DtoeInit, DtoeStep, PTL DEF Spec

\* For any number of descriptors and connections: the callback of the library, which has
\* nothing but the number of a descriptor that is closed already, finds the connection it
\* was closed for, if the number is not given away again before the callback.  That much
\* is needed: when it is, the callback frees the connection that was accepted on it.
THEOREM CallbackFindsConnection ==
  ASSUME ~Recycled
  PROVE  Spec => []DescriptorOwned
  BY DtoeInvariant, InvOwned, PTL

-----------------------------------------------------------------------------
\* Connections that were closed while their offload was not done, and the resources they
\* keep: neither kbdtoe_close() nor close() was called for them (lines 870-878).
AbandonedKept == \A c \in abandoned : conns[c].life = "closed" /\ conns[c].fd \in open

\* An offload has been started and not been ended.
Lasting(c) == conns[c].fd \in Fd /\ offload[conns[c].fd] \in {"started", "done"}

\* A client's offload lasts until the client is closed, an abandoned one for ever.
LeakInv ==
  /\ abandoned \subseteq Conn
  /\ \A c \in Conn : conns[c].life = "client" /\ conns[c].dtoe => Lasting(c)
  /\ \A c \in abandoned : conns[c].life = "closed" /\ Lasting(c)

\* With the correspondence of descriptors and connections it implies the property.
LEMMA LeakKept == DtoeInv /\ LeakInv => AbandonedKept
<1> SUFFICES ASSUME DtoeInv, LeakInv, NEW c \in abandoned
             PROVE  conns[c].life = "closed" /\ conns[c].fd \in open
  BY DEF AbandonedKept
<1>1. c \in Alive /\ conns[c].life = "closed" /\ Lasting(c)
  BY DEF LeakInv, Alive
<1>2. conns[c].fd \in open \union owed
  BY <1>1 DEF DtoeInv, Paired
<1>3. conns[c].fd \notin owed
  BY <1>1 DEF DtoeInv, Held, Lasting
<1> QED
  BY <1>1, <1>2, <1>3

\* Closing a client: its offload is ended if it was done, and abandoned if it was not.
LEMMA CloseLeak ==
  ASSUME DtoeInv, LeakInv, NEW c \in Conn, conns[c].life = "client", Close(c)
  PROVE  LeakInv'
<1> DEFINE fd == conns[c].fd
<1>1. c \in Alive /\ fd \in Fd /\ data[fd] = c /\ c \notin abandoned
  BY DEF DtoeInv, Paired, Alive, LeakInv
<1>2. /\ \A d \in Conn \ {c} : conns'[d] = conns[d]
      /\ conns[c].dtoe => conns'[c].fd = fd /\ conns'[c].life = "closed"
      /\ conns'[c].life # "client"
  <2>1. conns[c] \in Connection
    BY DEF DtoeInv, DtoeTypes
  <2> QED
    BY <2>1 DEF Close, Connection, DtoeInv, DtoeTypes
<1>3. \A g \in Fd \ {fd} : offload'[g] = offload[g]
  BY DEF Close, DtoeInv, DtoeTypes
<1>4. ASSUME NEW d \in Conn \ {c}, d \in Alive, Lasting(d) PROVE Lasting(d)'
  <2>1. conns[d].fd # fd
    BY <1>1, <1>4 DEF DtoeInv, Paired
  <2> QED
    BY <1>2, <1>3, <1>4, <2>1 DEF Lasting
<1>5. ASSUME NEW d \in Conn, conns'[d].life = "client", conns'[d].dtoe PROVE Lasting(d)'
  <2>1. d # c /\ conns[d].life = "client" /\ conns[d].dtoe /\ d \in Alive
    BY <1>2, <1>5 DEF Alive
  <2> QED
    BY <1>4, <2>1 DEF LeakInv
<1>6. ASSUME NEW d \in abandoned PROVE conns'[d].life = "closed" /\ Lasting(d)'
  <2>1. d \in Conn \ {c} /\ d \in Alive /\ Lasting(d) /\ conns[d].life = "closed"
    BY <1>1, <1>6 DEF LeakInv, Alive
  <2> QED
    BY <1>2, <1>4, <2>1
<1>7. ASSUME c \in abandoned' PROVE conns'[c].life = "closed" /\ Lasting(c)'
  <2>1. conns[c].dtoe /\ offload[fd] # "done"
    BY <1>1, <1>7 DEF Close
  <2>2. offload[fd] = "started" /\ offload'[fd] = offload[fd]
    BY <2>1 DEF Close, OffloadSuccess, LeakInv, Lasting
  <2> QED
    BY <1>1, <1>2, <2>1, <2>2 DEF Lasting
<1>8. abandoned' \subseteq abandoned \union {c}
  BY DEF Close
<1> QED
  BY <1>5, <1>6, <1>7, <1>8 DEF LeakInv

\* A new connection gets a descriptor of its own.
LEMMA AcceptLeak ==
  ASSUME ~Recycled, DtoeInv, LeakInv, Accept
  PROVE  LeakInv'
<1>1. CASE UNCHANGED <<created, open, mask, data, conns, offload, ready>>
  <2>1. abandoned' = abandoned
    BY DEF Accept
  <2> QED
    BY <1>1, <2>1 DEF LeakInv, Lasting
<1>2. CASE Free # {}
  <2> DEFINE fd == CHOOSE f \in Free : \A g \in Free : f <= g
             c == created + 1
  <2>1. fd \in Fd /\ fd \notin open /\ fd \notin owed
    <3>1. Free \in SUBSET Fd /\ Free = Fd \ (open \union owed)
      BY DEF Free
    <3>2. fd \in Free
      BY <1>2, <3>1, LowestExists
    <3> HIDE DEF fd
    <3> QED
      BY <3>1, <3>2
  <2>2. PICK started \in BOOLEAN :
          /\ conns' = [conns EXCEPT ![c] = [fd |-> fd, dtoe |-> started, life |-> "client"]]
          /\ offload' = [offload EXCEPT ![fd] = IF started THEN "started" ELSE "no"]
    BY <1>2 DEF Accept, DtoeInv, DtoeTypes
  <2>3. abandoned' = abandoned
    BY DEF Accept
  <2> HIDE DEF fd
  <2>4. c > created /\ (c \in Conn => conns[c].life = "none")
    BY DEF DtoeInv, DtoeTypes, Lives
  <2>5. ASSUME NEW d \in Conn, d \in Alive, Lasting(d)
        PROVE  Lasting(d)' /\ conns'[d] = conns[d]
    <3>1. d # c /\ conns[d].fd # fd
      BY <2>1, <2>4, <2>5 DEF DtoeInv, Paired, Alive
    <3>2. conns'[d] = conns[d]
      BY <2>2, <3>1 DEF DtoeInv, DtoeTypes
    <3>3. offload'[conns[d].fd] = offload[conns[d].fd]
      BY <2>2, <2>5, <3>1 DEF Lasting, DtoeInv, DtoeTypes
    <3> QED
      BY <2>5, <3>2, <3>3 DEF Lasting
  <2>6. ASSUME NEW d \in Conn, conns'[d].life = "client", conns'[d].dtoe PROVE Lasting(d)'
    <3>1. CASE d = c
      <4>1. conns'[c] = [fd |-> fd, dtoe |-> started, life |-> "client"]
        BY <2>2, <3>1 DEF DtoeInv, DtoeTypes
      <4>2. offload'[fd] = "started"
        BY <2>1, <2>2, <2>6, <3>1, <4>1 DEF DtoeInv, DtoeTypes
      <4> QED
        BY <2>1, <3>1, <4>1, <4>2 DEF Lasting
    <3>2. CASE d # c
      <4>1. conns'[d] = conns[d]
        BY <2>2, <3>2 DEF DtoeInv, DtoeTypes
      <4> QED
        BY <2>5, <2>6, <4>1 DEF LeakInv, Alive
    <3> QED
      BY <3>1, <3>2
  <2>7. ASSUME NEW d \in abandoned PROVE conns'[d].life = "closed" /\ Lasting(d)'
    BY <2>5, <2>7 DEF LeakInv, Alive
  <2> QED
    BY <2>3, <2>6, <2>7 DEF LeakInv
<1> QED
  BY <1>1, <1>2 DEF Accept

\* Steps of the library: none ends an abandoned offload or frees its connection.
LEMMA LibraryLeak ==
  ASSUME DtoeInv, LeakInv, NEW fd \in Fd,
         LibraryClose(fd) \/ CloseDone(fd) \/ OffloadDone(fd)
  PROVE  LeakInv'
<1>1. abandoned' = abandoned
  BY DEF LibraryClose, CloseDone, OffloadDone
<1>2. CASE LibraryClose(fd) \/ OffloadDone(fd)
  <2>1. conns' = conns
    BY <1>2 DEF LibraryClose, OffloadDone
  <2>2. \A g \in Fd : offload[g] \in {"started", "done"} => offload'[g] \in {"started", "done"}
    BY <1>2 DEF LibraryClose, OffloadDone, DtoeInv, DtoeTypes
  <2>3. ASSUME NEW d \in Conn, Lasting(d) PROVE Lasting(d)'
    BY <2>1, <2>2, <2>3 DEF Lasting
  <2> QED
    BY <1>1, <2>1, <2>3 DEF LeakInv
<1>3. CASE CloseDone(fd)
  <2> DEFINE c == data[fd]
  <2>1. c \in Conn /\ conns[c].fd = fd /\ offload[fd] = "no"
    BY <1>3 DEF CloseDone, DtoeInv, Held, Holds
  <2>2. c \notin abandoned
    BY <2>1 DEF LeakInv, Lasting
  <2>3. /\ conns'[c].life = "freed" /\ offload' = offload
        /\ \A d \in Conn \ {c} : conns'[d] = conns[d]
    BY <1>3, <2>1 DEF CloseDone, DtoeInv, DtoeTypes
  <2>4. ASSUME NEW d \in Conn \ {c}, Lasting(d) PROVE Lasting(d)'
    BY <2>3, <2>4 DEF Lasting
  <2> QED
    BY <1>1, <2>2, <2>3, <2>4 DEF LeakInv
<1> QED
  BY <1>2, <1>3

\* Every step keeps LeakInv.
LEMMA LeakStep ==
  ASSUME ~Recycled
  PROVE  DtoeInv /\ LeakInv /\ [Next]_vars => LeakInv'
<1> SUFFICES ASSUME DtoeInv, LeakInv, [Next]_vars PROVE LeakInv'
  OBVIOUS
<1>1. CASE UNCHANGED <<conns, offload, abandoned>>
  BY <1>1 DEF LeakInv, Lasting
<1>2. CASE Poll \/ SkipEvent \/ UNCHANGED vars
  BY <1>1, <1>2 DEF Poll, SkipEvent, vars, connvars
<1>3. CASE Accept
  BY <1>3, AcceptLeak
<1>4. CASE Serve
  <2>1. \/ UNCHANGED <<conns, offload, abandoned>>
        \/ \E d \in Conn : conns[d].life = "client" /\ Close(d)
    BY <1>4 DEF Serve, connvars, Alive
  <2> QED
    BY <1>1, <2>1, CloseLeak
<1>5. ASSUME NEW c \in Conn, FreeClient(c) PROVE LeakInv'
  <2>1. Close(c) /\ conns[c].life = "client"
    BY <1>5 DEF FreeClient, DtoeInv, Lives
  <2> QED
    BY <2>1, CloseLeak
<1>6. ASSUME NEW fd \in Fd, LibraryClose(fd) \/ CloseDone(fd) \/ OffloadDone(fd)
      PROVE  LeakInv'
  BY <1>6, LibraryLeak
<1>7. ASSUME NEW fd \in Fd, PeerSend(fd) PROVE LeakInv'
  BY <1>1, <1>7 DEF PeerSend, connvars
<1> QED
  BY <1>2, <1>3, <1>4, <1>5, <1>6, <1>7 DEF Next

\* A connection that is closed after its offload was started and before it is done is never
\* freed, and its descriptor stays open for ever: the exception of ClosedIsFreed is a leak,
\* whatever the comment above connSocketClose() says ("Close the connection and free
\* resources.").
THEOREM AbandonedNeverFreed ==
  ASSUME ~Recycled
  PROVE  Spec => []AbandonedKept
<1>1. Init => LeakInv
  BY DEF Init, LeakInv
<1>2. DtoeInv /\ LeakInv /\ [Next]_vars => LeakInv'
  BY LeakStep
<1> QED
  BY <1>1, <1>2, DtoeInvariant, LeakKept, PTL DEF Spec

-----------------------------------------------------------------------------
\* The types that the size of a batch rests on hold whether or not descriptors recur.
LEMMA BatchTypesStep == BatchTypes /\ [Next]_vars => BatchTypes'
<1> SUFFICES ASSUME BatchTypes, [Next]_vars PROVE BatchTypes'
  OBVIOUS
<1>1. CASE Poll
  <2>1. UNCHANGED <<used, mask, open, ready>>
    BY <1>1 DEF Poll, connvars
  <2> QED
    BY <1>1, <2>1, PollBatch DEF BatchTypes
<1>2. ASSUME fired # <<>>, Handled PROVE fired' \in Seq(FiredEntry) /\ Entry.fd \in 1..MaxFd
  <2>1. fired \in Seq(FiredEntry) /\ Entry \in FiredEntry
    BY <1>2 DEF BatchTypes, Entry
  <2> QED
    BY <1>2, <2>1 DEF Handled, FiredEntry
<1>3. ASSUME NEW c \in Conn, Close(c)
      PROVE  mask' \in [1..MaxFd -> Events] /\ open' \subseteq Fd
  <2>1. {} \in Events
    BY DEF Events
  <2>2. mask' = [mask EXCEPT ![conns[c].fd] = {}] /\ open' \subseteq open
    BY <1>3 DEF Close
  <2> QED
    BY <2>1, <2>2 DEF BatchTypes
<1>4. CASE SkipEvent
  BY <1>2, <1>4 DEF SkipEvent, connvars, BatchTypes
<1>5. CASE Accept
  <2>1. fired' \in Seq(FiredEntry) /\ used' = used
    BY <1>2, <1>5 DEF Accept
  <2>2. CASE Free # {}
    <3> DEFINE fd == CHOOSE f \in Free : \A g \in Free : f <= g
    <3>1. fd \in Fd
      <4>1. Free \in SUBSET Fd
        BY DEF Free
      <4> QED
        BY <2>2, <4>1, LowestExists
    <3>2. /\ open' = open \union {fd} /\ mask' = [mask EXCEPT ![fd] = {"r"}]
          /\ ready' = ready \ {fd}
      BY <1>5, <2>2 DEF Accept
    <3> HIDE DEF fd
    <3>3. {"r"} \in Events
      BY DEF Events
    <3> QED
      BY <2>1, <3>1, <3>2, <3>3 DEF BatchTypes
  <2>3. CASE UNCHANGED <<open, mask, ready>>
    BY <2>1, <2>3 DEF BatchTypes
  <2> QED
    BY <1>5, <2>2, <2>3 DEF Accept
<1>6. CASE Serve
  <2>1. fired' \in Seq(FiredEntry) /\ Entry.fd \in 1..MaxFd /\ used' = used
        /\ ready' \subseteq Fd
    BY <1>2, <1>6 DEF Serve, BatchTypes
  <2>2. mask[Entry.fd] \ {"w"} \in Events /\ mask[Entry.fd] \union {"w"} \in Events
    BY <2>1 DEF BatchTypes, Events
  <2>3. \/ UNCHANGED <<mask, open>>
        \/ mask' = [mask EXCEPT ![Entry.fd] = mask[Entry.fd] \ {"w"}] /\ open' = open
        \/ mask' = [mask EXCEPT ![Entry.fd] = mask[Entry.fd] \union {"w"}] /\ open' = open
        \/ \E d \in Conn : Close(d)
    BY <1>6 DEF Serve, connvars, Alive
  <2>4. mask' \in [1..MaxFd -> Events] /\ open' \subseteq Fd
    BY <1>3, <2>2, <2>3 DEF BatchTypes
  <2> QED
    BY <2>1, <2>4 DEF BatchTypes
<1>7. ASSUME NEW c \in Conn, FreeClient(c) PROVE BatchTypes'
  <2>1. Close(c) /\ UNCHANGED <<used, ready, fired>>
    BY <1>7 DEF FreeClient, loopvars
  <2> QED
    BY <1>3, <2>1 DEF BatchTypes
<1>8. ASSUME NEW fd \in Fd,
             LibraryClose(fd) \/ CloseDone(fd) \/ OffloadDone(fd) \/ PeerSend(fd)
      PROVE  BatchTypes'
  <2>1. UNCHANGED <<used, mask, fired>>
    BY <1>8 DEF LibraryClose, CloseDone, OffloadDone, PeerSend, connvars, loopvars
  <2>2. open' \subseteq open /\ ready' \subseteq Fd
    BY <1>8 DEF LibraryClose, CloseDone, OffloadDone, PeerSend, connvars, BatchTypes
  <2> QED
    BY <2>1, <2>2 DEF BatchTypes
<1>9. CASE UNCHANGED vars
  BY <1>9 DEF vars, connvars, loopvars, BatchTypes
<1> QED
  BY <1>1, <1>4, <1>5, <1>6, <1>7, <1>8, <1>9 DEF Next

\* Only a turn of the loop fills fired[]; everything else leaves it or takes its head.
LEMMA OthersShorten ==
  ASSUME BatchTypes, Next, ~Poll
  PROVE  used' = used /\ Len(fired') <= Len(fired)
<1>1. fired \in Seq(FiredEntry)
  BY DEF BatchTypes
<1>2. CASE fired' = fired
  <2>1. used' = used
    BY DEF Next, SkipEvent, Accept, Serve, FreeClient, LibraryClose, CloseDone, OffloadDone,
           PeerSend
  <2> QED
    BY <1>1, <1>2, <2>1
<1>3. CASE fired # <<>> /\ Handled
  <2>1. used' = used
    BY DEF Next, SkipEvent, Accept, Serve, FreeClient, LibraryClose, CloseDone, OffloadDone,
           PeerSend
  <2>2. Len(Tail(fired)) <= Len(fired)
    BY <1>1, <1>3
  <2> QED
    BY <1>3, <2>1, <2>2 DEF Handled
<1> QED
  BY <1>2, <1>3 DEF Next, SkipEvent, Accept, Serve, FreeClient, LibraryClose, CloseDone,
                    OffloadDone, PeerSend, loopvars

\* The entries of a turn fit fired[], whatever the number of clients and whether or not
\* descriptors recur, if the process has no more descriptors than it asked for: twice as
\* many are no more than the doubled maxclients and the reserve.
THEOREM EntriesAlwaysFit == Spec => []FiredFits
<1> DEFINE FitInv == BatchTypes /\ FiredFits
<1>1. Init => FitInv
  <2> SUFFICES ASSUME Init PROVE FitInv
    OBVIOUS
  <2>1. SetSize \in Nat
    BY DtoeAssumption DEF SetSize, Init
  <2>2. FiredFits
    BY <2>1 DEF FiredFits, Init
  <2>3. BatchTypes
    BY DtoeInit DEF DtoeInv, DtoeTypes, BatchTypes
  <2> QED
    BY <2>2, <2>3
<1>2. FitInv /\ [Next]_vars => FitInv'
  <2> SUFFICES ASSUME FitInv, [Next]_vars, LimitAsAsked PROVE Len(fired') <= SetSize'
    BY BatchTypesStep DEF FiredFits, LimitAsAsked
  <2>1. CASE Poll
    <3>1. used' = used
      BY <2>1 DEF Poll
    <3> QED
      BY <2>1, <3>1, PollBatch DEF SetSize
  <2>2. CASE Next /\ ~Poll
    <3>1. used' = used /\ Len(fired') <= Len(fired)
      BY <2>2, OthersShorten
    <3>2. Len(fired) \in Nat /\ Len(fired') \in Nat /\ Len(fired) <= SetSize
      BY BatchTypesStep DEF BatchTypes, FiredFits
    <3>3. SetSize \in Nat
      BY DtoeAssumption DEF SetSize, BatchTypes
    <3> QED
      BY <3>1, <3>2, <3>3 DEF SetSize
  <2>3. CASE UNCHANGED vars
    BY <2>3 DEF vars, loopvars, FiredFits, SetSize
  <2> QED
    BY <2>1, <2>2, <2>3
<1> QED
  BY <1>1, <1>2, PTL DEF Spec
=============================================================================

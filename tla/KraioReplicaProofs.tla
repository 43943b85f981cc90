------------------------- MODULE KraioReplicaProofs -------------------------
(***************************************************************************)
(* Proofs about KraioReplica, for any number of replicas and blocks: the   *)
(* reference counts are exact, a write in flight reads a block that is     *)
(* held, and every replica gets the stream it asked for.                   *)
(***************************************************************************)
EXTENDS KraioReplica, FiniteSetTheorems, SequenceTheorems, TLAPS

-----------------------------------------------------------------------------
(* The inductive invariant. *)

\* The list has its head where the stream has been, if anywhere.
HeadInv ==
  /\ backlog = 0 => produced = 0
  /\ backlog # 0 => Offset(backlog, 0) < produced

\* A replica stands in the list, inside the stream, and never at the start of a block
\* that has nothing; without a block it is at the start of a stream that does not exist
\* yet.
Placed(r) ==
  /\ at[r] # 0 => /\ backlog # 0 /\ at[r] >= backlog
                  /\ Offset(at[r], pos[r]) <= produced
                  /\ pos[r] = 0 => Offset(at[r], pos[r]) < produced
  /\ life[r] = "none" => at[r] = 0
  /\ at[r] = 0 => ~async[r]
  /\ at[r] = 0 /\ life[r] # "none" => backlog = 0 /\ from[r] = 0 /\ wire[r] = <<>>

\* CLIENT_ASYNC says whether it has an operation, and it has no second one.
Alone(r) ==
  /\ ~async[r] => \A op \in ring : op.fd # r
  /\ async[r] => \E op \in ring : op.fd = r
  /\ \A op, other \in ring : op.fd = r /\ other.fd = r => op = other

\* Its operation is about the block it stands in and asks for no more than the block has;
\* the library reports at most that, and nothing written with an error.
Carries(r) ==
  \A op \in ring : op.fd = r =>
    /\ op.buf = <<at[r], pos[r]>>
    /\ op.buf[2] + op.count <= Used(op.buf[1], produced)
    /\ op.ret <= op.count
    /\ op.st = "flight" => op.ret = 0
    /\ op.err # "none" => op.ret <= 0

\* The socket took the stream from the offset the replica asked for: all in front of its
\* position, and what its operation has written.
Streams(r) ==
  /\ \A i \in 1..Len(wire[r]) : wire[r][i] = from[r] + i
  /\ at[r] # 0 =>
       /\ ~async[r] => from[r] + Len(wire[r]) = Offset(at[r], pos[r])
       /\ \A op \in ring : op.fd = r =>
            from[r] + Len(wire[r]) = Offset(at[r], pos[r]) + Acked(op, at[r])

\* Somebody will continue with it.
Continued(r) ==
  life[r] = "online" /\ HasPending(at[r], pos[r], produced) /\ ~refused[r]
    => async[r] \/ queued[r] \/ handler[r]

Good(r) == Placed(r) /\ Alone(r) /\ Carries(r) /\ Streams(r) /\ Continued(r)

ReplicaInv == TypeOK /\ HeadInv /\ RefcountsExact /\ \A r \in Replica : Good(r)

-----------------------------------------------------------------------------
(* Arithmetic of blocks. *)

\* The smaller and the larger of two integers.
LEMMA MinOfTwo ==
  ASSUME NEW a \in Int, NEW b \in Int
  PROVE  Min({a, b}) = IF a <= b THEN a ELSE b
<1> DEFINE m == IF a <= b THEN a ELSE b
<1>1. m \in {a, b} /\ \A y \in {a, b} : m <= y
  OBVIOUS
<1>2. ASSUME NEW x \in {a, b}, \A y \in {a, b} : x <= y
      PROVE  x = m
  BY <1>2
<1> QED
  BY <1>1, <1>2 DEF Min

\* The same for the greater of two numbers.
LEMMA MaxOfTwo ==
  ASSUME NEW a \in Int, NEW b \in Int
  PROVE  Max({a, b}) = IF a >= b THEN a ELSE b
<1> DEFINE m == IF a >= b THEN a ELSE b
<1>1. m \in {a, b} /\ \A y \in {a, b} : m >= y
  OBVIOUS
<1>2. ASSUME NEW x \in {a, b}, \A y \in {a, b} : x >= y
      PROVE  x = m
  BY <1>2
<1> QED
  BY <1>1, <1>2 DEF Max

\* Products are monotonic.
LEMMA ProductMonotonic ==
  ASSUME NEW a \in Int, NEW b \in Int, NEW c \in Nat, a <= b
  PROVE  a * c <= b * c
  OBVIOUS

\* Quotient and remainder.
LEMMA Quotient ==
  ASSUME NEW u \in Nat, NEW c \in Nat \ {0}
  PROVE  /\ u \div c \in Nat
         /\ (u \div c) * c <= u
         /\ u < (u \div c) * c + c
         /\ u % c = u - (u \div c) * c
  OBVIOUS

\* The quotient is the only number with these bounds.
LEMMA QuotientUnique ==
  ASSUME NEW u \in Nat, NEW c \in Nat \ {0}, NEW q \in Int,
         q * c <= u, u < q * c + c
  PROVE  u \div c = q
<1> DEFINE d == u \div c
<1>1. d \in Nat /\ d * c <= u /\ u < d * c + c
  BY Quotient
<1>2. ~ (d + 1 <= q)
  <2> SUFFICES ASSUME d + 1 <= q PROVE FALSE
    OBVIOUS
  <2>1. (d + 1) * c <= q * c
    BY <1>1, ProductMonotonic
  <2> QED
    BY <2>1, <1>1
<1>3. ~ (q + 1 <= d)
  <2> SUFFICES ASSUME q + 1 <= d PROVE FALSE
    OBVIOUS
  <2>1. (q + 1) * c <= d * c
    BY <1>1, ProductMonotonic
  <2> QED
    BY <2>1, <1>1
<1> QED
  BY <1>1, <1>2, <1>3

\* Positions of the stream: the end of a block is the start of the next, and blocks do
\* not overlap.
LEMMA OffsetFacts ==
  ASSUME NEW b \in Int
  PROVE  /\ Offset(b, 0) \in Int
         /\ \A p \in Int : Offset(b, p) = Offset(b, 0) + p
         /\ b * BlockCap = Offset(b, 0) + BlockCap
         /\ Offset(b + 1, 0) = Offset(b, 0) + BlockCap
         /\ b >= 1 => Offset(b, 0) >= 0
         /\ \A c \in Int : b < c => Offset(b, 0) + BlockCap <= Offset(c, 0)
<1>1. BlockCap \in Nat \ {0}
  BY ReplicaAssumption
<1>2. b >= 1 => 0 * BlockCap <= (b - 1) * BlockCap
  BY <1>1, ProductMonotonic
<1>3. ASSUME NEW c \in Int, b < c PROVE b * BlockCap <= (c - 1) * BlockCap
  BY <1>1, <1>3, ProductMonotonic
<1>4. b * BlockCap = (b - 1) * BlockCap + BlockCap
  BY <1>1
<1> QED
  BY <1>1, <1>2, <1>3, <1>4 DEF Offset

\* The block that holds unit u + 1, and that it exists.
LEMMA BlockOf ==
  ASSUME NEW u \in Nat
  PROVE  /\ u \div BlockCap + 1 \in Nat \ {0}
         /\ Offset(u \div BlockCap + 1, 0) <= u
         /\ u < Offset(u \div BlockCap + 1, 0) + BlockCap
         /\ u % BlockCap = u - Offset(u \div BlockCap + 1, 0)
         /\ u <= MaxUnits => u \div BlockCap + 1 \in Block
<1> DEFINE q == u \div BlockCap
           t == MaxUnits \div BlockCap
<1>1. BlockCap \in Nat \ {0} /\ MaxUnits \in Nat
  BY ReplicaAssumption
<1>2. q \in Nat /\ q * BlockCap <= u /\ u < q * BlockCap + BlockCap
      /\ u % BlockCap = u - q * BlockCap
  BY <1>1, Quotient
<1>3. t \in Nat /\ t * BlockCap <= MaxUnits /\ MaxUnits < t * BlockCap + BlockCap
  BY <1>1, Quotient
<1>4. Offset(q + 1, 0) = q * BlockCap
  BY <1>1, <1>2 DEF Offset
<1>5. ASSUME u <= MaxUnits PROVE q <= t
  <2> SUFFICES ASSUME t + 1 <= q PROVE FALSE
    BY <1>2, <1>3
  <2>1. (t + 1) * BlockCap <= q * BlockCap
    BY <1>1, <1>2, <1>3, ProductMonotonic
  <2> QED
    BY <2>1, <1>1, <1>2, <1>3, <1>5
<1> QED
  BY <1>2, <1>3, <1>4, <1>5 DEF Block

\* used of a block the stream has reached; it only grows.
LEMMA UsedFacts ==
  ASSUME NEW b \in Block, NEW n \in Nat, Offset(b, 0) <= n
  PROVE  /\ Used(b, n) \in 0..BlockCap
         /\ Offset(b, 0) + Used(b, n) <= n
         /\ Used(b, n) = BlockCap \/ Offset(b, 0) + Used(b, n) = n
         /\ \A k \in Nat : n <= k => Used(b, n) <= Used(b, k)
<1>1. BlockCap \in Nat \ {0} /\ b \in Int
  BY ReplicaAssumption DEF Block
<1>2. Offset(b, 0) \in Int /\ Offset(b, 0) = (b - 1) * BlockCap
  BY <1>1 DEF Offset
<1> DEFINE o == Offset(b, 0)
<1>3. \A k \in Nat : Used(b, k) = IF BlockCap <= k - o THEN BlockCap ELSE k - o
  <2> SUFFICES ASSUME NEW k \in Nat PROVE Used(b, k) = IF BlockCap <= k - o THEN BlockCap ELSE k - o
    OBVIOUS
  <2>1. k - o \in Int
    BY <1>2
  <2> HIDE DEF o
  <2>2. Used(b, k) = Min({BlockCap, k - o})
    BY <1>2 DEF Used, o
  <2> QED
    BY <1>1, <2>1, <2>2, MinOfTwo
<1> HIDE DEF o
<1>4. o \in Int /\ o <= n
  BY <1>2 DEF o
<1> QED
  BY <1>1, <1>3, <1>4 DEF o

\* A replica has output pending exactly if it has not sent all there is.
LEMMA PendingIff ==
  ASSUME NEW b \in Block, NEW p \in 0..BlockCap, NEW n \in Nat,
         Offset(b, p) <= n, p = 0 => Offset(b, p) < n
  PROVE  HasPending(b, p, n) <=> Offset(b, p) < n
<1> DEFINE o == Offset(b, 0)
<1>1. BlockCap \in Nat \ {0} /\ b \in Int /\ b # 0 /\ p \in Int
  BY ReplicaAssumption DEF Block
<1>2. o \in Int /\ o >= 0 /\ Offset(b, p) = o + p /\ b * BlockCap = o + BlockCap
  BY <1>1, OffsetFacts DEF Block
<1>3. Used(b, n) \in 0..BlockCap /\ o + Used(b, n) <= n
      /\ (Used(b, n) = BlockCap \/ o + Used(b, n) = n)
  BY <1>1, <1>2, UsedFacts
<1>4. n + BlockCap - 1 \in Nat
  BY <1>1
<1> HIDE DEF o
<1>5. CASE Offset(b, p) = n
  <2>1. p = Used(b, n)
    BY <1>1, <1>2, <1>3, <1>5
  <2>2. b * BlockCap <= n + BlockCap - 1 /\ n + BlockCap - 1 < b * BlockCap + BlockCap
    BY <1>1, <1>2, <1>5
  <2>3. (n + BlockCap - 1) \div BlockCap = b
    BY <1>1, <1>4, <2>2, QuotientUnique
  <2> QED
    BY <1>5, <2>1, <2>3 DEF HasPending
<1>6. CASE Offset(b, p) < n
  <2> SUFFICES ASSUME p = Used(b, n), b = (n + BlockCap - 1) \div BlockCap PROVE FALSE
    BY <1>1, <1>6 DEF HasPending
  <2>1. n + BlockCap - 1 < b * BlockCap + BlockCap
    BY <1>1, <1>4, Quotient
  <2> QED
    BY <1>1, <1>2, <1>3, <1>6, <2>1
<1> QED
  BY <1>1, <1>2, <1>5, <1>6

\* A position that is passed is in no later block.
LEMMA NotLater ==
  ASSUME NEW b \in Block, NEW p \in 0..BlockCap, NEW c \in Int, NEW u \in Int,
         Offset(b, p) <= u
  PROVE  /\ u < Offset(c, 0) + BlockCap => c >= b
         /\ u = Offset(c, 0) => c > b \/ (c = b /\ p = 0)
<1>1. BlockCap \in Nat \ {0} /\ b \in Int /\ p \in Int
  BY ReplicaAssumption DEF Block
<1>2. Offset(b, p) = Offset(b, 0) + p /\ Offset(b, 0) \in Int /\ Offset(c, 0) \in Int
  BY <1>1, OffsetFacts
<1>3. c < b => Offset(c, 0) + BlockCap <= Offset(b, 0)
  BY <1>1, OffsetFacts
<1> QED
  BY <1>1, <1>2, <1>3

\* Where a replica stands that has sent u of n units: there, and no block earlier than
\* any position it has passed.
LEMMA StandingFacts ==
  ASSUME NEW u \in Nat, NEW n \in 0..MaxUnits, u <= n, 0 < n
  PROVE  LET s == Standing(u, n) IN
         /\ s = <<s[1], s[2]>> /\ s[1] \in Block /\ s[2] \in 0..BlockCap
         /\ Offset(s[1], s[2]) = u
         /\ s[2] = 0 => u < n
         /\ u < n => s[2] < BlockCap
         /\ \A b \in Block, p \in 0..BlockCap :
              Offset(b, p) <= u /\ (p = 0 => Offset(b, p) < n) => s[1] >= b
<1> DEFINE s == Standing(u, n)
           c == u \div BlockCap + 1
<1>1. BlockCap \in Nat \ {0} /\ MaxUnits \in Nat /\ n \in Nat /\ u <= MaxUnits
  BY ReplicaAssumption
<1>2. /\ c \in Nat \ {0} /\ c \in Block /\ Offset(c, 0) <= u /\ u < Offset(c, 0) + BlockCap
      /\ u % BlockCap = u - Offset(c, 0)
  BY <1>1, BlockOf
<1>3. (c - 1) * BlockCap = Offset(c, 0) /\ Offset(c, 0) \in Int
  BY <1>2, OffsetFacts DEF Offset
<1> HIDE DEF c
<1>4. s = IF u = n /\ u > 0 /\ u % BlockCap = 0 THEN <<c - 1, BlockCap>>
          ELSE <<c, u - Offset(c, 0)>>
  BY <1>3 DEF Standing, c
<1>5. CASE u = n /\ u % BlockCap = 0
  <2>1. s = <<c - 1, BlockCap>> /\ u = Offset(c, 0)
    BY <1>1, <1>2, <1>3, <1>4, <1>5
  <2>2. c # 1
    <3>1. Offset(1, 0) = 0
      BY <1>1 DEF Offset
    <3> QED
      BY <2>1, <3>1, <1>5
  <2>3. c - 1 \in Block /\ c - 1 \in Int
    <3>1. MaxUnits \div BlockCap \in Nat
      BY <1>1, Quotient
    <3> QED
      BY <1>2, <2>2, <3>1 DEF Block
  <2>4. Offset(c - 1, BlockCap) = u
    <3>1. Offset(c - 1, BlockCap) = Offset(c - 1, 0) + BlockCap /\ Offset(c - 1, 0) \in Int
      BY <2>3, <1>1, OffsetFacts
    <3>2. Offset(c - 1 + 1, 0) = Offset(c - 1, 0) + BlockCap /\ c - 1 + 1 = c
      BY <1>2, <2>3, OffsetFacts
    <3> QED
      BY <3>1, <3>2, <2>1
  <2>5. ASSUME NEW b \in Block, NEW p \in 0..BlockCap,
               Offset(b, p) <= u, p = 0 => Offset(b, p) < n
        PROVE  c - 1 >= b
    <3>1. b \in Int /\ c \in Int /\ u \in Int
      BY <1>2 DEF Block
    <3>2. c > b \/ (c = b /\ p = 0)
      BY <2>1, <2>5, <3>1, NotLater
    <3>3. c # b \/ p # 0
      BY <2>1, <2>5, <1>5, <1>3
    <3> QED
      BY <3>1, <3>2, <3>3
  <2>6. s[1] = c - 1 /\ s[2] = BlockCap
    BY <2>1
  <2> HIDE DEF s
  <2>7. /\ s = <<s[1], s[2]>> /\ s[1] \in Block /\ s[2] \in 0..BlockCap
        /\ Offset(s[1], s[2]) = u /\ s[2] # 0
    BY <2>1, <2>6, <2>3, <2>4, <1>1
  <2>8. \A b \in Block, p \in 0..BlockCap :
          Offset(b, p) <= u /\ (p = 0 => Offset(b, p) < n) => s[1] >= b
    BY <2>5, <2>6
  <2> QED
    BY <2>7, <2>8, <1>5, <1>1 DEF s
<1>6. CASE ~ (u = n /\ u % BlockCap = 0)
  <2>1. s = <<c, u - Offset(c, 0)>> /\ s[1] = c /\ s[2] = u - Offset(c, 0)
    BY <1>4, <1>6
  <2>2. Offset(c, u - Offset(c, 0)) = u
    <3>1. u - Offset(c, 0) \in Int
      BY <1>3
    <3>2. Offset(c, u - Offset(c, 0)) = Offset(c, 0) + (u - Offset(c, 0))
      BY <3>1, <1>2, OffsetFacts
    <3> QED
      BY <3>2, <1>3
  <2>3. u > Offset(c, 0) \/ u < n
    BY <1>1, <1>2, <1>3, <1>6
  <2>4. \A b \in Block, p \in 0..BlockCap : Offset(b, p) <= u => c >= b
    BY <1>2, NotLater
  <2> HIDE DEF s
  <2> QED
    BY <2>1, <2>2, <2>3, <2>4, <1>1, <1>2, <1>3 DEF s
<1> QED
  BY <1>5, <1>6

\* The same with names for block and position.
LEMMA StandingPlace ==
  ASSUME NEW u \in Nat, NEW n \in 0..MaxUnits, u <= n, 0 < n
  PROVE  \E b \in Block, p \in 0..BlockCap :
           /\ Standing(u, n) = <<b, p>> /\ Standing(u, n)[1] = b /\ Standing(u, n)[2] = p
           /\ Offset(b, p) = u
           /\ p = 0 => u < n
           /\ u < n => p < BlockCap
           /\ \A c \in Block, k \in 0..BlockCap :
                Offset(c, k) <= u /\ (k = 0 => Offset(c, k) < n) => b >= c
  BY StandingFacts

-----------------------------------------------------------------------------
(* Reference counts and trimming. *)

\* The replicas that stand in block b.
Holders(place, b) == {r \in Replica : place[r] = b}

\* Any set of replicas is finite.
LEMMA ReplicasFinite ==
  ASSUME NEW S \in SUBSET Replica
  PROVE  IsFiniteSet(S) /\ Cardinality(S) \in Nat
<1>1. IsFiniteSet(S)
  BY ReplicaAssumption, FS_Subset
<1> QED
  BY <1>1, FS_CardinalityType

\* A block that a replica stands in is held.
LEMMA HeldBlock ==
  ASSUME NEW place, NEW r \in Replica
  PROVE  Cardinality(Holders(place, place[r])) >= 1
<1> DEFINE H == Holders(place, place[r])
<1>1. H \in SUBSET Replica /\ r \in H
  BY DEF Holders
<1> HIDE DEF H
<1>2. IsFiniteSet(H) /\ Cardinality(H) \in Nat
  BY <1>1, ReplicasFinite
<1>3. Cardinality(H) # 0
  BY <1>1, <1>2, FS_EmptySet
<1> QED
  BY <1>2, <1>3 DEF H

\* One replica goes from one block to another: one holder less, one more.
LEMMA HoldersMove ==
  ASSUME NEW place \in [Replica -> Block \union {0}], NEW r \in Replica,
         NEW new \in Block \union {0}, NEW b \in Block,
         NEW moved, \A q \in Replica : moved[q] = IF q = r THEN new ELSE place[q]
  PROVE  Cardinality(Holders(moved, b)) =
           Cardinality(Holders(place, b)) - (IF b = place[r] THEN 1 ELSE 0)
                                          + (IF b = new THEN 1 ELSE 0)
<1> DEFINE H == Holders(place, b)
           N == Holders(moved, b)
<1>1. H \in SUBSET Replica /\ N \in SUBSET Replica
  BY DEF Holders
<1>2. IsFiniteSet(H) /\ Cardinality(H) \in Nat /\ IsFiniteSet(N) /\ Cardinality(N) \in Nat
  BY <1>1, ReplicasFinite
<1>3. ASSUME b = place[r], b # new PROVE Cardinality(N) = Cardinality(H) - 1
  <2>1. N = H \ {r} /\ r \in H
    BY <1>3 DEF Holders
  <2> HIDE DEF H, N
  <2> QED
    BY <2>1, <1>2, FS_RemoveElement
<1>4. ASSUME b # place[r], b = new PROVE Cardinality(N) = Cardinality(H) + 1
  <2>1. N = H \union {r} /\ r \notin H
    BY <1>4 DEF Holders
  <2> HIDE DEF H, N
  <2> QED
    BY <2>1, <1>2, FS_AddElement
<1>5. ASSUME (b = place[r]) <=> (b = new) PROVE N = H
  BY <1>5 DEF Holders
<1> HIDE DEF H, N
<1>6. Cardinality(N) = Cardinality(H) - (IF b = place[r] THEN 1 ELSE 0)
                                      + (IF b = new THEN 1 ELSE 0)
  BY <1>2, <1>3, <1>4, <1>5
<1> QED
  BY <1>6 DEF H, N

\* The block where trimming stops: the first of the list that is the last, is held, or
\* is needed for the history.
LEMMA TrimmedFacts ==
  ASSUME NEW head \in Block, NEW rc, NEW n \in 0..MaxUnits
  PROVE  LET t == Trimmed(head, rc, n) IN
         /\ t \in Block /\ t >= head /\ TrimStops(head, t, rc, n)
         /\ \A b \in Block : b >= head /\ TrimStops(head, b, rc, n) => t <= b
<1> DEFINE S == {b \in Block : b >= head /\ TrimStops(head, b, rc, n)}
           l == n \div BlockCap + 1
           R == OpToRel(<, Nat)
<1>1. BlockCap \in Nat \ {0} /\ MaxUnits \in Nat /\ n \in Nat /\ n <= MaxUnits
  BY ReplicaAssumption
<1>2. l \in Block /\ l \in Nat /\ n < Offset(l, 0) + BlockCap
  BY <1>1, BlockOf
<1>3. \A b \in Block : b \in Nat /\ b # 0
  BY DEF Block
<1>4. \E x \in S : TRUE
  <2> HIDE DEF l
  <2>1. \A b \in Block : b >= l => TrimStops(head, b, rc, n)
    <3> SUFFICES ASSUME NEW b \in Block, b >= l PROVE b * BlockCap >= n
      BY DEF TrimStops
    <3>1. l * BlockCap <= b * BlockCap
      BY <1>1, <1>2, <1>3, ProductMonotonic
    <3>2. l * BlockCap = Offset(l, 0) + BlockCap /\ Offset(l, 0) \in Int
      BY <1>2, OffsetFacts
    <3>3. b * BlockCap \in Int
      BY <1>1, <1>3
    <3> QED
      BY <1>1, <1>2, <3>1, <3>2, <3>3
  <2> QED
    BY <2>1, <1>2, <1>3
<1>5. S \subseteq Nat /\ S # {}
  BY <1>3, <1>4
<1>6. IsWellFoundedOn(R, Nat)
  BY NatLessThanWellFounded
<1>7. PICK x \in S : \A y \in S : ~ (<<y, x>> \in R)
  BY <1>5, <1>6, WFMin
<1>8. \A y \in S : x <= y
  <2> HIDE DEF S
  <2>1. \A y \in S : ~ (y < x)
    BY <1>5, <1>7 DEF OpToRel
  <2>2. x \in Nat /\ \A y \in S : y \in Nat
    BY <1>5, <1>7
  <2>3. ASSUME NEW y \in S PROVE x <= y
    <3>1. ~ (y < x) /\ x \in Nat /\ y \in Nat
      BY <2>1, <2>2, <2>3
    <3> QED
      BY <3>1
  <2> QED
    BY <2>3
<1>9. Min(S) \in S /\ \A y \in S : Min(S) <= y
  <2> HIDE DEF S
  <2> QED
    BY <1>8 DEF Min
<1>10. Trimmed(head, rc, n) = Min(S)
  BY <1>3 DEF Trimmed
<1> QED
  BY <1>9, <1>10

\* Trimming keeps the counts exact if they were, and releases no block with a replica
\* in it.
LEMMA TrimKeeps ==
  ASSUME NEW head \in Block, NEW rc \in [Block -> Int], NEW n \in 0..MaxUnits,
         NEW place \in [Replica -> Block \union {0}],
         Offset(head, 0) < n,
         \A b \in Block : rc[b] = Cardinality(Holders(place, b)) + (IF b = head THEN 1 ELSE 0),
         \A r \in Replica : place[r] # 0 => place[r] >= head
  PROVE  LET t == Trimmed(head, rc, n) IN
         /\ t \in Block /\ t >= head /\ Offset(t, 0) < n
         /\ \A r \in Replica : place[r] # 0 => place[r] >= t
         /\ MoveRef(rc, head, t) \in [Block -> Int]
         /\ \A b \in Block :
              MoveRef(rc, head, t)[b] = Cardinality(Holders(place, b)) + (IF t = b THEN 1 ELSE 0)
<1> DEFINE t == Trimmed(head, rc, n)
<1>1. /\ t \in Block /\ t >= head /\ TrimStops(head, t, rc, n)
      /\ \A b \in Block : b >= head /\ TrimStops(head, b, rc, n) => t <= b
  BY TrimmedFacts
<1> HIDE DEF t
<1>2. \A b \in Block : b \in Int /\ b >= 1
  BY DEF Block
<1>3. Offset(t, 0) < n
  <2>1. CASE t = head
    BY <2>1
  <2>2. CASE t # head
    <3>0. MaxUnits \div BlockCap \in Nat
      BY ReplicaAssumption, Quotient
    <3>1. t - 1 \in Block /\ t - 1 >= head
      BY <3>0, <1>1, <2>2 DEF Block
    <3>2. ~ TrimStops(head, t - 1, rc, n)
      BY <1>1, <1>2, <3>1
    <3>3. ~ ((t - 1) * BlockCap >= n)
      BY <3>2 DEF TrimStops
    <3>4. Offset(t, 0) = (t - 1) * BlockCap
      BY ReplicaAssumption, <1>1, <1>2 DEF Offset
    <3>5. Offset(t, 0) \in Int /\ n \in Int
      BY <1>1, <1>2, OffsetFacts
    <3> QED
      BY <3>3, <3>4, <3>5
  <2> QED
    BY <2>1, <2>2
<1>4. ASSUME NEW r \in Replica, place[r] # 0
      PROVE  place[r] >= t
  <2>1. place[r] \in Block /\ place[r] >= head
    BY <1>4
  <2>2. Cardinality(Holders(place, place[r])) >= 1
    BY HeldBlock
  <2>3. Cardinality(Holders(place, place[r])) \in Nat
    BY ReplicasFinite DEF Holders
  <2>4. rc[place[r]] > (IF place[r] = head THEN 1 ELSE 0)
    BY <2>1, <2>2, <2>3
  <2>5. TrimStops(head, place[r], rc, n)
    BY <2>4 DEF TrimStops
  <2> QED
    BY <1>1, <1>2, <2>1, <2>5
<1>5. ASSUME NEW b \in Block
      PROVE  /\ MoveRef(rc, head, t)[b] =
                  Cardinality(Holders(place, b)) + (IF t = b THEN 1 ELSE 0)
             /\ MoveRef(rc, head, t)[b] \in Int
  <2>1. Cardinality(Holders(place, b)) \in Nat
    BY ReplicasFinite DEF Holders
  <2>2. MoveRef(rc, head, t)[b] =
          rc[b] - (IF b = head THEN 1 ELSE 0) + (IF b = t THEN 1 ELSE 0)
    BY DEF MoveRef
  <2> QED
    BY <2>1, <2>2
<1>6. MoveRef(rc, head, t) \in [Block -> Int]
  BY <1>5 DEF MoveRef
<1> QED
  BY <1>1, <1>3, <1>4, <1>5, <1>6 DEF t


-----------------------------------------------------------------------------
(* The library. *)

\* The program takes an answer for an acceptance only when it is one: also a negative
\* answer, which becomes a large size_t, is negative again in the int.
LEMMA TakenIff ==
  ASSUME NEW answer \in Results
  PROVE  Taken(answer) <=> answer = 1
<1> DEFINE m == SizeMax + 1
           h == SizeMax \div 2
<1>1. m \in Nat \ {0} /\ m >= 4 /\ SizeMax \in Nat
  BY SizeMaxAssumption
<1>2. h \in Nat /\ h * 2 <= SizeMax /\ SizeMax < h * 2 + 2
  BY <1>1, Quotient
<1>3. 1 % m = 1 /\ 0 % m = 0
  <2>1. 1 \div m = 0 /\ 0 \div m = 0
    BY <1>1, QuotientUnique
  <2>2. 1 % m = 1 - (1 \div m) * m /\ 0 % m = 0 - (0 \div m) * m
    BY <1>1, Quotient
  <2> QED
    BY <1>1, <2>1, <2>2
<1>4. (-1) % m = SizeMax
  BY <1>1
<1>5. SizeT(1) = 1 /\ SizeT(0) = 0 /\ SizeT(-1) = SizeMax
  BY <1>3, <1>4 DEF SizeT
<1>6. IntOf(1) = 1 /\ IntOf(0) = 0 /\ IntOf(SizeMax) = -1
  <2>1. IntOf(1) = (IF 1 > h THEN 1 - m ELSE 1) /\ IntOf(0) = (IF 0 > h THEN 0 - m ELSE 0)
        /\ IntOf(SizeMax) = (IF SizeMax > h THEN SizeMax - m ELSE SizeMax)
    BY DEF IntOf
  <2>2. ~ (1 > h) /\ ~ (0 > h) /\ SizeMax > h /\ SizeMax - m = -1
    BY <1>1, <1>2
  <2> QED
    BY <2>1, <2>2
<1> QED
  BY <1>5, <1>6 DEF Taken, Results

\* A submission.
LEMMA OperationFacts ==
  ASSUME NEW r \in Replica, NEW b \in Block, NEW p \in 0..BlockCap, NEW n \in 1..BlockCap
  PROVE  LET op == Operation("write", r, <<b, p>>, n) IN
         /\ op \in Op /\ op.fd = r /\ op.buf = <<b, p>> /\ op.buf[1] = b /\ op.buf[2] = p
         /\ op.count = n /\ op.st = "flight" /\ op.ret = 0
<1>1. BlockCap \in Nat \ {0}
  BY ReplicaAssumption
<1>2. <<b, p>> \in Block \X (0..BlockCap) /\ 0 \in -1..BlockCap
  BY <1>1
<1> QED
  BY <1>1, <1>2 DEF Operation, Op

\* What the parts of an operation are.
LEMMA OpFields ==
  ASSUME NEW op \in Op
  PROVE  /\ op.fd \in Replica /\ op.buf[1] \in Block /\ op.buf[2] \in 0..BlockCap
         /\ op.count \in 1..BlockCap /\ op.ret \in -1..BlockCap
         /\ \A b : Acked(op, b) = IF op.ret > 0 THEN op.ret ELSE 0
  BY DEF Op, Acked

-----------------------------------------------------------------------------
(* Steps. *)

\* A step leaves replica r alone, up to queueing it.
Same(r) ==
  /\ at'[r] = at[r] /\ pos'[r] = pos[r] /\ async'[r] = async[r] /\ life'[r] = life[r]
  /\ handler'[r] = handler[r] /\ refused'[r] = refused[r] /\ (queued[r] => queued'[r])
  /\ wire'[r] = wire[r] /\ from'[r] = from[r]
  /\ \A op : op.fd = r => (op \in ring' <=> op \in ring)

\* The stream and the list are as they were, up to trimming what r does not need.
SameList(r) ==
  /\ produced' = produced
  /\ (backlog' = 0) <=> (backlog = 0)
  /\ at[r] # 0 => at[r] >= backlog'

\* Then it is in order as it was.
LEMMA SameGood ==
  ASSUME NEW r \in Replica, Good(r), Same(r), SameList(r)
  PROVE  Good(r)'
<1>1. Placed(r)'
  BY DEF Good, Same, SameList, Placed
<1>2. Alone(r)'
  BY DEF Good, Same, Alone
<1>3. Carries(r)'
  BY DEF Good, Same, SameList, Carries
<1>4. Streams(r)'
  BY DEF Good, Same, Streams
<1>5. Continued(r)'
  BY DEF Good, Same, SameList, Continued
<1> QED
  BY <1>1, <1>2, <1>3, <1>4, <1>5 DEF Good

\* A replica in a block goes on to a later one, or leaves: the counts stay exact, and
\* the list keeps every block that a replica stands in.
LEMMA MoveKeeps ==
  ASSUME ReplicaInv, NEW r \in Replica, at[r] # 0, NEW new \in Block \union {0},
         new # 0 => new >= at[r], produced' = produced,
         at' = [at EXCEPT ![r] = new],
         Trim(backlog, MoveRef(refs, at[r], new), produced)
  PROVE  /\ at' \in [Replica -> Block \union {0}] /\ backlog' \in Block
         /\ refs' \in [Block -> Int]
         /\ HeadInv' /\ RefcountsExact'
         /\ \A q \in Replica : at'[q] # 0 => at'[q] >= backlog'
<1> DEFINE rc == MoveRef(refs, at[r], new)
           place == [at EXCEPT ![r] = new]
<1>1. /\ at \in [Replica -> Block \union {0}] /\ refs \in [Block -> Int]
      /\ produced \in 0..MaxUnits
  BY DEF ReplicaInv, TypeOK
<1>2. backlog \in Block /\ at[r] \in Block /\ at[r] >= backlog /\ Offset(backlog, 0) < produced
  BY DEF ReplicaInv, TypeOK, HeadInv, Good, Placed
<1>3. \A b \in Block : b \in Int /\ b # 0
  BY DEF Block
<1>4. ASSUME NEW b \in Block
      PROVE  /\ rc[b] = Cardinality(Holders(place, b)) + (IF b = backlog THEN 1 ELSE 0)
             /\ rc[b] \in Int
  <2>1. rc[b] = refs[b] - (IF b = at[r] THEN 1 ELSE 0) + (IF b = new THEN 1 ELSE 0)
    BY <1>1 DEF MoveRef
  <2>2. refs[b] = Cardinality(Holders(at, b)) + (IF backlog = b THEN 1 ELSE 0)
    BY DEF ReplicaInv, RefcountsExact, Holders
  <2>3. Cardinality(Holders(place, b)) =
          Cardinality(Holders(at, b)) - (IF b = at[r] THEN 1 ELSE 0)
                                      + (IF b = new THEN 1 ELSE 0)
    <3>1. /\ at \in [Replica -> Block \union {0}]
          /\ \A q \in Replica : place[q] = IF q = r THEN new ELSE at[q]
      BY <1>1
    <3> HIDE DEF place
    <3> QED
      BY <3>1, HoldersMove
  <2>4. Cardinality(Holders(at, b)) \in Nat
    BY ReplicasFinite DEF Holders
  <2> HIDE DEF rc, place
  <2> QED
    BY <2>1, <2>2, <2>3, <2>4
<1>5. rc \in [Block -> Int]
  <2>1. rc = [b \in Block |-> rc[b]]
    BY <1>1 DEF MoveRef
  <2> HIDE DEF rc
  <2> QED
    BY <2>1, <1>4
<1>6. place \in [Replica -> Block \union {0}]
  BY <1>1
<1>7. ASSUME NEW q \in Replica, place[q] # 0 PROVE place[q] >= backlog
  <2>1. CASE q = r
    BY <2>1, <1>1, <1>2, <1>3, <1>7
  <2>2. CASE q # r
    <3>1. place[q] = at[q]
      BY <1>1, <2>2
    <3> QED
      BY <3>1, <1>7 DEF ReplicaInv, Good, Placed
  <2> QED
    BY <2>1, <2>2
<1>8. backlog # 0
  BY <1>2, <1>3
<1>9. backlog' = Trimmed(backlog, rc, produced) /\ refs' = MoveRef(rc, backlog, backlog')
  BY <1>2 DEF Trim
<1>10. at' = place
  OBVIOUS
<1> HIDE DEF rc, place
<1>11. /\ backlog' \in Block /\ Offset(backlog', 0) < produced
       /\ \A q \in Replica : place[q] # 0 => place[q] >= backlog'
       /\ refs' \in [Block -> Int]
       /\ \A b \in Block :
            refs'[b] = Cardinality(Holders(place, b)) + (IF backlog' = b THEN 1 ELSE 0)
  BY <1>1, <1>2, <1>4, <1>5, <1>6, <1>7, <1>9, TrimKeeps
<1>12. HeadInv'
  BY <1>3, <1>11 DEF HeadInv, Offset
<1>13. RefcountsExact'
  <2>1. \A b \in Block : Holders(place, b) = {q \in Replica : at'[q] = b}
    BY <1>10 DEF Holders
  <2> QED
    BY <1>11, <2>1 DEF RefcountsExact
<1> QED
  BY <1>6, <1>10, <1>11, <1>12, <1>13


\* The units of a block that is in the list.
LEMMA LoadFacts ==
  ASSUME NEW b, b >= backlog, NEW u \in Nat, NEW n \in Nat, NEW l, l = Load(b, u, n)
  PROVE  l \in Seq(Nat) /\ Len(l) = n /\ \A i \in 1..n : l[i] = u + i
<1>1. l = [i \in 1..n |-> u + i]
  BY DEF Load
<1>2. \A i \in 1..n : u + i \in Nat
  OBVIOUS
<1> QED
  BY <1>1, <1>2, LenProperties

\* Consecutive units appended to what a socket took.
LEMMA AppendFacts ==
  ASSUME NEW s \in Seq(Nat), NEW l \in Seq(Nat), NEW u \in Nat,
         \A i \in 1..Len(l) : l[i] = u + i
  PROVE  /\ s \o l \in Seq(Nat) /\ Len(s \o l) = Len(s) + Len(l)
         /\ \A i \in 1..Len(s \o l) :
              (s \o l)[i] = IF i <= Len(s) THEN s[i] ELSE u + (i - Len(s))
<1>1. /\ s \o l \in Seq(Nat) /\ Len(s \o l) = Len(s) + Len(l)
      /\ \A i \in 1..Len(s) + Len(l) : (s \o l)[i] = IF i <= Len(s) THEN s[i] ELSE l[i - Len(s)]
  BY ConcatProperties
<1>2. Len(s) \in Nat /\ Len(l) \in Nat
  OBVIOUS
<1>3. ASSUME NEW i \in 1..Len(s) + Len(l), ~ (i <= Len(s))
      PROVE  l[i - Len(s)] = u + (i - Len(s))
  <2>1. i - Len(s) \in 1..Len(l)
    BY <1>2, <1>3
  <2> QED
    BY <2>1
<1> QED
  BY <1>1, <1>3

\* What fits both the socket and the stream.
LEMMA AtMostRoom ==
  ASSUME NEW cap \in Nat, NEW s \in 0..cap, NEW d \in Nat, NEW u \in Nat,
         NEW k \in Int, k <= cap - s, k <= d - u, NEW m \in 0..k
  PROVE  m \in Nat /\ s + m \in 0..cap /\ u + m <= d /\ u + m \in Nat
  OBVIOUS

\* writeToClient() of a replica with nothing in the ring besides rest, which has sent u
\* units, keeps the invariant.
LEMMA WriteLoopKeeps ==
  ASSUME ReplicaInv, NEW r \in Replica, at[r] # 0, NEW u \in Nat, NEW rest, NEW caller,
         Offset(at[r], pos[r]) <= u, u <= produced, from[r] + Len(wire[r]) = u,
         \A op : op \in rest <=> op \in ring /\ op.fd # r,
         WriteLoop(r, u, rest, caller),
         produced' = produced, from' = from, attached' = attached,
         queued' \in [Replica -> BOOLEAN],
         \A q \in Replica : q # r => queued'[q] = queued[q]
  PROVE  ReplicaInv'
<1> USE DEF InFlight
<1>0. /\ produced \in 0..MaxUnits /\ produced \in Nat /\ backlog \in Block
      /\ at[r] \in Block /\ pos[r] \in 0..BlockCap /\ BlockCap \in Nat \ {0} /\ SockCap \in Nat
      /\ sock[r] \in 0..SockCap /\ wire[r] \in Seq(Nat) /\ from[r] \in Nat
      /\ at[r] >= backlog /\ Offset(backlog, 0) < produced
      /\ MaxUnits \in Nat
  BY ReplicaAssumption DEF ReplicaInv, TypeOK, HeadInv, Good, Placed
<1>1. \A b \in Block : b \in Int /\ b >= 1
  BY DEF Block
<1>2. 0 < produced /\ backlog \in Nat /\ backlog # 0 /\ at[r] \in Nat
  <2>1. backlog \in Int /\ backlog >= 1 /\ at[r] \in Int /\ at[r] >= 1
    BY <1>0, <1>1
  <2>2. Offset(backlog, 0) \in Int /\ Offset(backlog, 0) >= 0
    BY <2>1, OffsetFacts
  <2> QED
    BY <1>0, <2>1, <2>2
<1>3. PICK m \in 0..Min({Room(r), produced - u}), answer \in Results :
        LET new == Standing(u + m, produced)
            pending == HasPending(new[1], new[2], produced) IN
        /\ Trim(backlog, MoveRef(refs, at[r], new[1]), produced)
        /\ at' = [at EXCEPT ![r] = new[1]]
        /\ pos' = [pos EXCEPT ![r] = new[2]]
        /\ sock' = [sock EXCEPT ![r] = @ + m]
        /\ wire' = [wire EXCEPT ![r] = @ \o Load(at[r], u, m)]
        /\ refused' = [refused EXCEPT ![r] = @ \/ m > 0 \/ (pending /\ answer # 1)]
        /\ IF pending /\ Taken(answer)
           THEN /\ async' = [async EXCEPT ![r] = TRUE]
                /\ ring' = IF answer = 1
                           THEN rest \union
                                {Operation("write", r, new, Used(new[1], produced) - new[2])}
                           ELSE rest
                /\ UNCHANGED <<handler, life, errors>>
           ELSE /\ async' = [async EXCEPT ![r] = FALSE]
                /\ ring' = rest
                /\ \/ /\ ~pending
                      /\ handler' = [handler EXCEPT ![r] = @ /\ caller # "handler"]
                      /\ UNCHANGED <<life, errors>>
                   \/ /\ pending /\ m = Room(r)
                      /\ handler' = [handler EXCEPT ![r] = @ \/ caller = "queue"]
                      /\ UNCHANGED <<life, errors>>
                   \/ /\ pending /\ errors < MaxErr
                      /\ errors' = errors + 1
                      /\ life' = [life EXCEPT ![r] = "closing"]
                      /\ UNCHANGED handler
  BY Zenon DEF WriteLoop
<1>4. m \in Nat /\ sock[r] + m \in 0..SockCap /\ u + m <= produced /\ u + m \in Nat
  <2>0. m \in 0..Min({Room(r), produced - u})
    BY <1>3
  <2>1. Room(r) \in Int /\ Room(r) = SockCap - sock[r] /\ produced - u \in Int
    BY <1>0 DEF Room
  <2>2. Min({Room(r), produced - u}) \in Int /\ Min({Room(r), produced - u}) <= Room(r)
        /\ Min({Room(r), produced - u}) <= produced - u
    BY <2>1, MinOfTwo
  <2> DEFINE k == Min({Room(r), produced - u})
  <2> HIDE DEF k
  <2>3. k \in Int /\ k <= SockCap - sock[r] /\ k <= produced - u /\ m \in 0..k
    BY <2>0, <2>1, <2>2 DEF k
  <2> QED
    BY SMTT(30), <1>0, <2>3, AtMostRoom
<1> DEFINE v == u + m
<1>5. PICK b \in Block, p \in 0..BlockCap :
        /\ Standing(v, produced) = <<b, p>>
        /\ Standing(v, produced)[1] = b /\ Standing(v, produced)[2] = p
        /\ Offset(b, p) = v
        /\ p = 0 => v < produced
        /\ v < produced => p < BlockCap
        /\ \A c \in Block, k \in 0..BlockCap :
             Offset(c, k) <= v /\ (k = 0 => Offset(c, k) < produced) => b >= c
  <2>1. v \in Nat /\ v <= produced
    BY <1>4
  <2> HIDE DEF v
  <2> QED
    BY <2>1, <1>0, <1>2, StandingPlace
<1>a. b \in Block /\ p \in 0..BlockCap /\ b \in Int /\ b >= 1 /\ p \in Int
  BY <1>0, <1>1, <1>5
<1>b. Offset(b, 0) \in Int /\ Offset(b, p) = Offset(b, 0) + p /\ Offset(b, p) = v
  BY <1>a, <1>5, OffsetFacts
<1>6. b >= at[r]
  <2>1. pos[r] = 0 => Offset(at[r], pos[r]) < produced
    BY DEF ReplicaInv, Good, Placed
  <2>2. Offset(at[r], pos[r]) \in Int /\ Offset(at[r], pos[r]) <= v
    <3>1. pos[r] \in Int /\ at[r] \in Int
      BY <1>0, <1>2
    <3>2. Offset(at[r], pos[r]) = Offset(at[r], 0) + pos[r] /\ Offset(at[r], 0) \in Int
      BY <3>1, OffsetFacts
    <3> QED
      BY <3>1, <3>2, <1>4
  <2> HIDE DEF v
  <2> QED
    BY <1>0, <1>5, <2>1, <2>2
<1> DEFINE pending == HasPending(b, p, produced)
           op == Operation("write", r, <<b, p>>, Used(b, produced) - p)
<1>7. pending <=> v < produced
  <2>1. v <= produced /\ (p = 0 => v < produced)
    BY <1>4, <1>5
  <2> HIDE DEF v
  <2> QED
    BY <1>0, <1>a, <1>b, <2>1, PendingIff
<1>8. /\ Trim(backlog, MoveRef(refs, at[r], b), produced)
      /\ at' = [at EXCEPT ![r] = b]
      /\ pos' = [pos EXCEPT ![r] = p]
      /\ sock' = [sock EXCEPT ![r] = @ + m]
      /\ wire' = [wire EXCEPT ![r] = @ \o Load(at[r], u, m)]
      /\ refused' = [refused EXCEPT ![r] = @ \/ m > 0 \/ (pending /\ answer # 1)]
  <2>1. Standing(u + m, produced)[1] = b /\ Standing(u + m, produced)[2] = p
    BY <1>5
  <2> QED
    BY <1>3, <2>1
<1>9. \/ /\ pending /\ answer = 1
         /\ async' = [async EXCEPT ![r] = TRUE]
         /\ ring' = rest \union {op}
         /\ UNCHANGED <<handler, life, errors>>
      \/ /\ pending => answer # 1
         /\ async' = [async EXCEPT ![r] = FALSE]
         /\ ring' = rest
         /\ \/ /\ ~pending
               /\ handler' = [handler EXCEPT ![r] = @ /\ caller # "handler"]
               /\ UNCHANGED <<life, errors>>
            \/ /\ pending /\ m = Room(r)
               /\ handler' = [handler EXCEPT ![r] = @ \/ caller = "queue"]
               /\ UNCHANGED <<life, errors>>
            \/ /\ pending /\ errors < MaxErr
               /\ errors' = errors + 1
               /\ life' = [life EXCEPT ![r] = "closing"]
               /\ UNCHANGED handler
  BY <1>3, <1>5, TakenIff
<1>10. /\ at' \in [Replica -> Block \union {0}] /\ backlog' \in Block
       /\ refs' \in [Block -> Int] /\ HeadInv' /\ RefcountsExact'
       /\ \A q \in Replica : at'[q] # 0 => at'[q] >= backlog'
  BY <1>6, <1>8, MoveKeeps
<1>11. pending => /\ Used(b, produced) - p \in 1..BlockCap
                  /\ op \in Op /\ op.fd = r /\ op.buf = <<b, p>> /\ op.buf[1] = b
                  /\ op.buf[2] = p /\ op.count = Used(b, produced) - p
                  /\ op.st = "flight" /\ op.ret = 0
  <2> SUFFICES ASSUME pending PROVE Used(b, produced) - p \in 1..BlockCap
    BY <1>5, OperationFacts
  <2>1. v \in Nat /\ v < produced /\ p < BlockCap
    BY <1>4, <1>5, <1>7
  <2> HIDE DEF v
  <2>2. Offset(b, 0) <= produced
    BY <2>1, <1>0, <1>a, <1>b
  <2>3. Used(b, produced) \in 0..BlockCap
        /\ (Used(b, produced) = BlockCap \/ Offset(b, 0) + Used(b, produced) = produced)
    BY <1>0, <1>a, <2>2, UsedFacts
  <2> DEFINE w == Used(b, produced)
             o == Offset(b, 0)
  <2>4. /\ w \in Int /\ o \in Int /\ p \in Int /\ BlockCap \in Int /\ produced \in Int
        /\ w <= BlockCap /\ p >= 0 /\ p < BlockCap /\ o + p < produced
        /\ (w = BlockCap \/ o + w = produced)
    BY <1>0, <1>a, <1>b, <2>1, <2>3
  <2> HIDE DEF w, o
  <2>5. w - p \in 1..BlockCap
    BY <2>4
  <2> QED
    BY <2>5 DEF w
<1>12. /\ wire' \in [Replica -> Seq(Nat)]
       /\ Len(wire'[r]) = Len(wire[r]) + m
       /\ \A i \in 1..Len(wire'[r]) : wire'[r][i] = from[r] + i
  <2> DEFINE t == wire[r] \o Load(at[r], u, m)
  <2>1. wire \in [Replica -> Seq(Nat)] /\ backlog \in Nat /\ at[r] \in Nat
    BY SMTT(30), <1>0, <1>1 DEF ReplicaInv, TypeOK
  <2>2. wire' = [wire EXCEPT ![r] = t] /\ wire'[r] = t
    BY <1>8, <2>1
  <2>3. /\ t \in Seq(Nat) /\ Len(t) = Len(wire[r]) + m
        /\ \A i \in 1..Len(t) :
             t[i] = IF i <= Len(wire[r]) THEN wire[r][i] ELSE u + (i - Len(wire[r]))
    <3> DEFINE l == Load(at[r], u, m)
    <3>1. l \in Seq(Nat) /\ Len(l) = m /\ \A i \in 1..m : l[i] = u + i
      BY <1>0, <1>4, LoadFacts
    <3>2. t = wire[r] \o l
      OBVIOUS
    <3> HIDE DEF l, t
    <3>3. wire[r] \in Seq(Nat)
      BY <1>0
    <3>4. l \in Seq(Nat) /\ \A i \in 1..Len(l) : l[i] = u + i
      BY <3>1
    <3>5. wire[r] \o l \in Seq(Nat) /\ Len(wire[r] \o l) = Len(wire[r]) + Len(l)
      BY <3>3, <3>4, AppendFacts
    <3>6. \A i \in 1..Len(wire[r] \o l) :
            (wire[r] \o l)[i] = IF i <= Len(wire[r]) THEN wire[r][i] ELSE u + (i - Len(wire[r]))
      BY <3>3, <3>4, AppendFacts
    <3> QED
      BY <3>1, <3>2, <3>5, <3>6
  <2>4. \A i \in 1..Len(wire[r]) : wire[r][i] = from[r] + i
    BY DEF ReplicaInv, Good, Streams
  <2>5. Len(wire[r]) \in Nat
    BY <1>0
  <2> HIDE DEF t
  <2>6. ASSUME NEW i \in 1..Len(t) PROVE t[i] = from[r] + i
    <3>1. t[i] = IF i <= Len(wire[r]) THEN wire[r][i] ELSE u + (i - Len(wire[r]))
      BY <2>3
    <3>2. ~ (i <= Len(wire[r])) => t[i] = u + (i - Len(wire[r]))
      BY <3>1
    <3>3. i \in Int /\ i >= 1
      BY <2>3, <2>5, <1>4
    <3> QED
      <4>1. CASE i <= Len(wire[r])
        <5>1. i \in 1..Len(wire[r])
          BY <3>3, <4>1, <2>5
        <5>2. wire[r][i] = from[r] + i
          BY <2>4, <5>1
        <5> QED
          BY <3>1, <4>1, <5>2
      <4>2. CASE ~ (i <= Len(wire[r]))
        <5>1. i \in Int /\ Len(wire[r]) \in Int /\ from[r] \in Int
          BY <2>3, <2>5, <1>0, <1>4
        <5> DEFINE w == Len(wire[r])
                   g == from[r]
        <5>2. i \in Int /\ w \in Int /\ g \in Int /\ g + w = u /\ t[i] = u + (i - w)
          BY <5>1, <3>2, <4>2
        <5> HIDE DEF w, g
        <5>3. u + (i - w) = g + i
          BY <5>2
        <5> QED
          BY <5>2, <5>3 DEF g
      <4> QED
        BY <4>1, <4>2
  <2> QED
    BY <2>1, <2>2, <2>3, <2>6
<1> HIDE DEF op, pending
<1>13. TypeOK'
  <2>1. pos' \in [Replica -> 0..BlockCap] /\ sock' \in [Replica -> 0..SockCap]
        /\ refused' \in [Replica -> BOOLEAN] /\ async' \in [Replica -> BOOLEAN]
    BY <1>4, <1>5, <1>8, <1>9 DEF ReplicaInv, TypeOK
  <2>2. /\ handler' \in [Replica -> BOOLEAN] /\ errors' \in Nat
        /\ life' \in [Replica -> {"none", "online", "closing"}]
    <3>1. /\ handler \in [Replica -> BOOLEAN] /\ errors \in Nat
          /\ life \in [Replica -> {"none", "online", "closing"}]
      BY DEF ReplicaInv, TypeOK
    <3>2. /\ handler' = handler \/ (\E h \in BOOLEAN : handler' = [handler EXCEPT ![r] = h])
          /\ errors' = errors \/ errors' = errors + 1
          /\ life' = life \/ life' = [life EXCEPT ![r] = "closing"]
      BY <1>9, <3>1
    <3> QED
      BY <3>1, <3>2
  <2>3. ring' \subseteq Op
    BY <1>9, <1>11 DEF ReplicaInv, TypeOK
  <2> QED
    BY <1>10, <1>12, <2>1, <2>2, <2>3 DEF ReplicaInv, TypeOK
<1>14. ASSUME NEW q \in Replica, q # r PROVE Good(q)'
  <2>1. Same(q)
    <3>1. /\ at'[q] = at[q] /\ pos'[q] = pos[q] /\ async'[q] = async[q] /\ life'[q] = life[q]
          /\ handler'[q] = handler[q] /\ refused'[q] = refused[q] /\ queued'[q] = queued[q]
          /\ wire'[q] = wire[q] /\ from'[q] = from[q]
      BY <1>8, <1>9, <1>14 DEF ReplicaInv, TypeOK
    <3>2. \A o : o.fd = q => (o \in ring' <=> o \in ring)
      BY <1>9, <1>11, <1>14
    <3> QED
      BY <3>1, <3>2 DEF Same
  <2>2. at'[q] = at[q] /\ (at'[q] # 0 => at'[q] >= backlog') /\ backlog' # 0 /\ backlog # 0
    BY <2>1, <1>2, <1>1, <1>10 DEF Same
  <2>3. SameList(q)
    BY <2>2 DEF SameList
  <2> QED
    BY <2>1, <2>3, SameGood DEF ReplicaInv
<1>15. Good(r)'
  <2>1. at'[r] = b /\ pos'[r] = p /\ from'[r] = from[r] /\ b # 0 /\ b >= backlog' /\ backlog' # 0
    <3>1. at'[r] = b /\ pos'[r] = p
      BY <1>8 DEF ReplicaInv, TypeOK
    <3>2. b # 0 /\ backlog' # 0
      BY <1>a, <1>1, <1>10
    <3> QED
      BY <3>1, <3>2, <1>10
  <2>2. from'[r] + Len(wire'[r]) = Offset(at'[r], pos'[r])
    <3>1. Len(wire[r]) \in Nat /\ from[r] \in Nat
      BY <1>0
    <3>2. Len(wire'[r]) = Len(wire[r]) + m
      BY <1>12
    <3>3. Offset(at'[r], pos'[r]) = u + m
      BY <1>b, <2>1
    <3>4. from'[r] + Len(wire'[r]) = (from[r] + Len(wire[r])) + m
      BY <3>1, <3>2, <1>4
    <3> QED
      BY <3>3, <3>4
  <2>3. Placed(r)'
    <3>1. Offset(at'[r], pos'[r]) = u + m
      BY <1>5, <2>1
    <3>2. life'[r] = "none" => at'[r] = 0
      <4>1. life[r] # "none"
        BY DEF ReplicaInv, Good, Placed
      <4>2. life'[r] # "none"
        BY <4>1, <1>9 DEF ReplicaInv, TypeOK
      <4> QED
        BY <4>2
    <3> QED
      BY <2>1, <3>1, <3>2, <1>4, <1>5 DEF Placed, Offset
  <2>4. Continued(r)'
    <3>1. pending /\ answer # 1 => refused'[r]
      BY <1>8 DEF ReplicaInv, TypeOK
    <3>2. pending /\ answer = 1 => async'[r]
      BY <1>9 DEF ReplicaInv, TypeOK
    <3>3. HasPending(at'[r], pos'[r], produced') = pending
      BY <2>1 DEF pending
    <3> QED
      BY <3>1, <3>2, <3>3 DEF Continued, HasPending, Used
  <2>5. Alone(r)' /\ Carries(r)' /\ Streams(r)'
    <3>1. CASE pending /\ answer = 1
      <4>1. ring' = rest \union {op} /\ async'[r] /\ op.fd = r
        BY <1>9, <1>11, <3>1 DEF ReplicaInv, TypeOK
      <4>2. \A o \in ring' : o.fd = r => o = op
        BY <4>1
      <4>3. Alone(r)'
        BY <4>1, <4>2 DEF Alone
      <4>4. op.buf = <<b, p>> /\ op.buf[2] + op.count = Used(b, produced) /\ op.buf[1] = b
            /\ op.ret = 0 /\ Used(b, produced) \in Int
        <5>1. Used(b, produced) - p \in 1..BlockCap /\ p \in Int
          BY <1>0, <1>5, <1>11, <3>1
        <5>2. Offset(b, 0) \in Int /\ Offset(b, p) = Offset(b, 0) + p
          BY <1>0, <1>1, <1>5, <5>1, OffsetFacts
        <5>3. Used(b, produced) \in 0..BlockCap
          BY SMTT(30), <1>0, <1>4, <1>5, <5>1, <5>2, UsedFacts
        <5> QED
          BY SMTT(30), <5>1, <5>3, <1>0, <1>11, <3>1
      <4>5. Carries(r)'
        <5>1. op.ret <= op.count
          BY <1>0, <1>11, <3>1, <4>4
        <5>2. Used(op.buf[1], produced') = op.buf[2] + op.count
          BY <4>4
        <5>3. op.buf[2] + op.count \in Int
          BY <4>4
        <5>4. \A o \in ring' : o.fd = r =>
                /\ o.buf = <<at'[r], pos'[r]>>
                /\ o.buf[2] + o.count <= Used(o.buf[1], produced')
                /\ o.ret <= o.count
                /\ o.st = "flight" => o.ret = 0
                /\ o.err # "none" => o.ret <= 0
          BY <4>2, <4>4, <5>1, <5>2, <5>3, <2>1
        <5> QED
          BY <5>4 DEF Carries, Used
      <4>6. Streams(r)'
        <5>1. \A o \in ring' : o.fd = r => Acked(o, at'[r]) = 0
          BY <4>2, <4>4 DEF Acked
        <5>2. Offset(at'[r], pos'[r]) \in Int
          BY <1>4, <1>5, <2>1
        <5> QED
          BY <5>1, <5>2, <2>2, <4>1, <1>12 DEF Streams, Acked, Offset
      <4> QED
        BY <4>3, <4>5, <4>6
    <3>2. CASE ~ (pending /\ answer = 1)
      <4>1. ring' = rest /\ ~ async'[r]
        BY <1>9, <3>2 DEF ReplicaInv, TypeOK
      <4>2. \A o \in ring' : o.fd # r
        BY <4>1
      <4> QED
        BY <4>1, <4>2, <2>2, <1>12 DEF Alone, Carries, Streams, Offset
    <3> QED
      BY <3>1, <3>2
  <2> QED
    BY <2>3, <2>4, <2>5 DEF Good
<1> QED
  BY <1>10, <1>13, <1>14, <1>15 DEF ReplicaInv


\* A step of one replica that moves nothing keeps the invariant if the replica is in
\* order after it.
LEMMA QuietKeeps ==
  ASSUME ReplicaInv, NEW r \in Replica, TypeOK', Good(r)',
         produced' = produced, backlog' = backlog, refs' = refs, at' = at,
         \A q \in Replica : q # r => Same(q)
  PROVE  ReplicaInv'
<1>1. HeadInv'
  BY DEF ReplicaInv, HeadInv, Offset
<1>2. RefcountsExact'
  BY DEF ReplicaInv, RefcountsExact
<1>3. ASSUME NEW q \in Replica, q # r PROVE Good(q)'
  <2>1. Same(q) /\ Good(q)
    BY <1>3 DEF ReplicaInv
  <2>2. SameList(q)
    BY <2>1 DEF SameList, Good, Placed
  <2> QED
    BY <2>1, <2>2, SameGood
<1> QED
  BY <1>1, <1>2, <1>3 DEF ReplicaInv

\* writeToClient() from the event loop, for a replica that is taken from the queue or
\* whose handler runs.
LEMMA WriteToClientKeeps ==
  ASSUME ReplicaInv, NEW r \in Replica, NEW caller, WriteToClient(r, caller),
         produced' = produced, from' = from, attached' = attached,
         queued' \in [Replica -> BOOLEAN],
         \A q \in Replica : q # r => queued'[q] = queued[q]
  PROVE  ReplicaInv'
<1>1. CASE async[r]
  <2>1. /\ handler' \in [Replica -> BOOLEAN]
        /\ \A q \in Replica : q # r => handler'[q] = handler[q]
        /\ UNCHANGED <<backlog, refs, placevars, async, life, ring, sock, wire, refused, errors>>
    BY <1>1 DEF ReplicaInv, TypeOK, WriteToClient, InFlight
  <2>2. TypeOK'
    BY <2>1 DEF ReplicaInv, TypeOK, placevars
  <2>3. Good(r)
    BY DEF ReplicaInv
  <2>4. Placed(r)' /\ Alone(r)' /\ Carries(r)' /\ Streams(r)' /\ Continued(r)'
    BY <2>1, <2>3, <1>1
    DEF placevars, Good, Placed, Alone, Carries, Streams, Continued, Offset, Acked, Used
  <2>5. \A q \in Replica : q # r => Same(q)
    BY <2>1 DEF placevars, Same
  <2> QED
    BY <2>1, <2>2, <2>4, <2>5, QuietKeeps DEF placevars, Good
<1>2. CASE ~ async[r] /\ at[r] = 0
  <2>1. UNCHANGED <<backlog, refs, placevars, async, handler, life, ring, sock, wire,
                    refused, errors>>
    BY <1>2 DEF WriteToClient, InFlight
  <2>2. TypeOK'
    BY <2>1 DEF ReplicaInv, TypeOK, placevars
  <2>3. Good(r)
    BY DEF ReplicaInv
  <2>4. Placed(r)' /\ Alone(r)' /\ Carries(r)' /\ Streams(r)' /\ Continued(r)'
    BY <2>1, <2>3, <1>2
    DEF placevars, Good, Placed, Alone, Carries, Streams, Continued, HasPending, Offset, Acked, Used
  <2>5. \A q \in Replica : q # r => Same(q)
    BY <2>1 DEF placevars, Same
  <2> QED
    BY <2>1, <2>2, <2>4, <2>5, QuietKeeps DEF placevars, Good
<1>3. CASE ~ async[r] /\ at[r] # 0
  <2> DEFINE u == Offset(at[r], pos[r])
  <2>1. WriteLoop(r, u, ring, caller)
    BY <1>3 DEF WriteToClient, InFlight
  <2>2. u <= produced /\ from[r] + Len(wire[r]) = u /\ \A op \in ring : op.fd # r
    BY <1>3 DEF ReplicaInv, Good, Placed, Alone, Streams
  <2>3. u \in Nat
    BY <2>2 DEF ReplicaInv, TypeOK
  <2>4. \A op : op \in ring <=> op \in ring /\ op.fd # r
    BY <2>2
  <2>5. u <= u
    BY <2>3
  <2> HIDE DEF u
  <2>6. Offset(at[r], pos[r]) = u
    BY DEF u
  <2> QED
    BY <1>3, <2>1, <2>2, <2>3, <2>4, <2>5, <2>6, WriteLoopKeeps
<1> QED
  BY <1>1, <1>2, <1>3

\* handleClientsWithPendingWrites() keeps the invariant.
LEMMA FlushKeeps ==
  ASSUME ReplicaInv, NEW r \in Replica, FlushPendingWrites(r)
  PROVE  ReplicaInv'
<1>1. /\ queued' = [queued EXCEPT ![r] = FALSE]
      /\ produced' = produced /\ from' = from /\ attached' = attached
  BY DEF FlushPendingWrites
<1>2. queued' \in [Replica -> BOOLEAN] /\ \A q \in Replica : q # r => queued'[q] = queued[q]
  BY <1>1 DEF ReplicaInv, TypeOK
<1>3. CASE life[r] = "online"
  <2>1. WriteToClient(r, "queue")
    BY <1>3 DEF FlushPendingWrites
  <2> QED
    BY <1>1, <1>2, <2>1, WriteToClientKeeps
<1>4. CASE life[r] # "online"
  <2>1. UNCHANGED <<backlog, refs, placevars, async, handler, life, ring, sock, wire,
                    refused, errors>>
    BY <1>4 DEF FlushPendingWrites
  <2>2. TypeOK'
    BY <2>1, <1>1, <1>2 DEF ReplicaInv, TypeOK, placevars
  <2>3. Good(r)
    BY DEF ReplicaInv
  <2>4. Placed(r)' /\ Alone(r)' /\ Carries(r)' /\ Streams(r)' /\ Continued(r)'
    BY <2>1, <2>3, <1>1, <1>4
    DEF placevars, Good, Placed, Alone, Carries, Streams, Continued, Offset, Acked, Used
  <2>5. \A q \in Replica : q # r => Same(q)
    BY <2>1, <1>1, <1>2 DEF placevars, Same
  <2> QED
    BY <1>1, <2>1, <2>2, <2>4, <2>5, QuietKeeps DEF placevars, Good
<1> QED
  BY <1>3, <1>4

\* So does sendReplyToClient(), when the socket has room again.
LEMMA EpollOutKeeps ==
  ASSUME ReplicaInv, NEW r \in Replica, EpollOut(r)
  PROVE  ReplicaInv'
<1>1. /\ WriteToClient(r, "handler")
      /\ produced' = produced /\ from' = from /\ attached' = attached /\ queued' = queued
  BY DEF EpollOut
<1>2. queued' \in [Replica -> BOOLEAN] /\ \A q \in Replica : q # r => queued'[q] = queued[q]
  BY <1>1 DEF ReplicaInv, TypeOK
<1> QED
  BY <1>1, <1>2, WriteToClientKeeps

\* freeClientAsync() only marks the replica; nothing the invariant reads changes.
LEMMA KillKeeps ==
  ASSUME ReplicaInv, NEW r \in Replica, KillReplica(r)
  PROVE  ReplicaInv'
<1>1. /\ life[r] = "online" /\ life' = [life EXCEPT ![r] = "closing"]
      /\ UNCHANGED <<produced, backlog, refs, at, pos, async, queued, handler, ring, sock,
                     wire, from, refused, errors, attached>>
  BY DEF KillReplica, blockvars, placevars, peervars, boundvars
<1>2. TypeOK'
  BY <1>1 DEF ReplicaInv, TypeOK
<1>3. Good(r) /\ life'[r] = "closing"
  BY <1>1 DEF ReplicaInv, TypeOK
<1>4. Placed(r)' /\ Alone(r)' /\ Carries(r)' /\ Streams(r)' /\ Continued(r)'
  BY <1>1, <1>3 DEF Good, Placed, Alone, Carries, Streams, Continued, Offset, Acked, Used
<1>5. \A q \in Replica : q # r => Same(q)
  BY <1>1 DEF Same
<1> QED
  BY <1>1, <1>2, <1>4, <1>5, QuietKeeps DEF Good

\* The peer takes bytes out of its socket, which the invariant does not read.
LEMMA PeerReadKeeps ==
  ASSUME ReplicaInv, NEW r \in Replica, PeerRead(r)
  PROVE  ReplicaInv'
<1>1. /\ sock[r] > 0 /\ sock' = [sock EXCEPT ![r] = @ - 1]
      /\ UNCHANGED <<produced, backlog, refs, at, pos, async, queued, handler, life, ring,
                     wire, from, refused, errors, attached>>
  BY DEF PeerRead, blockvars, placevars, linkvars, boundvars
<1>2. sock' \in [Replica -> 0..SockCap]
  BY <1>1, ReplicaAssumption DEF ReplicaInv, TypeOK
<1>3. TypeOK'
  BY <1>1, <1>2 DEF ReplicaInv, TypeOK
<1>4. Good(r)
  BY DEF ReplicaInv
<1>5. Placed(r)' /\ Alone(r)' /\ Carries(r)' /\ Streams(r)' /\ Continued(r)'
  BY <1>1, <1>4 DEF Good, Placed, Alone, Carries, Streams, Continued, Offset, Acked, Used
<1>6. \A q \in Replica : q # r => Same(q)
  BY <1>1 DEF Same
<1> QED
  BY <1>1, <1>3, <1>5, <1>6, QuietKeeps DEF Good


\* The library reports on the operation of a replica.
LEMMA ReportKeeps ==
  ASSUME ReplicaInv, NEW op \in ring, op.st = "flight", NEW n \in -1..BlockCap, n <= op.count,
         NEW e \in {"none", "EAGAIN", "EINTR", "EPIPE"}, e # "none" => n <= 0,
         ring' = (ring \ {op}) \union {Reported(op, n, e)},
         UNCHANGED <<produced, backlog, refs, at, pos, async, queued, handler, life, from,
                     refused>>,
         sock' \in [Replica -> 0..SockCap], wire' \in [Replica -> Seq(Nat)], errors' \in Nat,
         attached' \in Nat,
         \A q \in Replica : q # op.fd => wire'[q] = wire[q],
         Len(wire'[op.fd]) = Len(wire[op.fd]) + (IF n > 0 THEN n ELSE 0),
         \A i \in 1..Len(wire'[op.fd]) : wire'[op.fd][i] = from[op.fd] + i
  PROVE  ReplicaInv'
<1> DEFINE r == op.fd
           done == Reported(op, n, e)
<1>1. /\ op \in Op /\ r \in Replica /\ done \in Op /\ done.fd = r /\ done.buf = op.buf
      /\ done.count = op.count /\ done.st = "done" /\ done.ret = n /\ done.err = e
  <2>1. op \in Op
    BY DEF ReplicaInv, TypeOK
  <2>2. r \in Replica
    BY <2>1, OpFields
  <2>3. /\ done \in Op /\ done.fd = r /\ done.buf = op.buf
        /\ done.count = op.count /\ done.st = "done" /\ done.ret = n /\ done.err = e
    BY <2>1 DEF Reported, Op
  <2> QED
    BY <2>1, <2>2, <2>3
<1> HIDE DEF r, done
<1>2. Good(r)
  BY <1>1 DEF ReplicaInv
<1>3. op.fd = r /\ ring' = (ring \ {op}) \union {done}
  BY DEF r, done
<1>4. async[r] /\ \A o \in ring : o.fd = r => o = op
  BY <1>2, <1>3 DEF Good, Alone
<1>5. \A o \in ring' : o.fd = r => o = done
  BY <1>3, <1>4
<1>6. at[r] # 0 /\ done \in ring' /\ async'[r]
  BY <1>2, <1>3, <1>4 DEF Good, Placed
<1>7. TypeOK'
  BY <1>1, <1>3 DEF ReplicaInv, TypeOK
<1>8. Placed(r)' /\ Continued(r)'
  BY <1>2, <1>6 DEF Good, Placed, Continued, Offset
<1>9. Alone(r)'
  BY <1>1, <1>5, <1>6 DEF Alone
<1>10. Carries(r)'
  <2>1. /\ op.buf = <<at[r], pos[r]>> /\ op.buf[2] + op.count <= Used(op.buf[1], produced)
    BY <1>2, <1>3 DEF Good, Carries
  <2>2. /\ done.buf = <<at'[r], pos'[r]>>
        /\ done.buf[2] + done.count <= Used(done.buf[1], produced)
        /\ done.ret <= done.count
        /\ done.st = "flight" => done.ret = 0
        /\ done.err # "none" => done.ret <= 0
    BY <1>1, <2>1
  <2>3. \A o \in ring' : o.fd = r =>
          /\ o.buf = <<at'[r], pos'[r]>>
          /\ o.buf[2] + o.count <= Used(o.buf[1], produced)
          /\ o.ret <= o.count
          /\ o.st = "flight" => o.ret = 0
          /\ o.err # "none" => o.ret <= 0
    BY <1>5, <2>2
  <2> QED
    BY <2>3 DEF Carries, Used
<1>11. Streams(r)'
  <2>1. Acked(op, at[r]) = 0
    BY <1>2, <1>3 DEF Good, Carries, Acked
  <2>2. from[r] + Len(wire[r]) = Offset(at[r], pos[r]) + 0
    BY <1>2, <1>3, <1>6, <2>1 DEF Good, Streams
  <2>3. Len(wire'[r]) = Len(wire[r]) + (IF n > 0 THEN n ELSE 0)
        /\ \A i \in 1..Len(wire'[r]) : wire'[r][i] = from[r] + i
    BY DEF r
  <2>4. Len(wire[r]) \in Nat /\ from[r] \in Nat /\ n \in Int
    BY <1>1, ReplicaAssumption DEF ReplicaInv, TypeOK
  <2>5. Acked(done, at[r]) = IF n > 0 THEN n ELSE 0
    BY <1>1 DEF Acked
  <2>6. from[r] + Len(wire'[r]) = Offset(at[r], pos[r]) + Acked(done, at[r])
    <3> DEFINE o == Offset(at[r], pos[r])
               a == IF n > 0 THEN n ELSE 0
    <3>1. o + 0 = from[r] + Len(wire[r]) /\ a \in Int
      BY <2>2, <2>4
    <3>2. o \in Int
      <4>1. at[r] \in Int /\ pos[r] \in Int /\ BlockCap \in Int
        BY <1>1, <1>6, ReplicaAssumption DEF ReplicaInv, TypeOK, Block
      <4> QED
        BY <4>1 DEF Offset
    <3> HIDE DEF o, a
    <3>3. from[r] + (Len(wire[r]) + a) = o + a
      BY <3>1, <3>2, <2>4
    <3> QED
      BY <3>3, <2>3, <2>5 DEF o, a
  <2>7. \A o \in ring' : o.fd = r =>
          from[r] + Len(wire'[r]) = Offset(at[r], pos[r]) + Acked(o, at[r])
    BY <1>5, <2>6
  <2> QED
    BY <2>3, <2>7, <1>6 DEF Streams, Offset, Acked
<1>12. ASSUME NEW q \in Replica, q # r PROVE Same(q)
  <2>1. \A o : o.fd = q => (o \in ring' <=> o \in ring)
    BY <1>1, <1>3, <1>12
  <2>2. wire'[q] = wire[q]
    BY <1>3, <1>12
  <2> QED
    BY <2>1, <2>2 DEF Same
<1> QED
  BY <1>1, <1>7, <1>8, <1>9, <1>10, <1>11, <1>12, QuietKeeps DEF Good

\* A write that fails ends the operation and leaves a result that is no count of bytes.
LEMMA RingFailKeeps ==
  ASSUME ReplicaInv, NEW op \in ring, RingFail(op)
  PROVE  ReplicaInv'
<1>1. op \in Op /\ op.fd \in Replica /\ op.count \in 1..BlockCap
  BY OpFields DEF ReplicaInv, TypeOK
<1>2. BlockCap \in Nat \ {0}
  BY ReplicaAssumption
<1>3. PICK e \in {"EAGAIN", "EINTR", "EPIPE"} :
        /\ errors' = IF e = "EAGAIN" THEN errors ELSE errors + 1
        /\ ring' = (ring \ {op}) \union {Reported(op, -1, e)}
  BY DEF RingFail
<1>4. /\ op.st = "flight"
      /\ UNCHANGED <<produced, backlog, refs, at, pos, async, queued, handler, life, sock,
                     wire, from, refused, attached>>
  BY DEF RingFail, blockvars, placevars, linkvars, peervars
<1>5. -1 \in -1..BlockCap /\ -1 <= op.count /\ -1 <= 0 /\ e \in {"none", "EAGAIN", "EINTR", "EPIPE"}
  BY <1>1, <1>2, <1>3
<1>6. /\ sock' \in [Replica -> 0..SockCap] /\ wire' \in [Replica -> Seq(Nat)] /\ errors' \in Nat
      /\ attached' \in Nat
  BY <1>3, <1>4 DEF ReplicaInv, TypeOK
<1>7. Len(wire'[op.fd]) = Len(wire[op.fd]) + (IF -1 > 0 THEN -1 ELSE 0)
  <2>1. Len(wire[op.fd]) \in Nat
    BY <1>1 DEF ReplicaInv, TypeOK
  <2> QED
    BY <2>1, <1>4
<1>8. \A i \in 1..Len(wire'[op.fd]) : wire'[op.fd][i] = from[op.fd] + i
  BY <1>1, <1>4 DEF ReplicaInv, Good, Streams
<1>9. \A q \in Replica : q # op.fd => wire'[q] = wire[q]
  BY <1>4
<1> QED
  BY <1>3, <1>4, <1>5, <1>6, <1>7, <1>8, <1>9, ReportKeeps

\* A write that takes place sends bytes of the block the replica holds, from its position on.
LEMMA RingWriteKeeps ==
  ASSUME ReplicaInv, NEW op \in ring, RingWrite(op)
  PROVE  ReplicaInv'
<1> DEFINE r == op.fd
<1>1. /\ op \in Op /\ r \in Replica /\ op.count \in 1..BlockCap /\ op.buf[1] \in Block
      /\ op.buf[2] \in 0..BlockCap
  BY OpFields DEF ReplicaInv, TypeOK
<1>2. BlockCap \in Nat \ {0} /\ SockCap \in Nat
  BY ReplicaAssumption
<1>3. PICK n \in 1..Min({op.count, Room(r)}) :
        /\ wire' = [wire EXCEPT ![r] = @ \o Load(op.buf[1], Offset(op.buf[1], op.buf[2]), n)]
        /\ sock' = [sock EXCEPT ![r] = @ + n]
        /\ ring' = (ring \ {op}) \union {Reported(op, n, "none")}
  BY DEF RingWrite
<1>4. /\ op.st = "flight"
      /\ UNCHANGED <<produced, backlog, refs, at, pos, async, queued, handler, life,
                     from, refused, errors, attached>>
  BY DEF RingWrite, blockvars, placevars, linkvars, boundvars
<1>5. Good(r)
  BY <1>1 DEF ReplicaInv
<1>6. at[r] # 0 /\ op.buf = <<at[r], pos[r]>> /\ at[r] >= backlog /\ op.ret = 0
  BY <1>4, <1>5 DEF Good, Placed, Alone, Carries
<1>7. n \in 1..op.count /\ n \in Int /\ n >= 1 /\ sock[r] + n <= SockCap
  <2>1. sock[r] \in 0..SockCap /\ op.count \in Int
    BY <1>1, <1>2 DEF ReplicaInv, TypeOK
  <2>2. Room(r) \in Int /\ Room(r) = SockCap - sock[r]
    BY <2>1, <1>2 DEF Room
  <2> DEFINE k == Min({op.count, Room(r)})
  <2>3. k \in Int /\ k <= op.count /\ k <= Room(r)
    BY <2>1, <2>2, MinOfTwo
  <2>4. n \in 1..k
    BY <1>3
  <2> HIDE DEF k, r
  <2> QED
    BY <2>1, <2>2, <2>3, <2>4, <1>2
<1> DEFINE u == Offset(at[r], pos[r])
           l == Load(at[r], u, n)
<1>8. from[r] + Len(wire[r]) = u /\ u \in Nat
  <2>1. Acked(op, at[r]) = 0
    BY <1>6 DEF Acked
  <2>2. from[r] + Len(wire[r]) = u + 0
    BY <1>5, <1>6, <2>1 DEF Good, Streams
  <2>3. u \in Int
    <3>1. at[r] \in Int /\ pos[r] \in Int
      BY <1>1, <1>2, <1>6 DEF ReplicaInv, TypeOK, Block
    <3> QED
      BY <3>1, <1>2 DEF Offset
  <2>4. from[r] \in Nat /\ Len(wire[r]) \in Nat
    BY <1>1 DEF ReplicaInv, TypeOK
  <2> HIDE DEF u
  <2> QED
    BY <2>2, <2>3, <2>4
<1> HIDE DEF r
<1>9. wire'[r] = wire[r] \o l /\ \A q \in Replica : q # r => wire'[q] = wire[q]
  <2>1. op.buf[1] = at[r] /\ op.buf[2] = pos[r]
    BY <1>6
  <2>2. wire' = [wire EXCEPT ![r] = wire[r] \o l]
    BY <1>3, <2>1 DEF r
  <2>3. wire \in [Replica -> Seq(Nat)]
    BY DEF ReplicaInv, TypeOK
  <2> HIDE DEF l
  <2> QED
    BY <1>1, <2>2, <2>3
<1>10. l \in Seq(Nat) /\ Len(l) = n /\ \A i \in 1..n : l[i] = u + i
  <2>1. n \in Nat
    BY <1>7
  <2>2. u \in Nat /\ at[r] >= backlog
    BY <1>6, <1>8
  <2> HIDE DEF u
  <2> QED
    <3>1. l = [i \in 1..n |-> u + i]
      BY <2>2 DEF Load
    <3>2. \A i \in 1..n : u + i \in Nat
      BY <2>1, <2>2
    <3> HIDE DEF l
    <3> QED
      BY <3>1, <3>2, <2>1, LenProperties
<1>11. wire[r] \in Seq(Nat) /\ from[r] \in Nat /\ Len(wire[r]) \in Nat
  BY <1>1 DEF ReplicaInv, TypeOK
<1> HIDE DEF u, l
<1>12. \A i \in 1..Len(l) : l[i] = u + i
  BY <1>10
<1>13. wire[r] \o l \in Seq(Nat) /\ Len(wire[r] \o l) = Len(wire[r]) + Len(l)
  BY <1>8, <1>10, <1>11, <1>12, AppendFacts
<1>14. \A i \in 1..Len(wire[r] \o l) :
         (wire[r] \o l)[i] = IF i <= Len(wire[r]) THEN wire[r][i] ELSE u + (i - Len(wire[r]))
  BY <1>8, <1>10, <1>11, <1>12, AppendFacts
<1>15. Len(wire'[r]) = Len(wire[r]) + (IF n > 0 THEN n ELSE 0)
  <2>1. Len(wire'[r]) = Len(wire[r]) + n
    BY <1>9, <1>10, <1>13
  <2>2. n > 0
    BY <1>7
  <2> QED
    BY <2>1, <2>2
<1>16. ASSUME NEW i \in 1..Len(wire'[r]) PROVE wire'[r][i] = from[r] + i
  <2>1. i \in Int /\ i \in 1..Len(wire[r] \o l)
    BY <1>7, <1>9, <1>11, <1>13
  <2>2. CASE i <= Len(wire[r])
    <3>1. i \in 1..Len(wire[r])
      BY <2>1, <2>2, <1>11
    <3> QED
      BY <3>1, <2>1, <2>2, <1>5, <1>9, <1>14 DEF Good, Streams
  <2>3. CASE ~ (i <= Len(wire[r]))
    BY <2>1, <2>3, <1>8, <1>9, <1>11, <1>14
  <2> QED
    BY <2>2, <2>3
<1>17. wire' \in [Replica -> Seq(Nat)]
  <2>1. wire \in [Replica -> Seq(Nat)]
    BY DEF ReplicaInv, TypeOK
  <2>2. \E s \in Seq(Nat) : wire' = [wire EXCEPT ![r] = s]
    <3>1. wire' = [wire EXCEPT ![r] = wire[r] \o l]
      BY <1>3, <1>6 DEF l, u, r
    <3> QED
      BY <3>1, <1>13
  <2> QED
    BY <2>1, <2>2
<1>18. sock' \in [Replica -> 0..SockCap]
  BY <1>1, <1>2, <1>3, <1>7 DEF ReplicaInv, TypeOK
<1>19. errors' \in Nat /\ attached' \in Nat
  BY <1>4 DEF ReplicaInv, TypeOK
<1>20. n \in -1..BlockCap /\ n <= op.count
  BY <1>1, <1>2, <1>7
<1> QED
  BY <1>3, <1>4, <1>9, <1>15, <1>16, <1>17, <1>18, <1>19, <1>20, ReportKeeps DEF r


\* After MoveKeeps: the replicas that did not move are in order.
LEMMA OthersGood ==
  ASSUME ReplicaInv, NEW q \in Replica, Same(q), produced' = produced,
         backlog # 0, backlog' # 0, at'[q] # 0 => at'[q] >= backlog'
  PROVE  Good(q)'
<1>1. SameList(q)
  BY DEF Same, SameList
<1> QED
  BY <1>1, SameGood DEF ReplicaInv

\* Freeing a replica gives back its reference, and the backlog's head may then be trimmed.
LEMMA FreeKeeps ==
  ASSUME ReplicaInv, NEW r \in Replica, FreeReplica(r)
  PROVE  ReplicaInv'
<1>1. /\ life' = [life EXCEPT ![r] = "none"] /\ at' = [at EXCEPT ![r] = 0]
      /\ pos' = [pos EXCEPT ![r] = 0] /\ async' = [async EXCEPT ![r] = FALSE]
      /\ queued' = [queued EXCEPT ![r] = FALSE] /\ handler' = [handler EXCEPT ![r] = FALSE]
      /\ ring' = {op \in ring : op.fd # r}
      /\ UNCHANGED <<produced, sock, wire, from, refused, errors, attached>>
  BY DEF FreeReplica, peervars, boundvars
<1>2. /\ backlog' \in Block \union {0} /\ refs' \in [Block -> Int]
      /\ at' \in [Replica -> Block \union {0}]
      /\ HeadInv' /\ RefcountsExact'
      /\ \A q \in Replica : at'[q] # 0 => at'[q] >= backlog'
      /\ (backlog' = 0) <=> (backlog = 0)
  <2>1. CASE at[r] = 0
    <3>1. backlog' = backlog /\ refs' = refs /\ at' = at
      BY <1>1, <2>1 DEF FreeReplica, ReplicaInv, TypeOK
    <3>2. HeadInv' /\ RefcountsExact'
      BY <1>1, <3>1 DEF ReplicaInv, HeadInv, RefcountsExact, Offset
    <3>3. \A q \in Replica : at'[q] # 0 => at'[q] >= backlog'
      BY <3>1 DEF ReplicaInv, Good, Placed
    <3> QED
      BY <3>1, <3>2, <3>3 DEF ReplicaInv, TypeOK
  <2>2. CASE at[r] # 0
    <3>1. Trim(backlog, MoveRef(refs, at[r], 0), produced)
      BY <2>2 DEF FreeReplica
    <3>2. backlog # 0 /\ produced' = produced
      BY <1>1, <2>2 DEF ReplicaInv, Good, Placed
    <3>3. /\ at' \in [Replica -> Block \union {0}] /\ backlog' \in Block
          /\ refs' \in [Block -> Int] /\ HeadInv' /\ RefcountsExact'
          /\ \A q \in Replica : at'[q] # 0 => at'[q] >= backlog'
      BY <1>1, <2>2, <3>1, <3>2, MoveKeeps
    <3> QED
      BY <3>2, <3>3 DEF Block
  <2> QED
    BY <2>1, <2>2
<1>3. TypeOK'
  <2>1. /\ pos' \in [Replica -> 0..BlockCap] /\ async' \in [Replica -> BOOLEAN]
        /\ queued' \in [Replica -> BOOLEAN] /\ handler' \in [Replica -> BOOLEAN]
        /\ life' \in [Replica -> {"none", "online", "closing"}] /\ ring' \subseteq Op
    BY <1>1, ReplicaAssumption DEF ReplicaInv, TypeOK
  <2> QED
    BY <1>1, <1>2, <2>1 DEF ReplicaInv, TypeOK
<1>4. at'[r] = 0 /\ life'[r] = "none" /\ ~ async'[r] /\ \A op \in ring' : op.fd # r
  BY <1>1 DEF ReplicaInv, TypeOK
<1>5. Good(r)'
  <2>1. \A i \in 1..Len(wire'[r]) : wire'[r][i] = from'[r] + i
    BY <1>1 DEF ReplicaInv, Good, Streams
  <2> QED
    BY <1>4, <2>1 DEF Good, Placed, Alone, Carries, Streams, Continued
<1>6. ASSUME NEW q \in Replica, q # r PROVE Good(q)'
  <2>1. Same(q)
    <3>1. /\ at'[q] = at[q] /\ pos'[q] = pos[q] /\ async'[q] = async[q] /\ life'[q] = life[q]
          /\ handler'[q] = handler[q] /\ queued'[q] = queued[q]
      BY <1>1, <1>6 DEF ReplicaInv, TypeOK
    <3>2. \A o : o.fd = q => (o \in ring' <=> o \in ring)
      BY <1>1, <1>6
    <3> QED
      BY <1>1, <3>1, <3>2 DEF Same
  <2>2. SameList(q)
    BY <1>1, <1>2, <2>1 DEF Same, SameList
  <2> QED
    BY <2>1, <2>2, SameGood DEF ReplicaInv
<1> QED
  BY <1>2, <1>3, <1>5, <1>6 DEF ReplicaInv

\* The block and position a replica gets that asks for the stream after k units.
LEMMA AttachPlace ==
  ASSUME NEW h \in Block, NEW n \in 0..MaxUnits, Offset(h, 0) < n, NEW k \in 0..n,
         k >= Offset(h, 0)
  PROVE  \E b \in Block, p \in 0..BlockCap :
           /\ Max({h, (k + BlockCap - 1) \div BlockCap}) = b /\ k - Offset(b, 0) = p
           /\ b >= h /\ Offset(b, p) = k /\ (p = 0 => k < n)
<1> DEFINE c == (k + BlockCap - 1) \div BlockCap
           b == Max({h, c})
           t == MaxUnits \div BlockCap
<1>1. /\ BlockCap \in Nat \ {0} /\ MaxUnits \in Nat /\ n \in Nat /\ n <= MaxUnits
      /\ k \in Nat /\ h \in Nat /\ h >= 1 /\ k + BlockCap - 1 \in Nat
  BY ReplicaAssumption DEF Block
<1>2. c \in Nat /\ c * BlockCap <= k + BlockCap - 1 /\ k + BlockCap - 1 < c * BlockCap + BlockCap
  BY <1>1, Quotient
<1>3. t \in Nat /\ t * BlockCap <= MaxUnits /\ MaxUnits < t * BlockCap + BlockCap
  BY <1>1, Quotient
<1> HIDE DEF c, t
<1>4. b = IF h >= c THEN h ELSE c
  BY <1>1, <1>2, MaxOfTwo
<1>5. c * BlockCap = Offset(c, 0) + BlockCap /\ Offset(c, 0) \in Int
  BY <1>2, OffsetFacts
<1>6. Offset(c, 0) < k /\ k <= Offset(c, 0) + BlockCap
  BY <1>1, <1>2, <1>5
<1>7. CASE h >= c
  <2>1. b = h
    BY <1>4, <1>7
  <2>2. Offset(h, 0) \in Int /\ \A p \in Int : Offset(h, p) = Offset(h, 0) + p
    BY <1>1, OffsetFacts
  <2>3. c < h => Offset(c, 0) + BlockCap <= Offset(h, 0)
    BY <1>1, <1>2, OffsetFacts
  <2>4. c = h \/ c < h
    BY <1>1, <1>2, <1>7
  <2>5. k - Offset(h, 0) \in 0..BlockCap
    BY <1>1, <1>5, <1>6, <2>2, <2>3, <2>4
  <2> DEFINE p == k - Offset(h, 0)
  <2>6. Offset(h, p) = k /\ (p = 0 => k < n)
    BY <1>1, <2>2
  <2> HIDE DEF b
  <2> QED
    BY <1>1, <2>1, <2>5, <2>6 DEF b, c
<1>8. CASE ~ (h >= c)
  <2>1. b = c /\ c > h
    BY <1>1, <1>2, <1>4, <1>8
  <2>2. \A p \in Int : Offset(c, p) = Offset(c, 0) + p
    BY <1>2, OffsetFacts
  <2>3. c <= t + 1
    <3> SUFFICES ASSUME t + 2 <= c PROVE FALSE
      BY <1>2, <1>3
    <3>1. (t + 2) * BlockCap <= c * BlockCap
      BY <1>1, <1>2, <1>3, ProductMonotonic
    <3>2. (t + 2) * BlockCap = t * BlockCap + BlockCap + BlockCap
      BY <1>1, <1>3
    <3> DEFINE x == t * BlockCap
               y == c * BlockCap
    <3>3. x \in Int /\ y \in Int
      BY <1>1, <1>2, <1>3
    <3>4. x + BlockCap + BlockCap <= y /\ y <= k + BlockCap - 1 /\ MaxUnits < x + BlockCap
      BY <3>1, <3>2, <1>2, <1>3
    <3> HIDE DEF x, y
    <3> QED
      BY <3>3, <3>4, <1>1
  <2>4. c \in Block
    BY <1>1, <1>2, <2>1, <2>3 DEF Block, t
  <2>5. k - Offset(c, 0) \in 0..BlockCap /\ k - Offset(c, 0) # 0
    BY <1>1, <1>5, <1>6
  <2> DEFINE p == k - Offset(c, 0)
  <2>6. Offset(c, p) = k
    BY <1>1, <1>5, <2>2
  <2> HIDE DEF b
  <2> QED
    BY <1>1, <1>2, <2>1, <2>4, <2>5, <2>6 DEF b, c
<1> QED
  BY <1>7, <1>8


\* A replica asks for the stream from a place the backlog still has, and holds the block there.
LEMMA AttachKeeps ==
  ASSUME ReplicaInv, NEW r \in Replica, NEW k \in 0..produced, Attach(r, k)
  PROVE  ReplicaInv'
<1>1. /\ life[r] = "none" /\ life' = [life EXCEPT ![r] = "online"]
      /\ from' = [from EXCEPT ![r] = k] /\ wire' = [wire EXCEPT ![r] = <<>>]
      /\ sock' = [sock EXCEPT ![r] = 0] /\ refused' = [refused EXCEPT ![r] = FALSE]
      /\ attached' = attached + 1
      /\ UNCHANGED <<produced, backlog, async, handler, ring, errors>>
  BY DEF Attach
<1>2. /\ produced \in 0..MaxUnits /\ MaxUnits \in Nat /\ k \in 0..MaxUnits /\ k \in Nat
  BY ReplicaAssumption DEF ReplicaInv, TypeOK
<1>3. at[r] = 0 /\ ~ async[r] /\ \A op \in ring : op.fd # r
  BY <1>1 DEF ReplicaInv, Good, Placed, Alone
<1>4. /\ wire'[r] = <<>> /\ from'[r] = k /\ life'[r] = "online" /\ ~ async'[r]
      /\ \A op \in ring' : op.fd # r
  BY <1>1, <1>3 DEF ReplicaInv, TypeOK
<1>5. /\ life' \in [Replica -> {"none", "online", "closing"}]
      /\ from' \in [Replica -> 0..MaxUnits] /\ wire' \in [Replica -> Seq(Nat)]
      /\ sock' \in [Replica -> 0..SockCap] /\ refused' \in [Replica -> BOOLEAN]
      /\ attached' \in Nat
  BY <1>1, <1>2, ReplicaAssumption DEF ReplicaInv, TypeOK
<1>6. ASSUME NEW q \in Replica, q # r
      PROVE  /\ life'[q] = life[q] /\ from'[q] = from[q] /\ wire'[q] = wire[q]
             /\ refused'[q] = refused[q] /\ async'[q] = async[q] /\ handler'[q] = handler[q]
             /\ \A o : o.fd = q => (o \in ring' <=> o \in ring)
  BY <1>1, <1>6
<1>7. CASE backlog = 0
  <2>1. k = 0 /\ UNCHANGED <<at, pos, refs, queued>>
    BY <1>7 DEF Attach, placevars
  <2>2. TypeOK'
    BY <1>1, <1>5, <2>1 DEF ReplicaInv, TypeOK
  <2>3. Good(r)'
    <3>1. at'[r] = 0 /\ backlog' = 0 /\ from'[r] = 0
      BY <1>1, <1>3, <1>4, <1>7, <2>1
    <3> QED
      BY <1>4, <3>1 DEF Good, Placed, Alone, Carries, Streams, Continued, HasPending
  <2>4. \A q \in Replica : q # r => Same(q)
    BY <1>6, <2>1 DEF Same
  <2> QED
    BY <1>1, <2>1, <2>2, <2>3, <2>4, QuietKeeps
<1>8. CASE backlog # 0
  <2>1. backlog \in Block /\ Offset(backlog, 0) < produced /\ k >= Offset(backlog, 0)
    BY <1>8 DEF Attach, ReplicaInv, TypeOK, HeadInv
  <2>2. PICK b \in Block, p \in 0..BlockCap :
          /\ Max({backlog, (k + BlockCap - 1) \div BlockCap}) = b /\ k - Offset(b, 0) = p
          /\ b >= backlog /\ Offset(b, p) = k /\ (p = 0 => k < produced)
    BY ZenonT(40), <1>2, <2>1, AttachPlace
  <2>3. /\ at' = [at EXCEPT ![r] = b] /\ pos' = [pos EXCEPT ![r] = p]
        /\ refs' = [refs EXCEPT ![b] = @ + 1] /\ queued' = [queued EXCEPT ![r] = TRUE]
    BY <1>8, <2>2 DEF Attach
  <2>4. /\ at' \in [Replica -> Block \union {0}] /\ pos' \in [Replica -> 0..BlockCap]
        /\ refs' \in [Block -> Int] /\ queued' \in [Replica -> BOOLEAN]
    BY <2>2, <2>3 DEF ReplicaInv, TypeOK
  <2>5. TypeOK'
    BY <1>1, <1>5, <2>4 DEF ReplicaInv, TypeOK
  <2>6. HeadInv'
    BY <1>1 DEF ReplicaInv, HeadInv, Offset
  <2>7. RefcountsExact'
    <3> SUFFICES ASSUME NEW c \in Block
                 PROVE  refs'[c] = Cardinality(Holders(at', c)) + (IF backlog = c THEN 1 ELSE 0)
      BY <1>1 DEF RefcountsExact, Holders
    <3>1. at \in [Replica -> Block \union {0}]
          /\ \A q \in Replica : at'[q] = IF q = r THEN b ELSE at[q]
      BY <2>3 DEF ReplicaInv, TypeOK
    <3>2. Cardinality(Holders(at', c)) =
            Cardinality(Holders(at, c)) - (IF c = at[r] THEN 1 ELSE 0)
                                        + (IF c = b THEN 1 ELSE 0)
      <4>1. PICK f : f = at'
        OBVIOUS
      <4>2. \A q \in Replica : f[q] = IF q = r THEN b ELSE at[q]
        BY <3>1, <4>1
      <4>3. Cardinality(Holders(f, c)) =
              Cardinality(Holders(at, c)) - (IF c = at[r] THEN 1 ELSE 0)
                                          + (IF c = b THEN 1 ELSE 0)
        BY <3>1, <4>2, <2>2, HoldersMove
      <4> QED
        BY <4>1, <4>3
    <3>3. c # at[r]
      BY <1>3 DEF Block
    <3>4. Cardinality(Holders(at, c)) \in Nat
      BY ReplicasFinite DEF Holders
    <3>5. refs[c] = Cardinality(Holders(at, c)) + (IF backlog = c THEN 1 ELSE 0)
      BY DEF ReplicaInv, RefcountsExact, Holders
    <3>6. refs'[c] = refs[c] + (IF c = b THEN 1 ELSE 0)
      BY <2>3, <3>4, <3>5 DEF ReplicaInv, TypeOK
    <3> QED
      BY <3>2, <3>3, <3>4, <3>5, <3>6
  <2>8. Good(r)'
    <3>1. /\ at'[r] = b /\ pos'[r] = p /\ queued'[r] /\ b # 0 /\ backlog' = backlog
          /\ produced' = produced
      BY <1>1, <2>2, <2>3 DEF ReplicaInv, TypeOK, Block
    <3>2. Offset(at'[r], pos'[r]) = k
      BY <3>1, <2>2
    <3>3. from'[r] + Len(wire'[r]) = Offset(at'[r], pos'[r])
      BY <1>2, <1>4, <3>2
    <3>4. Placed(r)'
      <4>1. k <= produced
        BY <1>2
      <4> QED
        BY <1>4, <1>8, <2>2, <3>1, <3>2, <3>3, <4>1 DEF Placed, Offset
    <3>5. Streams(r)'
      BY <1>4, <3>3 DEF Streams, Offset
    <3> QED
      BY <1>4, <3>1, <3>4, <3>5 DEF Good, Alone, Carries, Continued
  <2>9. ASSUME NEW q \in Replica, q # r PROVE Good(q)'
    <3>1. at'[q] = at[q] /\ pos'[q] = pos[q] /\ queued'[q] = queued[q]
      BY <2>3, <2>9 DEF ReplicaInv, TypeOK
    <3>2. Same(q)
      BY <1>6, <2>9, <3>1 DEF Same
    <3>3. at[q] # 0 => at[q] >= backlog
      BY DEF ReplicaInv, Good, Placed
    <3>4. SameList(q)
      BY <1>1, <3>3 DEF SameList
    <3> QED
      BY <3>2, <3>4, SameGood DEF ReplicaInv
  <2> QED
    BY <2>5, <2>6, <2>7, <2>8, <2>9 DEF ReplicaInv
<1> QED
  BY <1>7, <1>8


\* Feeding the stream: who joins, where, and the counts before trimming.
LEMMA FeedPlace ==
  ASSUME ReplicaInv, NEW n \in 1..MaxUnits, Feed(n)
  PROVE  \E h \in Block, rc \in [Block -> Int] :
           /\ Trim(h, rc, produced + n)
           /\ at' \in [Replica -> Block \union {0}] /\ pos' \in [Replica -> 0..BlockCap]
           /\ Offset(h, 0) < produced + n
           /\ \A b \in Block :
                rc[b] = Cardinality(Holders(at', b)) + (IF b = h THEN 1 ELSE 0)
           /\ \A q \in Replica :
                \/ at'[q] = at[q] /\ pos'[q] = pos[q] /\ (at[q] = 0 => life[q] = "none")
                     /\ (at[q] # 0 => at[q] >= h)
                \/ /\ at[q] = 0 /\ life[q] # "none" /\ from[q] = 0 /\ wire[q] = <<>>
                   /\ at'[q] = h /\ pos'[q] = 0 /\ Offset(h, 0) = 0
<1> DEFINE start == produced \div BlockCap + 1
           joins == {r \in Replica : life[r] # "none" /\ at[r] = 0}
           rc == [refs EXCEPT ![start] = @ + Cardinality(joins)
                                           + (IF backlog = 0 THEN 1 ELSE 0)]
           h == IF backlog = 0 THEN start ELSE backlog
<1>1. /\ Trim(h, rc, produced + n)
      /\ at' = [r \in Replica |-> IF r \in joins THEN start ELSE at[r]]
      /\ pos' = [r \in Replica |-> IF r \in joins THEN produced % BlockCap ELSE pos[r]]
  BY DEF Feed
<1>2. /\ produced \in Nat /\ produced <= MaxUnits /\ BlockCap \in Nat \ {0}
      /\ refs \in [Block -> Int] /\ at \in [Replica -> Block \union {0}]
      /\ pos \in [Replica -> 0..BlockCap] /\ n \in Nat /\ n >= 1 /\ MaxUnits \in Nat
  BY ReplicaAssumption DEF ReplicaInv, TypeOK
<1>3. IsFiniteSet(joins) /\ Cardinality(joins) \in Nat
  BY ReplicasFinite
<1>4. start \in Block
  BY <1>2, BlockOf
<1>5. ASSUME NEW b \in Block
      PROVE  /\ rc[b] = refs[b] + (IF b = start
                                   THEN Cardinality(joins) + (IF backlog = 0 THEN 1 ELSE 0)
                                   ELSE 0)
             /\ rc[b] \in Int
             /\ refs[b] = Cardinality(Holders(at, b)) + (IF backlog = b THEN 1 ELSE 0)
             /\ Cardinality(Holders(at, b)) \in Nat
  <2>1. Cardinality(Holders(at, b)) \in Nat
    BY ReplicasFinite DEF Holders
  <2>2. refs[b] = Cardinality(Holders(at, b)) + (IF backlog = b THEN 1 ELSE 0)
    BY DEF ReplicaInv, RefcountsExact, Holders
  <2> HIDE DEF joins, start
  <2>3. CASE b = start
    BY <2>1, <2>2, <2>3, <1>2, <1>3
  <2>4. CASE b # start
    BY <2>1, <2>2, <2>4, <1>2
  <2> QED
    BY <2>3, <2>4
<1>6. rc \in [Block -> Int]
  <2>1. rc = [b \in Block |-> rc[b]]
    BY <1>2
  <2> HIDE DEF rc
  <2> QED
    BY <2>1, <1>5
<1>7. CASE backlog = 0
  <2>1. produced = 0 /\ \A q \in Replica : at[q] = 0
    BY <1>7 DEF ReplicaInv, HeadInv, Good, Placed
  <2>2. start = 1 /\ h = 1 /\ produced % BlockCap = 0
    <3>1. 0 \div BlockCap = 0
      BY <1>2, QuotientUnique
    <3>2. 0 % BlockCap = 0
      BY <1>2, <3>1, Quotient
    <3> QED
      BY <1>7, <2>1, <3>1, <3>2
  <2>3. Offset(1, 0) = 0 /\ 1 \in Block
    BY <1>2, <1>4, <2>2 DEF Offset
  <2>4. \A q \in Replica :
          /\ q \in joins <=> life[q] # "none"
          /\ at'[q] = IF q \in joins THEN 1 ELSE 0
          /\ pos'[q] = IF q \in joins THEN 0 ELSE pos[q]
    BY <1>1, <2>1, <2>2
  <2>5. at' \in [Replica -> Block \union {0}] /\ pos' \in [Replica -> 0..BlockCap]
    <3>1. 0 \in 0..BlockCap
      BY <1>2
    <3> QED
      BY <1>1, <1>2, <1>4, <2>2, <3>1
  <2>6. ASSUME NEW b \in Block
        PROVE  rc[b] = Cardinality(Holders(at', b)) + (IF b = 1 THEN 1 ELSE 0)
    <3>1. Holders(at, b) = {} /\ backlog # b
      BY <1>7, <2>1 DEF Holders, Block
    <3>2. Cardinality(Holders(at, b)) = 0
      BY <3>1, FS_EmptySet
    <3>3. refs[b] = 0
      <4>1. refs[b] = Cardinality(Holders(at, b)) + (IF backlog = b THEN 1 ELSE 0)
        BY <1>5
      <4> QED
        BY <3>1, <3>2, <4>1
    <3>4. CASE b = 1
      <4>1. Holders(at', b) = joins
        BY <2>4, <3>4 DEF Holders
      <4>2. rc[b] = refs[b] + (Cardinality(joins) + 1)
        BY <1>5, <1>7, <2>2, <3>4
      <4> HIDE DEF joins
      <4> QED
        BY <1>3, <3>3, <3>4, <4>1, <4>2
    <3>5. CASE b # 1
      <4>1. Holders(at', b) = {}
        BY <2>4, <3>5 DEF Holders, Block
      <4>2. Cardinality(Holders(at', b)) = 0
        BY <4>1, FS_EmptySet
      <4>3. rc[b] = refs[b] + 0
        BY <1>5, <2>2, <3>5
      <4> QED
        BY <3>3, <3>5, <4>2, <4>3
    <3> QED
      BY <3>4, <3>5
  <2>7. ASSUME NEW q \in Replica
        PROVE  \/ at'[q] = at[q] /\ pos'[q] = pos[q] /\ (at[q] = 0 => life[q] = "none")
                     /\ (at[q] # 0 => at[q] >= 1)
               \/ /\ at[q] = 0 /\ life[q] # "none" /\ from[q] = 0 /\ wire[q] = <<>>
                  /\ at'[q] = 1 /\ pos'[q] = 0 /\ Offset(1, 0) = 0
    BY <2>1, <2>3, <2>4 DEF ReplicaInv, Good, Placed
  <2>8. Trim(1, rc, produced + n)
    BY <1>1, <2>2
  <2>9. Offset(1, 0) < produced + n
    BY <1>2, <2>1, <2>3
  <2> HIDE DEF rc, h, start, joins
  <2> QED
    BY <1>6, <2>3, <2>5, <2>6, <2>7, <2>8, <2>9
<1>8. CASE backlog # 0
  <2>1. joins = {}
    BY <1>8 DEF ReplicaInv, Good, Placed
  <2>2. at' = at /\ pos' = pos
    BY <1>1, <1>2, <2>1
  <2>3. Cardinality(joins) = 0
    BY <2>1, FS_EmptySet
  <2>4. backlog \in Block /\ Offset(backlog, 0) < produced + n
    <3>1. backlog \in Block /\ Offset(backlog, 0) < produced
      BY <1>8 DEF ReplicaInv, TypeOK, HeadInv
    <3>2. Offset(backlog, 0) \in Int
      BY <3>1, OffsetFacts DEF Block
    <3> QED
      BY <1>2, <3>1, <3>2
  <2>5. ASSUME NEW b \in Block
        PROVE  rc[b] = Cardinality(Holders(at', b)) + (IF b = backlog THEN 1 ELSE 0)
    <3>1. Holders(at', b) = Holders(at, b)
      BY <2>2
    <3>2. rc[b] = refs[b] + 0
      BY <1>5, <1>8, <2>3
    <3>3. refs[b] = Cardinality(Holders(at, b)) + (IF backlog = b THEN 1 ELSE 0)
          /\ Cardinality(Holders(at, b)) \in Nat
      BY <1>5
    <3> HIDE DEF rc
    <3> QED
      BY <3>1, <3>2, <3>3
  <2>6. ASSUME NEW q \in Replica
        PROVE  /\ at'[q] = at[q] /\ pos'[q] = pos[q] /\ (at[q] = 0 => life[q] = "none")
               /\ (at[q] # 0 => at[q] >= backlog)
    BY <2>2, <1>8 DEF ReplicaInv, Good, Placed
  <2>7. Trim(backlog, rc, produced + n)
    BY <1>1, <1>8
  <2>8. at' \in [Replica -> Block \union {0}] /\ pos' \in [Replica -> 0..BlockCap]
    BY <1>2, <2>2
  <2> HIDE DEF rc, h, start, joins
  <2> QED
    BY <1>6, <2>4, <2>5, <2>6, <2>7, <2>8
<1> QED
  BY <1>7, <1>8

\* Appending to the backlog, in a block that exists or in a new one, and trimming its head.
LEMMA FeedKeeps ==
  ASSUME ReplicaInv, NEW n \in 1..MaxUnits, Feed(n)
  PROVE  ReplicaInv'
<1>1. PICK h \in Block, rc \in [Block -> Int] :
        /\ Trim(h, rc, produced + n)
        /\ at' \in [Replica -> Block \union {0}] /\ pos' \in [Replica -> 0..BlockCap]
        /\ Offset(h, 0) < produced + n
        /\ \A b \in Block :
             rc[b] = Cardinality(Holders(at', b)) + (IF b = h THEN 1 ELSE 0)
        /\ \A q \in Replica :
             \/ at'[q] = at[q] /\ pos'[q] = pos[q] /\ (at[q] = 0 => life[q] = "none")
                  /\ (at[q] # 0 => at[q] >= h)
             \/ /\ at[q] = 0 /\ life[q] # "none" /\ from[q] = 0 /\ wire[q] = <<>>
                /\ at'[q] = h /\ pos'[q] = 0 /\ Offset(h, 0) = 0
  BY FeedPlace
<1>2. /\ produced' = produced + n /\ produced + n <= MaxUnits
      /\ queued' = [r \in Replica |->
           queued[r] \/ (life[r] = "online" /\ ~ HasPending(at[r], pos[r], produced))]
      /\ UNCHANGED <<async, handler, life, ring, sock, wire, from, refused, errors, attached>>
  BY DEF Feed, peervars, boundvars
<1>3. /\ produced \in Nat /\ n \in Nat /\ n >= 1 /\ produced + n \in 0..MaxUnits
      /\ MaxUnits \in Nat /\ BlockCap \in Nat \ {0}
  BY <1>2, ReplicaAssumption DEF ReplicaInv, TypeOK
<1>4. \A b \in Block : b \in Int /\ b >= 1
  BY DEF Block
<1>5. PICK place \in [Replica -> Block \union {0}] : place = at'
  BY <1>1
<1>6. \A q \in Replica : place[q] # 0 => place[q] >= h
  BY <1>1, <1>4, <1>5
<1>7. PICK m \in 0..MaxUnits : m = produced + n
  BY <1>3
<1>8. \A b \in Block : rc[b] = Cardinality(Holders(place, b)) + (IF b = h THEN 1 ELSE 0)
  BY <1>1, <1>5
<1>9. Offset(h, 0) < m /\ backlog' = Trimmed(h, rc, m) /\ refs' = MoveRef(rc, h, Trimmed(h, rc, m))
  BY <1>1, <1>7 DEF Trim
<1>10. /\ backlog' \in Block /\ Offset(backlog', 0) < m
       /\ \A q \in Replica : place[q] # 0 => place[q] >= backlog'
       /\ refs' \in [Block -> Int]
       /\ \A b \in Block :
            refs'[b] = Cardinality(Holders(place, b)) + (IF backlog' = b THEN 1 ELSE 0)
  BY <1>6, <1>8, <1>9, TrimKeeps
<1>11. backlog' # 0
  BY <1>4, <1>10
<1>12. HeadInv'
  BY <1>2, <1>7, <1>10, <1>11 DEF HeadInv, Offset
<1>13. RefcountsExact'
  <2>1. \A b \in Block : Holders(place, b) = {q \in Replica : at'[q] = b}
    BY <1>5 DEF Holders
  <2> QED
    BY <1>10, <2>1 DEF RefcountsExact
<1>14. TypeOK'
  <2>1. queued' \in [Replica -> BOOLEAN]
    BY <1>2 DEF ReplicaInv, TypeOK
  <2> QED
    BY <1>1, <1>2, <1>3, <1>10, <2>1 DEF ReplicaInv, TypeOK
<1>15. ASSUME NEW q \in Replica PROVE Good(q)'
  <2>1. Good(q)
    BY DEF ReplicaInv
  <2>2. Alone(q)'
    BY <1>2, <2>1 DEF Good, Alone
  <2>3. Continued(q)'
    <3>1. queued'[q] = (queued[q] \/ (life[q] = "online" /\ ~ HasPending(at[q], pos[q], produced)))
      BY <1>2
    <3> QED
      BY <1>2, <2>1, <3>1 DEF Good, Continued
  <2>4. CASE at'[q] = at[q] /\ pos'[q] = pos[q] /\ (at[q] = 0 => life[q] = "none")
             /\ (at[q] # 0 => at[q] >= h)
    <3>1. at[q] # 0 =>
            /\ at[q] \in Block /\ pos[q] \in 0..BlockCap /\ pos[q] \in Int /\ pos[q] >= 0
            /\ Offset(at[q], pos[q]) \in Int
            /\ Offset(at[q], 0) <= produced
      <4> SUFFICES ASSUME at[q] # 0
                   PROVE  /\ at[q] \in Block /\ pos[q] \in 0..BlockCap /\ pos[q] \in Int
                          /\ pos[q] >= 0 /\ Offset(at[q], pos[q]) \in Int
                          /\ Offset(at[q], 0) <= produced
        OBVIOUS
      <4>1. at[q] \in Block /\ pos[q] \in 0..BlockCap
        BY DEF ReplicaInv, TypeOK
      <4>2. at[q] \in Int /\ pos[q] \in Int /\ pos[q] >= 0
        BY <1>3, <1>4, <4>1
      <4>3. Offset(at[q], pos[q]) = Offset(at[q], 0) + pos[q] /\ Offset(at[q], 0) \in Int
        BY <4>2, OffsetFacts
      <4>4. Offset(at[q], pos[q]) <= produced
        BY <2>1 DEF Good, Placed
      <4> QED
        BY <4>1, <4>2, <4>3, <4>4, <1>3
    <3>2. Placed(q)'
      <4>1. at[q] # 0 => at'[q] >= backlog'
        BY <1>5, <1>10, <2>4
      <4>2. at[q] # 0 => /\ Offset(at[q], pos[q]) <= produced + n
                         /\ pos[q] = 0 => Offset(at[q], pos[q]) < produced + n
                         /\ ~ async[q] => from[q] + Len(wire[q]) = Offset(at[q], pos[q])
        BY <1>3, <2>1, <3>1 DEF Good, Placed, Streams
      <4> QED
        BY <1>2, <1>11, <2>1, <2>4, <4>1, <4>2 DEF Good, Placed, Offset
    <3>3. Streams(q)'
      BY <1>2, <2>1, <2>4 DEF Good, Streams, Offset, Acked
    <3>4. Carries(q)'
      <4> SUFFICES ASSUME NEW op \in ring, op.fd = q
                   PROVE  /\ op.buf = <<at[q], pos[q]>>
                          /\ op.buf[2] + op.count <= Used(op.buf[1], produced + n)
                          /\ op.ret <= op.count
                          /\ op.st = "flight" => op.ret = 0
                          /\ op.err # "none" => op.ret <= 0
        BY <1>2, <2>4 DEF Carries, Used
      <4>1. /\ op.buf = <<at[q], pos[q]>> /\ op.buf[1] = at[q]
            /\ op.buf[2] + op.count <= Used(op.buf[1], produced)
            /\ op.ret <= op.count /\ (op.st = "flight" => op.ret = 0)
            /\ (op.err # "none" => op.ret <= 0)
        BY <2>1 DEF Good, Carries
      <4>2. at[q] # 0
        BY <2>1 DEF Good, Placed, Alone
      <4>3. op.buf[2] \in Int /\ op.count \in Int
        <5>1. op \in Op
          BY DEF ReplicaInv, TypeOK
        <5>2. op.buf[2] \in 0..BlockCap /\ op.count \in 1..BlockCap
          BY <5>1, OpFields
        <5> QED
          BY <5>2, <1>3
      <4>4. Used(at[q], produced) <= Used(at[q], produced + n)
            /\ Used(at[q], produced) \in 0..BlockCap
        BY <1>3, <3>1, <4>2, UsedFacts
      <4>5. Used(at[q], produced + n) \in 0..BlockCap
        <5>1. Offset(at[q], 0) \in Int
          BY <1>4, <3>1, <4>2, OffsetFacts
        <5>2. Offset(at[q], 0) <= produced + n /\ produced + n \in Nat
          BY <1>3, <3>1, <4>2, <5>1
        <5> QED
          BY <3>1, <4>2, <5>2, UsedFacts
      <4>6. op.buf[2] + op.count <= Used(at[q], produced + n)
        BY <4>1, <4>3, <4>4, <4>5, <1>3
      <4> QED
        BY <4>1, <4>6
    <3> QED
      BY <2>2, <2>3, <3>2, <3>3, <3>4 DEF Good
  <2>5. CASE /\ at[q] = 0 /\ life[q] # "none" /\ from[q] = 0 /\ wire[q] = <<>>
             /\ at'[q] = h /\ pos'[q] = 0 /\ Offset(h, 0) = 0
    <3>1. ~ async[q] /\ \A op \in ring : op.fd # q
      BY <2>1, <2>5 DEF Good, Placed, Alone
    <3>2. at'[q] # 0 /\ at'[q] >= backlog'
      BY <1>4, <1>5, <1>10, <2>5
    <3>3. Placed(q)'
      BY <1>2, <1>3, <1>11, <2>5, <3>2 DEF Placed, Offset
    <3>4. Streams(q)'
      <4>1. from[q] + Len(wire[q]) = 0
        BY <2>5
      <4> QED
        BY <1>2, <2>5, <3>1, <4>1 DEF Streams, Offset
    <3>5. Carries(q)'
      BY <1>2, <3>1 DEF Carries
    <3> QED
      BY <2>2, <2>3, <3>3, <3>4, <3>5 DEF Good
  <2> QED
    BY <1>1, <2>4, <2>5
<1> QED
  BY <1>12, <1>13, <1>14, <1>15 DEF ReplicaInv


\* A completion: the position after what was written is inside the block that the
\* operation was submitted from, and it is what the socket has.
LEMMA AckedPlace ==
  ASSUME ReplicaInv, NEW op \in ring
  PROVE  LET r == op.fd
             u == Offset(at[r], pos[r]) + Acked(op, at[r]) IN
         /\ op \in Op /\ r \in Replica /\ async[r] /\ at[r] # 0 /\ at[r] \in Block
         /\ pos[r] \in 0..BlockCap
         /\ u \in Nat /\ Offset(at[r], pos[r]) \in Nat /\ Offset(at[r], pos[r]) <= u /\ u <= produced
         /\ from[r] + Len(wire[r]) = u
         /\ pos[r] = 0 => Offset(at[r], pos[r]) < produced
         /\ \A o \in ring : o.fd = r => o = op
         /\ op.err = "EPIPE" \/ ~ (op.ret > 0) => u = Offset(at[r], pos[r])
<1> DEFINE r == op.fd
<1>1. op \in Op
  BY DEF ReplicaInv, TypeOK
<1>2. /\ r \in Replica /\ op.buf[1] \in Block /\ op.buf[2] \in 0..BlockCap
      /\ op.count \in 1..BlockCap /\ op.ret \in -1..BlockCap
      /\ Acked(op, at[r]) = IF op.ret > 0 THEN op.ret ELSE 0
  BY <1>1, OpFields
<1>3. op.fd = r
  OBVIOUS
<1> HIDE DEF r
<1>4. Good(r)
  BY <1>2 DEF ReplicaInv
<1>5. async[r] /\ at[r] # 0 /\ \A o \in ring : o.fd = r => o = op
  BY <1>3, <1>4 DEF Good, Placed, Alone
<1>6. at[r] \in Block /\ pos[r] \in 0..BlockCap
  BY <1>2, <1>5 DEF ReplicaInv, TypeOK
<1>7. /\ op.buf[1] = at[r] /\ op.buf[2] = pos[r]
      /\ op.buf[2] + op.count <= Used(op.buf[1], produced) /\ op.ret <= op.count
      /\ (op.err = "EPIPE" => op.ret <= 0)
  BY <1>3, <1>4 DEF Good, Carries
<1>8. /\ Offset(at[r], pos[r]) <= produced
      /\ pos[r] = 0 => Offset(at[r], pos[r]) < produced
      /\ from[r] + Len(wire[r]) = Offset(at[r], pos[r]) + Acked(op, at[r])
  BY <1>3, <1>4, <1>5 DEF Good, Placed, Streams
<1>9. BlockCap \in Nat \ {0} /\ produced \in Nat
  BY ReplicaAssumption DEF ReplicaInv, TypeOK
<1>10. at[r] \in Int /\ at[r] >= 1 /\ pos[r] \in Int /\ pos[r] >= 0
  BY <1>6, <1>9 DEF Block
<1>11. /\ Offset(at[r], 0) \in Int /\ Offset(at[r], 0) >= 0
       /\ Offset(at[r], pos[r]) = Offset(at[r], 0) + pos[r]
  BY <1>10, OffsetFacts
<1>12. Offset(at[r], 0) <= produced
  BY <1>8, <1>9, <1>10, <1>11
<1>13. Used(at[r], produced) \in 0..BlockCap /\ Offset(at[r], 0) + Used(at[r], produced) <= produced
  BY <1>6, <1>9, <1>12, UsedFacts
<1> DEFINE a == Acked(op, at[r])
           o == Offset(at[r], 0)
           w == Used(at[r], produced)
           c == op.count
<1>14. a \in Int /\ 0 <= a /\ a <= c /\ c \in Int /\ pos[r] + c <= w /\ w \in Int /\ o + w <= produced
  BY <1>2, <1>7, <1>9, <1>13
<1>e. op.err = "EPIPE" \/ ~ (op.ret > 0) => a = 0
  <2>1. op.ret \in Int
    BY <1>2, <1>9
  <2> QED
    BY <2>1, <1>2, <1>7
<1>15. o \in Int /\ o >= 0 /\ Offset(at[r], pos[r]) = o + pos[r]
  BY <1>11
<1> HIDE DEF a, o, w, c
<1>16. /\ Offset(at[r], pos[r]) + a \in Nat /\ Offset(at[r], pos[r]) \in Nat
       /\ Offset(at[r], pos[r]) <= Offset(at[r], pos[r]) + a
       /\ Offset(at[r], pos[r]) + a <= produced
       /\ op.err = "EPIPE" \/ ~ (op.ret > 0) => Offset(at[r], pos[r]) + a = Offset(at[r], pos[r])
  BY <1>9, <1>10, <1>14, <1>15, <1>e
<1> QED
  BY <1>1, <1>2, <1>3, <1>5, <1>6, <1>8, <1>16 DEF a, r

\* The callback of a write: it moves the reference over what was written and may submit again.
LEMMA CompletionKeeps ==
  ASSUME ReplicaInv, NEW op \in ring, Completion(op)
  PROVE  ReplicaInv'
<1> DEFINE r0 == op.fd
           u0 == Offset(at[r0], pos[r0]) + Acked(op, at[r0])
<1>1. PICK r \in Replica, u \in Nat : r = r0 /\ u = u0
  BY AckedPlace
<1>2. /\ op \in Op /\ op.fd = r /\ async[r] /\ at[r] # 0 /\ at[r] \in Block
      /\ pos[r] \in 0..BlockCap /\ u = Offset(at[r], pos[r]) + Acked(op, at[r])
      /\ Offset(at[r], pos[r]) \in Nat /\ Offset(at[r], pos[r]) <= u /\ u <= produced
      /\ from[r] + Len(wire[r]) = u
      /\ pos[r] = 0 => Offset(at[r], pos[r]) < produced
      /\ \A o \in ring : o.fd = r => o = op
      /\ op.err = "EPIPE" \/ ~ (op.ret > 0) => u = Offset(at[r], pos[r])
  BY <1>1, AckedPlace
<1> DEFINE rest == ring \ {op}
<1>3. \A o : o \in rest <=> o \in ring /\ o.fd # r
  BY <1>2
<1>4. /\ produced \in 0..MaxUnits /\ produced \in Nat /\ backlog \in Block /\ backlog # 0
      /\ Good(r) /\ BlockCap \in Nat \ {0}
  BY <1>2, ReplicaAssumption DEF ReplicaInv, TypeOK, Good, Placed
<1>5. 0 < produced
  <2>1. Offset(backlog, 0) < produced /\ backlog \in Int /\ backlog >= 1
    BY <1>4 DEF ReplicaInv, HeadInv, Block
  <2>2. Offset(backlog, 0) \in Int /\ Offset(backlog, 0) >= 0
    BY <2>1, OffsetFacts
  <2> QED
    BY <1>4, <2>1, <2>2
<1>6. PICK b \in Block, p \in 0..BlockCap :
        /\ Standing(u, produced)[1] = b /\ Standing(u, produced)[2] = p
        /\ Offset(b, p) = u
        /\ p = 0 => u < produced
        /\ \A c \in Block, k \in 0..BlockCap :
             Offset(c, k) <= u /\ (k = 0 => Offset(c, k) < produced) => b >= c
  BY <1>2, <1>4, <1>5, StandingPlace
<1>7. b >= at[r]
  BY <1>2, <1>6
<1> DEFINE pending == HasPending(b, p, produced)
<1>8. pending <=> u < produced
  BY <1>2, <1>4, <1>6, PendingIff
<1>9. UNCHANGED <<produced, queued, from, attached>>
  BY DEF Completion
<1> DEFINE Broken == /\ op.err = "EPIPE"
                     /\ life' = [life EXCEPT ![r] = "closing"]
                     /\ async' = [async EXCEPT ![r] = FALSE]
                     /\ ring' = rest
                     /\ UNCHANGED <<backlog, refs, at, pos, handler, sock, wire, refused, errors>>
           Waits == /\ handler' = [handler EXCEPT ![r] = @ \/ pending]
                    /\ async' = [async EXCEPT ![r] = FALSE]
                    /\ ring' = rest
                    /\ UNCHANGED <<life, sock, wire, refused, errors>>
<1>10. \/ Broken
       \/ /\ op.ret > 0
          /\ Trim(backlog, MoveRef(refs, at[r], b), produced)
          /\ at' = [at EXCEPT ![r] = b]
          /\ pos' = [pos EXCEPT ![r] = p]
          /\ Waits
       \/ /\ ~ (op.ret > 0)
          /\ UNCHANGED <<backlog, refs, at, pos>>
          /\ Waits
       \/ WriteLoop(r, u, rest, "callback")
  BY <1>2, <1>6 DEF Completion, placevars, WaitsForSocket
<1> HIDE DEF rest, r0, u0, pending
<1>11. CASE Broken
  <2>1. TypeOK'
    BY <1>3, <1>9, <1>11 DEF ReplicaInv, TypeOK
  <2>2. /\ life'[r] = "closing" /\ ~ async'[r] /\ \A o \in ring' : o.fd # r
        /\ from[r] + Len(wire[r]) = Offset(at[r], pos[r])
    BY <1>2, <1>3, <1>11 DEF ReplicaInv, TypeOK
  <2>3. Streams(r)'
    BY <1>4, <1>9, <1>11, <2>2 DEF Good, Streams, Offset
  <2>4. Good(r)'
    <3>0. /\ at'[r] = at[r] /\ pos'[r] = pos[r] /\ backlog' = backlog /\ produced' = produced
          /\ at[r] # 0
      BY <1>2, <1>9, <1>11
    <3>1. Placed(r)'
      BY <1>4, <2>2, <3>0 DEF Good, Placed, Offset
    <3>2. Alone(r)' /\ Carries(r)' /\ Continued(r)'
      BY <2>2 DEF Alone, Carries, Continued
    <3> QED
      BY <2>3, <3>1, <3>2 DEF Good
  <2>5. \A q \in Replica : q # r => Same(q)
    BY <1>3, <1>9, <1>11 DEF Same
  <2> QED
    BY <1>9, <1>11, <2>1, <2>4, <2>5, QuietKeeps
<1>12. CASE /\ ~ (op.ret > 0)
            /\ UNCHANGED <<backlog, refs, at, pos>>
            /\ Waits
  <2>1. TypeOK'
    <3>1. handler' \in [Replica -> BOOLEAN]
      BY <1>12 DEF ReplicaInv, TypeOK
    <3> QED
      BY <1>3, <1>9, <1>12, <3>1 DEF ReplicaInv, TypeOK
  <2>2. /\ ~ async'[r] /\ \A o \in ring' : o.fd # r
        /\ from[r] + Len(wire[r]) = Offset(at[r], pos[r])
    BY <1>2, <1>3, <1>12 DEF ReplicaInv, TypeOK
  <2>3. Streams(r)'
    BY <1>4, <1>9, <1>12, <2>2 DEF Good, Streams, Offset
  <2>4. HasPending(at[r], pos[r], produced) <=> pending
    <3>1. HasPending(at[r], pos[r], produced) <=> Offset(at[r], pos[r]) < produced
      BY <1>2, <1>4, PendingIff
    <3> QED
      BY <3>1, <1>2, <1>8, <1>12
  <2>5. Continued(r)'
    <3>1. pending => handler'[r]
      BY <1>12 DEF ReplicaInv, TypeOK
    <3> QED
      BY <1>9, <1>12, <2>4, <3>1 DEF Continued, HasPending, Used
  <2>6. Good(r)'
    BY <1>4, <1>9, <1>12, <2>2, <2>3, <2>5 DEF Good, Placed, Alone, Carries, Offset
  <2>7. \A q \in Replica : q # r => Same(q)
    BY <1>3, <1>9, <1>12 DEF Same
  <2> QED
    BY <1>9, <1>12, <2>1, <2>6, <2>7, QuietKeeps
<1>13. CASE /\ op.ret > 0
            /\ Trim(backlog, MoveRef(refs, at[r], b), produced)
            /\ at' = [at EXCEPT ![r] = b]
            /\ pos' = [pos EXCEPT ![r] = p]
            /\ Waits
  <2>1. /\ at' \in [Replica -> Block \union {0}] /\ backlog' \in Block
        /\ refs' \in [Block -> Int] /\ HeadInv' /\ RefcountsExact'
        /\ \A q \in Replica : at'[q] # 0 => at'[q] >= backlog'
    BY <1>2, <1>7, <1>9, <1>13, MoveKeeps
  <2>2. TypeOK'
    <3>1. handler' \in [Replica -> BOOLEAN] /\ pos' \in [Replica -> 0..BlockCap]
      BY <1>13 DEF ReplicaInv, TypeOK
    <3> QED
      BY <1>3, <1>9, <1>13, <2>1, <3>1 DEF ReplicaInv, TypeOK
  <2>3. /\ at'[r] = b /\ pos'[r] = p /\ b # 0 /\ backlog' # 0 /\ ~ async'[r]
        /\ \A o \in ring' : o.fd # r
    BY <1>3, <1>13, <2>1 DEF ReplicaInv, TypeOK, Block
  <2>4. Offset(at'[r], pos'[r]) = u
    BY <1>6, <2>3
  <2>5. Streams(r)'
    BY <1>2, <1>4, <1>9, <1>13, <2>3, <2>4 DEF Good, Streams, Offset
  <2>6. Continued(r)'
    <3>1. pending => handler'[r]
      BY <1>13 DEF ReplicaInv, TypeOK
    <3> QED
      BY <1>9, <2>3, <3>1 DEF Continued, HasPending, Used, pending
  <2>7. Placed(r)'
    <3>1. life'[r] # "none"
      BY <1>2, <1>4, <1>13 DEF Good, Placed
    <3> QED
      BY <1>2, <1>6, <1>9, <2>1, <2>3, <2>4, <3>1 DEF Placed, Offset
  <2>8. Good(r)'
    BY <2>3, <2>5, <2>6, <2>7 DEF Good, Alone, Carries
  <2>9. ASSUME NEW q \in Replica, q # r PROVE Good(q)'
    <3>1. Same(q)
      <4>1. /\ at'[q] = at[q] /\ pos'[q] = pos[q] /\ async'[q] = async[q]
            /\ handler'[q] = handler[q]
        BY <1>13, <2>9 DEF ReplicaInv, TypeOK
      <4>2. \A o : o.fd = q => (o \in ring' <=> o \in ring)
        BY <1>3, <1>13, <2>9
      <4> QED
        BY <1>9, <1>13, <4>1, <4>2 DEF Same
    <3> QED
      BY <1>4, <1>9, <2>1, <2>3, <3>1, OthersGood
  <2> QED
    BY <2>1, <2>2, <2>8, <2>9 DEF ReplicaInv
<1>14. CASE WriteLoop(r, u, rest, "callback")
  <2>1. queued' \in [Replica -> BOOLEAN] /\ \A q \in Replica : q # r => queued'[q] = queued[q]
    BY <1>9 DEF ReplicaInv, TypeOK
  <2> QED
    BY <1>2, <1>3, <1>9, <1>14, <2>1, WriteLoopKeeps
<1> QED
  BY <1>10, <1>11, <1>12, <1>13, <1>14

-----------------------------------------------------------------------------
(* The theorems. *)

\* The invariant holds in the beginning: no blocks, no replicas.
LEMMA InitKeeps ==
  ASSUME Init
  PROVE  ReplicaInv
<1>1. TypeOK
  <2>1. /\ BlockCap \in Nat \ {0} /\ SockCap \in Nat /\ MaxUnits \in Nat
    BY ReplicaAssumption
  <2>2. 0 \in 0..MaxUnits /\ 0 \in 0..BlockCap /\ 0 \in 0..SockCap /\ <<>> \in Seq(Nat)
    BY <2>1
  <2> QED
    BY <2>2 DEF Init, TypeOK
<1>2. HeadInv
  BY DEF Init, HeadInv
<1>3. RefcountsExact
  <2> SUFFICES ASSUME NEW b \in Block
               PROVE  refs[b] = Cardinality({r \in Replica : at[r] = b})
                                  + (IF backlog = b THEN 1 ELSE 0)
    BY DEF RefcountsExact
  <2>1. {r \in Replica : at[r] = b} = {} /\ backlog # b
    BY DEF Init, Block
  <2>2. Cardinality({r \in Replica : at[r] = b}) = 0
    BY <2>1, FS_EmptySet
  <2> QED
    BY <2>1, <2>2 DEF Init
<1>4. ASSUME NEW r \in Replica PROVE Good(r)
  BY DEF Init, Good, Placed, Alone, Carries, Streams, Continued
<1> QED
  BY <1>1, <1>2, <1>3, <1>4 DEF ReplicaInv

\* It is a property of the variables.
LEMMA StutterKeeps ==
  ASSUME ReplicaInv, UNCHANGED vars
  PROVE  ReplicaInv'
<1>1. UNCHANGED <<produced, backlog, refs, at, pos, async, queued, handler, life, ring, sock,
                  wire, from, refused, errors, attached>>
  BY DEF vars, blockvars, placevars, linkvars, peervars, boundvars
<1>2. TypeOK' /\ HeadInv' /\ RefcountsExact'
  BY <1>1 DEF ReplicaInv, TypeOK, HeadInv, RefcountsExact, Offset
<1>3. ASSUME NEW q \in Replica PROVE Good(q)'
  <2>1. Same(q)
    BY <1>1 DEF Same
  <2>2. SameList(q)
    BY <1>1 DEF ReplicaInv, Good, Placed, SameList
  <2> QED
    BY <2>1, <2>2, SameGood DEF ReplicaInv
<1> QED
  BY <1>2, <1>3 DEF ReplicaInv

\* The invariant holds in every state of every behaviour.
THEOREM ReplicaInvariant == Spec => []ReplicaInv
<1>1. Init => ReplicaInv
  BY InitKeeps
<1>2. ReplicaInv /\ [Next]_vars => ReplicaInv'
  <2> SUFFICES ASSUME ReplicaInv, [Next]_vars PROVE ReplicaInv'
    OBVIOUS
  <2>1. CASE \E n \in 1..MaxUnits : Feed(n)
    BY <2>1, FeedKeeps
  <2>2. CASE \E r \in Replica, k \in 0..produced : Attach(r, k)
    BY <2>2, AttachKeeps
  <2>3. CASE \E r \in Replica : FlushPendingWrites(r)
    BY <2>3, FlushKeeps
  <2>4. CASE \E r \in Replica : EpollOut(r)
    BY <2>4, EpollOutKeeps
  <2>5. CASE \E op \in ring : Completion(op)
    BY <2>5, CompletionKeeps
  <2>6. CASE \E r \in Replica : KillReplica(r)
    BY <2>6, KillKeeps
  <2>7. CASE \E r \in Replica : FreeReplica(r)
    BY <2>7, FreeKeeps
  <2>8. CASE \E op \in ring : RingWrite(op)
    BY <2>8, RingWriteKeeps
  <2>9. CASE \E op \in ring : RingFail(op)
    BY <2>9, RingFailKeeps
  <2>10. CASE \E r \in Replica : PeerRead(r)
    BY <2>10, PeerReadKeeps
  <2>11. CASE UNCHANGED vars
    BY <2>11, StutterKeeps
  <2> QED
    BY <2>1, <2>2, <2>3, <2>4, <2>5, <2>6, <2>7, <2>8, <2>9, <2>10, <2>11 DEF Next
<1> QED
  BY <1>1, <1>2, PTL DEF Spec

\* Every block is counted once for each replica that stands in it and once for the
\* backlog: it is not released under one of them, nor kept for ever.
THEOREM RefcountsAlwaysExact == Spec => []RefcountsExact
<1>1. ReplicaInv => RefcountsExact
  BY DEF ReplicaInv
<1> QED
  BY <1>1, ReplicaInvariant, PTL

\* The ring never reads a released block, and a completion finds its replica where the
\* operation was submitted.
THEOREM InFlightAlwaysHeld == Spec => []InFlightBlockHeld
<1>1. ReplicaInv => InFlightBlockHeld
  <2> SUFFICES ASSUME ReplicaInv, NEW op \in ring
               PROVE  /\ op.buf = <<at[op.fd], pos[op.fd]>>
                      /\ op.buf[1] >= backlog
                      /\ op.buf[2] + op.count <= Used(op.buf[1], produced)
    BY DEF InFlightBlockHeld
  <2>1. op \in Op
    BY DEF ReplicaInv, TypeOK
  <2>2. Good(op.fd)
    BY <2>1, OpFields DEF ReplicaInv
  <2>3. op.buf = <<at[op.fd], pos[op.fd]>>
        /\ op.buf[2] + op.count <= Used(op.buf[1], produced)
    BY <2>2 DEF Good, Carries
  <2>4. at[op.fd] >= backlog
    BY <2>2 DEF Good, Placed, Alone
  <2> QED
    BY <2>3, <2>4
<1> QED
  BY <1>1, ReplicaInvariant, PTL

\* A replica has at most one operation in the ring, and CLIENT_ASYNC says whether.
THEOREM AlwaysOneInFlight == Spec => []OneInFlight
<1>1. ReplicaInv => OneInFlight
  <2> SUFFICES ASSUME ReplicaInv, NEW r \in Replica
               PROVE  Cardinality({op \in ring : op.fd = r}) = IF async[r] THEN 1 ELSE 0
    BY DEF OneInFlight
  <2> DEFINE S == {op \in ring : op.fd = r}
  <2>1. Alone(r)
    BY DEF ReplicaInv, Good
  <2>2. CASE async[r]
    <3>1. PICK op \in ring : op.fd = r
      BY <2>1, <2>2 DEF Alone
    <3>2. S = {op}
      BY <2>1, <3>1 DEF Alone
    <3> QED
      BY <2>2, <3>2, FS_Singleton
  <2>3. CASE ~ async[r]
    <3>1. S = {}
      BY <2>1, <2>3 DEF Alone
    <3> QED
      BY <2>3, <3>1, FS_EmptySet
  <2> QED
    BY <2>2, <2>3
<1> QED
  BY <1>1, ReplicaInvariant, PTL

\* What a replica receives is the stream from the offset it asked for.
THEOREM StreamAlwaysFromOffset == Spec => []StreamFromOffset
<1>1. ReplicaInv => StreamFromOffset
  BY DEF ReplicaInv, Good, Streams, StreamFromOffset
<1> QED
  BY <1>1, ReplicaInvariant, PTL

\* No replica with output is forgotten unless the ring refused.
THEOREM NeverOrphanedReplica == Spec => []NoOrphanedReplica
<1>1. ReplicaInv => NoOrphanedReplica
  BY DEF ReplicaInv, Good, Continued, NoOrphanedReplica
<1> QED
  BY <1>1, ReplicaInvariant, PTL

=============================================================================

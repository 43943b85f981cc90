-------------------------- MODULE AlgorithmsProofs --------------------------
(***************************************************************************)
(* The pure algorithms for every input: which texts checkIpv4() accepts,   *)
(* that generate_digits() gives the shortest digits and how many, that     *)
(* what emit_digits() writes is read back and how many characters it       *)
(* takes, and that the features apply_patch.sh resolves are in order.      *)
(***************************************************************************)
EXTENDS MCAlgorithms, SequenceTheorems, FiniteSetTheorems,
        WellFoundedInduction, TLAPS

-----------------------------------------------------------------------------
(* Numbers. *)

\* A set of numbers that is not empty has a least one.
LEMMA LeastNumber ==
  ASSUME NEW M \in SUBSET Nat, M # {}
  PROVE  \E x \in M : \A y \in M : x <= y
<1>1. IsWellFoundedOn(OpToRel(<, Nat), Nat)
  BY NatLessThanWellFounded
<1>2. PICK x \in M : \A y \in M : ~ (<<y, x>> \in OpToRel(<, Nat))
  BY <1>1, WFMin
<1>3. ASSUME NEW y \in M PROVE x <= y
  <2>1. x \in Nat /\ y \in Nat
    OBVIOUS
  <2>2. ~ (y < x)
    BY <1>2, <2>1 DEF OpToRel
  <2> QED
    BY <2>1, <2>2
<1> QED
  BY <1>3

\* A set of numbers with 0 and with the successor of each of its members is Nat.
LEMMA Successors ==
  ASSUME NEW M \in SUBSET Nat, 0 \in M, \A n \in M : n + 1 \in M
  PROVE  M = Nat
<1> SUFFICES ASSUME Nat \ M # {} PROVE FALSE
  OBVIOUS
<1>1. PICK x \in Nat \ M : \A y \in Nat \ M : x <= y
  BY LeastNumber
<1>2. x - 1 \in Nat /\ x - 1 < x
  BY <1>1
<1>3. x - 1 \in M
  BY <1>1, <1>2
<1> QED
  BY <1>1, <1>2, <1>3

-----------------------------------------------------------------------------
(* Folds: a recursion over sets of positions has a solution. *)

\* The greatest of the first k positions.
LEMMA LastPosition ==
  ASSUME NEW n \in Nat, NEW k \in 1..n
  PROVE  /\ 1..k \in SUBSET (1..n) /\ 1..k # {} /\ Max(1..k) = k
         /\ (1..k) \ {k} = 1..(k - 1)
<1>1. /\ 1..k \in SUBSET (1..n) /\ 1..k # {} /\ (1..k) \ {k} = 1..(k - 1)
      /\ k \in 1..k /\ \A y \in 1..k : k >= y
  OBVIOUS
<1>2. \A x \in 1..k : (\A y \in 1..k : x >= y) => x = k
  BY <1>1
<1>3. Max(1..k) = k
  BY <1>1, <1>2 DEF Max
<1> QED
  BY <1>1, <1>3

\* Values V, transitions T[i] for position i: f says what is reached on a set of positions.
Iterates(f, V, start, n, T) ==
  /\ f \in [SUBSET (1..n) -> V]
  /\ \A s \in SUBSET (1..n) :
       f[s] = IF s = {} THEN start ELSE T[Max(s)][f[s \ {Max(s)}]]

\* There is such an f, by induction over the positions.
LEMMA IterationExists ==
  ASSUME NEW V, NEW start \in V, NEW n \in Nat, NEW T \in [1..n -> [V -> V]]
  PROVE  \E f : Iterates(f, V, start, n, T)
<1> DEFINE M == {k \in Nat : k <= n => \E f : Iterates(f, V, start, k, T)}
<1>1. 0 \in M
  <2> DEFINE f == [s \in SUBSET (1..0) |-> start]
  <2>1. \A s \in SUBSET (1..0) : s = {}
    OBVIOUS
  <2>2. Iterates(f, V, start, 0, T)
    BY <2>1 DEF Iterates
  <2> QED
    BY <2>2
<1>2. ASSUME NEW k \in M PROVE k + 1 \in M
  <2> SUFFICES ASSUME k + 1 <= n PROVE \E f : Iterates(f, V, start, k + 1, T)
    OBVIOUS
  <2>1. PICK f : Iterates(f, V, start, k, T)
    OBVIOUS
  <2> DEFINE m == k + 1
             h == [s \in SUBSET (1..m) |-> IF m \in s THEN T[m][f[s \ {m}]] ELSE f[s]]
  <2>2. m \in 1..n /\ \A s \in SUBSET (1..m) : s \ {m} \in SUBSET (1..k)
    OBVIOUS
  <2>3. ASSUME NEW s \in SUBSET (1..m), m \notin s PROVE s \in SUBSET (1..k)
    BY <2>3
  <2>4. ASSUME NEW s \in SUBSET (1..m) PROVE h[s] \in V
    <3>1. CASE m \in s
      <4>1. f[s \ {m}] \in V
        BY <2>1, <2>2 DEF Iterates
      <4> QED
        BY <2>2, <3>1, <4>1
    <3>2. CASE m \notin s
      BY <2>1, <2>3, <3>2 DEF Iterates
    <3> QED
      BY <3>1, <3>2
  <2>5. ASSUME NEW s \in SUBSET (1..m)
        PROVE  h[s] = IF s = {} THEN start ELSE T[Max(s)][h[s \ {Max(s)}]]
    <3>1. CASE m \in s
      <4>1. Max(s) = m
        <5>1. \A y \in s : m >= y
          OBVIOUS
        <5>2. \A x \in s : (\A y \in s : x >= y) => x = m
          BY <3>1, <5>1
        <5> QED
          BY <3>1, <5>1, <5>2 DEF Max
      <4>2. s \ {m} \in SUBSET (1..m) /\ m \notin s \ {m}
        OBVIOUS
      <4>3. h[s \ {m}] = f[s \ {m}]
        BY <4>2
      <4> QED
        BY <3>1, <4>1, <4>3
    <3>2. CASE m \notin s
      <4>1. s \in SUBSET (1..k)
        BY <2>3, <3>2
      <4>2. h[s] = f[s] /\ f[s] = IF s = {} THEN start ELSE T[Max(s)][f[s \ {Max(s)}]]
        BY <2>1, <3>2, <4>1 DEF Iterates
      <4>3. s \ {Max(s)} \in SUBSET (1..m) /\ m \notin s \ {Max(s)}
        BY <3>2
      <4>4. h[s \ {Max(s)}] = f[s \ {Max(s)}]
        BY <4>3
      <4> QED
        BY <4>2, <4>4
    <3> QED
      BY <3>1, <3>2
  <2>6. h \in [SUBSET (1..m) -> V]
    BY <2>4
  <2> HIDE DEF h
  <2> QED
    BY <2>5, <2>6 DEF Iterates
<1>3. M \in SUBSET Nat /\ \A k \in M : k + 1 \in M
  BY <1>2
<1> HIDE DEF M
<1>4. n \in M
  BY <1>1, <1>3, Successors
<1> QED
  BY <1>4 DEF M

\* A set of positions that is not empty has a greatest.
LEMMA GreatestPosition ==
  ASSUME NEW n \in Nat, NEW s \in SUBSET (1..n), s # {}
  PROVE  Max(s) \in s /\ s \ {Max(s)} \in SUBSET (1..n)
<1> DEFINE M == {n - x : x \in s}
<1>1. M \in SUBSET Nat /\ M # {}
  <2>1. \A x \in s : n - x \in Nat
    OBVIOUS
  <2> QED
    BY <2>1
<1>2. PICK m \in M : \A y \in M : m <= y
  BY <1>1, LeastNumber
<1>3. PICK x \in s : m = n - x
  OBVIOUS
<1>4. ASSUME NEW y \in s PROVE x >= y
  <2>1. n - y \in M
    OBVIOUS
  <2>2. m <= n - y
    BY <1>2, <2>1
  <2>3. x \in Nat /\ y \in Nat
    OBVIOUS
  <2> QED
    BY <1>3, <2>2, <2>3
<1>5. Max(s) \in s
  BY <1>4 DEF Max
<1> QED
  BY <1>5

\* A recursion that follows T as long as it reaches values of V.
Follows(iter, V, start, n, T) ==
  /\ iter[{}] = start
  /\ \A s \in SUBSET (1..n) :
       s # {} /\ iter[s \ {Max(s)}] \in V => iter[s] = T[Max(s)][iter[s \ {Max(s)}]]

\* The values g[k] that it reaches on the first k positions, the last of them last.
Reaches(g, V, start, n, T, last) ==
  /\ g \in [0..n -> V] /\ g[0] = start /\ g[n] = last
  /\ \A k \in 1..n : g[k] = T[k][g[k - 1]]

LEMMA FoldSteps ==
  ASSUME NEW V, NEW start \in V, NEW n \in Nat, NEW T \in [1..n -> [V -> V]], NEW iter,
         Follows(iter, V, start, n, T)
  PROVE  \E g : Reaches(g, V, start, n, T, iter[1..n])
<1> DEFINE M == {k \in Nat : k <= n => iter[1..k] \in V}
           g == [k \in 0..n |-> iter[1..k]]
<1>1. 1..0 = {} /\ 0 \in 0..n /\ n \in 0..n
  OBVIOUS
<1>2. ASSUME NEW k \in 1..n, iter[1..(k - 1)] \in V
      PROVE  iter[1..k] = T[k][iter[1..(k - 1)]] /\ iter[1..k] \in V
  <2>1. /\ 1..k \in SUBSET (1..n) /\ 1..k # {} /\ Max(1..k) = k
        /\ (1..k) \ {k} = 1..(k - 1)
    BY LastPosition
  <2>2. iter[1..k] = T[k][iter[1..(k - 1)]]
    BY <1>2, <2>1 DEF Follows
  <2> QED
    BY <1>2, <2>2
<1>3. 0 \in M
  BY <1>1 DEF Follows
<1>4. ASSUME NEW k \in M PROVE k + 1 \in M
  <2> SUFFICES ASSUME k + 1 <= n PROVE iter[1..(k + 1)] \in V
    OBVIOUS
  <2>1. k + 1 \in 1..n /\ (k + 1) - 1 = k /\ k <= n
    OBVIOUS
  <2> QED
    BY <1>2, <2>1
<1>5. M \in SUBSET Nat /\ \A k \in M : k + 1 \in M
  BY <1>4
<1> HIDE DEF M
<1>6. \A k \in Nat : k \in M
  BY <1>3, <1>5, Successors
<1>7. \A k \in 0..n : g[k] = iter[1..k] /\ g[k] \in V
  BY <1>6 DEF M
<1>8. \A k \in 1..n : k \in 0..n /\ k - 1 \in 0..n
  OBVIOUS
<1>9. g \in [0..n -> V] /\ g[0] = start /\ g[n] = iter[1..n]
  BY <1>1, <1>7 DEF Follows
<1> HIDE DEF g
<1>10. \A k \in 1..n : g[k] = T[k][g[k - 1]]
  BY <1>2, <1>7, <1>8
<1>11. Reaches(g, V, start, n, T, iter[1..n])
  BY <1>9, <1>10 DEF Reaches
<1> QED
  BY <1>11

-----------------------------------------------------------------------------
(* The number that up to three digits stand for. *)

\* Number() reads the digits from the left.
LEMMA NumberSteps ==
  ASSUME NEW n \in Nat, NEW q \in [1..n -> Nat]
  PROVE  \E g : g[0] = 0 /\ Number(q) = g[n] /\ \A k \in 1..n : g[k] = g[k - 1] * 10 + q[k]
<1> DEFINE T == [i \in 1..n |-> [x \in Nat |-> x * 10 + q[i]]]
           Step(f, s) == IF s = {} THEN 0 ELSE f[s \ {Max(s)}] * 10 + q[Max(s)]
           Solves(f) == f = [s \in SUBSET (1..n) |-> Step(f, s)]
           iter == CHOOSE f : Solves(f)
           g == [k \in 0..n |-> iter[1..k]]
<1>1. Number(q) = iter[1..n]
  <2>1. DOMAIN q = 1..n
    OBVIOUS
  <2> QED
    BY <2>1 DEF Number, FoldLeft, MapThenFoldSet
<1>2. PICK f : Iterates(f, Nat, 0, n, T)
  <2>1. T \in [1..n -> [Nat -> Nat]]
    OBVIOUS
  <2> HIDE DEF T
  <2> QED
    BY <2>1, IterationExists
<1>3. Solves(f)
  <2>1. ASSUME NEW s \in SUBSET (1..n) PROVE f[s] = Step(f, s)
    <3>1. CASE s = {}
      BY <1>2, <3>1 DEF Iterates
    <3>2. CASE s # {}
      <4>1. Max(s) \in 1..n /\ s \ {Max(s)} \in SUBSET (1..n)
        BY <3>2, GreatestPosition
      <4>2. f[s \ {Max(s)}] \in Nat
        BY <1>2, <4>1 DEF Iterates
      <4>3. f[s] = T[Max(s)][f[s \ {Max(s)}]]
        BY <1>2, <3>2 DEF Iterates
      <4> QED
        BY <3>2, <4>1, <4>2, <4>3
    <3> QED
      BY <3>1, <3>2
  <2>2. f = [s \in SUBSET (1..n) |-> f[s]]
    BY <1>2 DEF Iterates
  <2> HIDE DEF Step
  <2> QED
    BY <2>1, <2>2
<1>4. Solves(iter)
  <2> HIDE DEF Solves
  <2> QED
    BY <1>3
<1> HIDE DEF iter
<1>5. ASSUME NEW k \in 1..n PROVE g[k] = g[k - 1] * 10 + q[k]
  <2>1. k \in 0..n /\ k - 1 \in 0..n
    OBVIOUS
  <2>2. /\ 1..k \in SUBSET (1..n) /\ 1..k # {} /\ Max(1..k) = k
        /\ (1..k) \ {k} = 1..(k - 1)
    BY LastPosition
  <2>3. iter[1..k] = Step(iter, 1..k)
    BY <1>4, <2>2
  <2>4. iter[1..k] = iter[1..(k - 1)] * 10 + q[k]
    BY <2>2, <2>3
  <2> QED
    BY <2>1, <2>4
<1>6. g[0] = 0 /\ g[n] = iter[1..n]
  <2>1. 1..0 = {} /\ {} \in SUBSET (1..n) /\ 0 \in 0..n /\ n \in 0..n
    OBVIOUS
  <2>2. iter[{}] = 0
    BY <1>4, <2>1
  <2> QED
    BY <2>1, <2>2
<1> QED
  BY <1>1, <1>5, <1>6

\* The number of one, two and three digits.
LEMMA NumberOf ==
  ASSUME NEW q \in Seq(0..9)
  PROVE  /\ Len(q) = 1 => Number(q) = q[1]
         /\ Len(q) = 2 => Number(q) = q[1] * 10 + q[2]
         /\ Len(q) = 3 => Number(q) = q[1] * 100 + q[2] * 10 + q[3]
<1> DEFINE n == Len(q)
<1>1. n \in Nat /\ q \in [1..n -> Nat] /\ \A i \in 1..n : q[i] \in 0..9
  BY LenProperties, ElementOfSeq
<1> HIDE DEF n
<1>2. PICK g : g[0] = 0 /\ Number(q) = g[n] /\ \A k \in 1..n : g[k] = g[k - 1] * 10 + q[k]
  BY <1>1, NumberSteps
<1>3. ASSUME n \in 1..3 PROVE g[1] = q[1] /\ q[1] \in 0..9
  <2>1. 1 \in 1..n /\ 1 - 1 = 0
    BY <1>1, <1>3
  <2>2. g[1] = g[1 - 1] * 10 + q[1]
    BY <1>2, <2>1
  <2> QED
    BY <1>1, <1>2, <2>1, <2>2
<1>4. ASSUME n \in 2..3 PROVE g[2] = q[1] * 10 + q[2] /\ q[2] \in 0..9
  <2>1. 2 \in 1..n /\ 2 - 1 = 1 /\ n \in 1..3
    BY <1>1, <1>4
  <2>2. g[2] = g[2 - 1] * 10 + q[2]
    BY <1>2, <2>1
  <2> QED
    BY <1>1, <1>3, <2>1, <2>2
<1>5. ASSUME n = 3 PROVE g[3] = q[1] * 100 + q[2] * 10 + q[3]
  <2>1. 3 \in 1..n /\ 3 - 1 = 2 /\ n \in 2..3 /\ n \in 1..3
    BY <1>1, <1>5
  <2>2. g[3] = g[3 - 1] * 10 + q[3] /\ q[3] \in 0..9
    BY <1>1, <1>2, <2>1
  <2>3. g[2] = q[1] * 10 + q[2] /\ q[1] \in 0..9 /\ q[2] \in 0..9
    BY <1>3, <1>4, <2>1
  <2>4. g[3] = (q[1] * 10 + q[2]) * 10 + q[3]
    BY <2>1, <2>2, <2>3
  <2>5. \A x, y, z \in 0..9 : (x * 10 + y) * 10 + z = x * 100 + y * 10 + z
    OBVIOUS
  <2> QED
    BY <2>2, <2>3, <2>4, <2>5, ZenonT(60)
<1>6. /\ n = 1 => Number(q) = q[1]
      /\ n = 2 => Number(q) = q[1] * 10 + q[2]
      /\ n = 3 => Number(q) = q[1] * 100 + q[2] * 10 + q[3]
  BY <1>1, <1>2, <1>3, <1>4, <1>5
<1> QED
  BY <1>6 DEF n

\* What checkIpv4() demands of a part says that it is an octet in decimal.
LEMMA PartIsOctet ==
  ASSUME NEW q \in Seq(0..9)
  PROVE  Part(q) <=> q \in Octets
<1> DEFINE n == Len(q)
           a == q[1]
           b == q[2]
           c == q[3]
<1>1. n \in Nat /\ \A i \in 1..n : q[i] \in 0..9
  BY LenProperties, ElementOfSeq
<1>2. CASE n = 1
  <2>1. q = <<a>> /\ a \in 0..9 /\ Number(q) = a
    BY <1>1, <1>2, NumberOf
  <2>2. Part(q)
    BY <1>2, <2>1 DEF Part
  <2>3. q \in Octets
    BY <2>1 DEF Octets
  <2> QED
    BY <2>2, <2>3
<1>3. CASE n = 2
  <2>1. q = <<a, b>> /\ a \in 0..9 /\ b \in 0..9 /\ Number(q) = a * 10 + b
    BY <1>1, <1>3, NumberOf
  <2>2. Part(q) <=> a # 0
    BY <1>3, <2>1, SMTT(30) DEF Part
  <2>3. a # 0 => q \in Octets
    BY <2>1 DEF Octets
  <2>4. q \in Octets => a \in 1..9
    BY <1>3, <2>1 DEF Octets
  <2> QED
    BY <2>2, <2>3, <2>4
<1>4. CASE n = 3
  <2>1. /\ q = <<a, b, c>> /\ a \in 0..9 /\ b \in 0..9 /\ c \in 0..9
        /\ Number(q) = a * 100 + b * 10 + c
    BY <1>1, <1>4, NumberOf
  <2>2. Part(q) <=> a # 0 /\ a * 100 + b * 10 + c <= 255
    BY <1>4, <2>1 DEF Part
  <2>3. q \in Octets <=> a = 1 \/ (a = 2 /\ b <= 4) \/ (a = 2 /\ b = 5 /\ c <= 5)
    <3> HIDE DEF a, b, c
    <3>1. ASSUME a = 1 PROVE q \in Octets
      BY <2>1, <3>1 DEF Octets
    <3>2. ASSUME a = 2, b <= 4 PROVE q \in Octets
      <4>1. b \in 0..4
        BY <2>1, <3>2
      <4> QED
        BY <2>1, <3>2, <4>1 DEF Octets
    <3>3. ASSUME a = 2, b = 5, c <= 5 PROVE q \in Octets
      <4>1. c \in 0..5
        BY <2>1, <3>3
      <4> QED
        BY <2>1, <3>3, <4>1 DEF Octets
    <3>4. ASSUME q \in Octets
          PROVE  a = 1 \/ (a = 2 /\ b <= 4) \/ (a = 2 /\ b = 5 /\ c <= 5)
      BY <2>1, <3>4 DEF Octets
    <3> QED
      BY <3>1, <3>2, <3>3, <3>4
  <2> HIDE DEF a, b, c
  <2> QED
    BY <2>1, <2>2, <2>3
<1>5. CASE ~ (n \in 1..3)
  <2>1. ~Part(q)
    BY <1>5 DEF Part
  <2>2. q \in Octets => Len(q) \in 1..3
    BY DEF Octets
  <2> QED
    BY <1>5, <2>1, <2>2
<1> QED
  BY <1>1, <1>2, <1>3, <1>4, <1>5

-----------------------------------------------------------------------------
(* The loop of checkIpv4(). *)

Character == 0..11

\* DigitsAt() counts the digits from p on.
LEMMA DigitsAtFacts ==
  ASSUME NEW ip \in Seq(Character), NEW p \in 1..(Len(ip) + 1)
  PROVE  LET n == DigitsAt(ip, p) IN
         /\ n \in 0..(Len(ip) + 1 - p)
         /\ \A i \in p..(p + n - 1) : IsDigit(ip[i])
         /\ p + n <= Len(ip) => ~IsDigit(ip[p + n])
<1> DEFINE len == Len(ip)
           top == len + 1 - p
           M == {n \in 0..top : p + n <= len => ~IsDigit(ip[p + n])}
           Counts(n) == /\ \A i \in p..(p + n - 1) : IsDigit(ip[i])
                        /\ p + n <= len => ~IsDigit(ip[p + n])
<1>1. len \in Nat /\ p \in Nat /\ top \in Nat /\ p + top = len + 1
  BY LenProperties
<1> HIDE DEF len, top
<1>2. M \in SUBSET Nat /\ top \in M
  BY <1>1
<1>3. PICK n \in M : \A m \in M : n <= m
  BY <1>2, LeastNumber
<1>4. ASSUME NEW i \in p..(p + n - 1) PROVE IsDigit(ip[i])
  <2>1. i - p \in 0..top /\ i - p < n /\ p + (i - p) = i /\ n \in Nat
    BY <1>1
  <2>2. i - p \notin M
    BY <1>3, <2>1
  <2> QED
    BY <2>1, <2>2
<1>5. n \in 0..top /\ Counts(n)
  BY <1>4
<1>6. DigitsAt(ip, p) = CHOOSE m \in 0..top : Counts(m)
  BY DEF DigitsAt, top, len
<1> HIDE DEF Counts
<1>7. DigitsAt(ip, p) \in 0..top /\ Counts(DigitsAt(ip, p))
  BY <1>5, <1>6
<1> QED
  BY <1>7 DEF Counts, top, len

\* The rounds behind a state decide what a round returns.
LEMMA RoundLooksAhead ==
  ASSUME NEW ip \in Seq(Character), NEW f, NEW g, NEW s \in LoopState(ip),
         \A t \in LoopState(ip) : t.p > s.p => f[t] = g[t]
  PROVE  Round(ip, f, s) = Round(ip, g, s)
<1> DEFINE q == s.p + DigitsAt(ip, s.p)
           t == [p |-> q + 1, dots |-> s.dots + 1]
<1>1. s.p \in 1..(Len(ip) + 1) /\ s.dots \in Nat /\ Len(ip) \in Nat
  BY LenProperties DEF LoopState
<1>2. q \in Nat /\ q >= s.p
  BY <1>1, DigitsAtFacts
<1>3. ASSUME q <= Len(ip) PROVE f[t] = g[t]
  <2>1. t \in LoopState(ip) /\ t.p > s.p
    BY <1>1, <1>2, <1>3 DEF LoopState
  <2> QED
    BY <2>1
<1>4. CASE q > Len(ip)
  BY <1>4 DEF Round
<1>5. CASE ~ (q > Len(ip))
  <2>1. f[t] = g[t]
    BY <1>1, <1>2, <1>3, <1>5
  <2> QED
    BY <1>5, <2>1 DEF Round
<1> QED
  BY <1>4, <1>5

IsLoop(ip, f) == f = [s \in LoopState(ip) |-> Round(ip, f, s)]

\* The loop is well defined: it moves to the end of the text.
LEMMA LoopExists ==
  ASSUME NEW ip \in Seq(Character)
  PROVE  \E f : IsLoop(ip, f)
<1> DEFINE end == Len(ip) + 1
           Solves(f, k) == /\ f = [s \in LoopState(ip) |-> f[s]]
                           /\ \A s \in LoopState(ip) : s.p > end - k => f[s] = Round(ip, f, s)
           M == {k \in Nat : \E f : Solves(f, k)}
<1>1. end \in Nat /\ \A s \in LoopState(ip) : s.p \in 1..end
  BY LenProperties DEF LoopState
<1> HIDE DEF end
<1>2. 0 \in M
  <2> DEFINE f == [s \in LoopState(ip) |-> FALSE]
  <2>1. ASSUME NEW s \in LoopState(ip) PROVE ~ (s.p > end - 0)
    BY <1>1
  <2>2. f = [s \in LoopState(ip) |-> f[s]]
    OBVIOUS
  <2> HIDE DEF f
  <2>3. Solves(f, 0)
    BY <2>1, <2>2
  <2> QED
    BY <2>3
<1>3. ASSUME NEW k \in M PROVE k + 1 \in M
  <2>1. PICK f : Solves(f, k)
    OBVIOUS
  <2> DEFINE h == [s \in LoopState(ip) |-> IF s.p = end - k THEN Round(ip, f, s) ELSE f[s]]
  <2>2. k \in Nat
    OBVIOUS
  <2>3. ASSUME NEW s \in LoopState(ip), s.p > end - (k + 1) PROVE h[s] = Round(ip, h, s)
    <3>1. s.p \in Nat /\ s.p >= end - k
      BY <1>1, <2>2, <2>3
    <3>2. \A t \in LoopState(ip) : t.p > s.p => f[t] = h[t]
      BY <1>1, <2>2, <3>1
    <3>3. Round(ip, f, s) = Round(ip, h, s)
      BY <3>2, RoundLooksAhead
    <3>4. CASE s.p = end - k
      BY <3>3, <3>4
    <3>5. CASE s.p > end - k
      <4>1. f[s] = Round(ip, f, s) /\ s.p # end - k
        BY <1>1, <2>1, <2>2, <3>5
      <4> QED
        BY <3>3, <4>1
    <3> QED
      BY <1>1, <2>2, <3>1, <3>4, <3>5
  <2>4. h = [s \in LoopState(ip) |-> h[s]]
    OBVIOUS
  <2> HIDE DEF h
  <2>5. Solves(h, k + 1) /\ k + 1 \in Nat
    BY <2>2, <2>3, <2>4
  <2> QED
    BY <2>5
<1>4. end \in M
  <2>1. M \in SUBSET Nat /\ \A k \in M : k + 1 \in M
    BY <1>3
  <2> HIDE DEF M
  <2> QED
    BY <1>1, <1>2, <2>1, Successors
<1>5. PICK f : Solves(f, end)
  BY <1>4
<1>6. \A s \in LoopState(ip) : f[s] = Round(ip, f, s)
  <2>1. \A s \in LoopState(ip) : s.p > end - end
    BY <1>1
  <2> QED
    BY <1>5, <2>1
<1>7. IsLoop(ip, f)
  BY <1>5, <1>6 DEF IsLoop
<1> QED
  BY <1>7

-----------------------------------------------------------------------------
(* Rounds and the text they read. *)

\* The text from p on, and a part with its dot before a text.
Ahead(ip, p) == SubSeq(ip, p, Len(ip))
Dotted(a, t) == a \o (<<Dot>> \o t)
At(p, dots) == [p |-> p, dots |-> dots]

\* The text from p on, character by character.
LEMMA AheadFacts ==
  ASSUME NEW ip \in Seq(Character), NEW p \in 1..(Len(ip) + 1)
  PROVE  /\ Ahead(ip, p) \in Seq(Character) /\ Len(Ahead(ip, p)) = Len(ip) + 1 - p
         /\ \A i \in 1..(Len(ip) + 1 - p) : Ahead(ip, p)[i] = ip[p + i - 1]
<1> DEFINE len == Len(ip)
<1>1. len \in Nat /\ p \in Nat /\ p <= len + 1 /\ \A i \in p..len : ip[i] \in Character
  <2>1. \A i \in 1..len : ip[i] \in Character
    BY ElementOfSeq
  <2>2. len \in Nat
    BY LenProperties
  <2> HIDE DEF len
  <2>3. p \in 1..(len + 1)
    BY DEF len
  <2> QED
    BY <2>1, <2>2, <2>3
<1> HIDE DEF len
<1>2. /\ SubSeq(ip, p, len) \in Seq(Character)
      /\ Len(SubSeq(ip, p, len)) = IF p <= len THEN len - p + 1 ELSE 0
      /\ \A i \in 1..(len - p + 1) : SubSeq(ip, p, len)[i] = ip[p + i - 1]
  BY <1>1, SubSeqProperties
<1>3. len - p + 1 = len + 1 - p /\ (~(p <= len) => len + 1 - p = 0)
  BY <1>1
<1> QED
  BY <1>2, <1>3 DEF Ahead, len

\* There is one number of digits from p on.
LEMMA DigitsAtIs ==
  ASSUME NEW ip \in Seq(Character), NEW p \in 1..(Len(ip) + 1),
         NEW n \in 0..(Len(ip) + 1 - p), \A i \in p..(p + n - 1) : IsDigit(ip[i]),
         p + n <= Len(ip) => ~IsDigit(ip[p + n])
  PROVE  DigitsAt(ip, p) = n
<1> DEFINE m == DigitsAt(ip, p)
           len == Len(ip)
<1>1. /\ m \in 0..(len + 1 - p) /\ \A i \in p..(p + m - 1) : IsDigit(ip[i])
      /\ p + m <= len => ~IsDigit(ip[p + m])
  BY DigitsAtFacts
<1>2. len \in Nat /\ p \in Nat
  BY LenProperties
<1>3. n \in 0..(len + 1 - p) /\ (p + n <= len => ~IsDigit(ip[p + n]))
  OBVIOUS
<1> HIDE DEF m, len
<1>4. CASE m < n
  <2>1. p + m \in p..(p + n - 1) /\ p + m <= len
    BY <1>1, <1>2, <1>3, <1>4
  <2> QED
    BY <1>1, <2>1
<1>5. CASE n < m
  <2>1. p + n \in p..(p + m - 1) /\ p + n <= len
    BY <1>1, <1>2, <1>3, <1>5
  <2> QED
    BY <1>1, <1>3, <2>1
<1> QED
  BY <1>1, <1>2, <1>3, <1>4, <1>5 DEF m

\* Octets are up to three digits.
LEMMA OctetFacts ==
  ASSUME NEW a \in Octets
  PROVE  a \in Seq(0..9) /\ a \in Seq(Character) /\ Len(a) \in 1..3 /\ a # <<Dot>>
<1>1. a \in Seq(0..9) /\ Len(a) \in 1..3 /\ a[1] # Dot
  <2>1. CASE \E x \in 0..9 : a = <<x>>
    BY <2>1 DEF Dot
  <2>2. CASE \E x, y \in 0..9 : a = <<x, y>>
    BY <2>2 DEF Dot
  <2>3. CASE \E x, y, z \in 0..9 : a = <<x, y, z>>
    BY <2>3 DEF Dot
  <2>4. \/ \E x \in 0..9 : a = <<x>>
        \/ \E x, y \in 0..9 : a = <<x, y>>
        \/ \E x, y, z \in 0..9 : a = <<x, y, z>>
    BY DEF Octets
  <2> QED
    BY <2>1, <2>2, <2>3, <2>4
<1>2. a \in Seq(Character)
  BY <1>1, SeqMonotonic DEF Character
<1> QED
  BY <1>1, <1>2

\* A part, its dot and the text after it, character by character.
LEMMA DottedText ==
  ASSUME NEW a \in Seq(Character), NEW t \in Seq(Character)
  PROVE  /\ Dotted(a, t) \in Seq(Character) /\ Len(Dotted(a, t)) = Len(a) + 1 + Len(t)
         /\ \A i \in 1..Len(a) : Dotted(a, t)[i] = a[i]
         /\ Dotted(a, t)[Len(a) + 1] = Dot
         /\ \A i \in 1..Len(t) : Dotted(a, t)[Len(a) + 1 + i] = t[i]
<1> DEFINE d == <<Dot>> \o t
           n == Len(a)
           m == Len(t)
<1>1. a \in Seq(Character) /\ n \in Nat /\ m \in Nat
  BY LenProperties
<1>2. <<Dot>> \in Seq(Character) /\ Len(<<Dot>>) = 1 /\ <<Dot>>[1] = Dot
  BY DEF Character, Dot
<1>3. /\ d \in Seq(Character) /\ Len(d) = 1 + m
      /\ \A i \in 1..(1 + m) : d[i] = IF i <= 1 THEN <<Dot>>[i] ELSE t[i - 1]
  BY <1>2, ConcatProperties
<1>4. /\ Dotted(a, t) \in Seq(Character) /\ Len(Dotted(a, t)) = n + Len(d)
      /\ \A i \in 1..(n + Len(d)) : Dotted(a, t)[i] = IF i <= n THEN a[i] ELSE d[i - n]
  BY <1>1, <1>3, ConcatProperties DEF Dotted
<1> HIDE DEF d, n, m
<1>5. Len(Dotted(a, t)) = n + 1 + m /\ n + Len(d) = n + 1 + m
  BY <1>1, <1>3, <1>4
<1>6. \A i \in 1..n : Dotted(a, t)[i] = a[i]
  BY <1>1, <1>4, <1>5
<1>7. Dotted(a, t)[n + 1] = Dot
  <2>1. n + 1 \in 1..(n + Len(d)) /\ ~(n + 1 <= n) /\ (n + 1) - n = 1 /\ 1 \in 1..(1 + m)
    BY <1>1, <1>5
  <2>2. Dotted(a, t)[n + 1] = d[1]
    BY <1>4, <2>1
  <2> QED
    BY <1>2, <1>3, <2>1, <2>2
<1>8. ASSUME NEW i \in 1..m PROVE Dotted(a, t)[n + 1 + i] = t[i]
  <2>1. /\ n + 1 + i \in 1..(n + Len(d)) /\ ~(n + 1 + i <= n) /\ (n + 1 + i) - n = 1 + i
        /\ 1 + i \in 1..(1 + m) /\ ~(1 + i <= 1) /\ (1 + i) - 1 = i
    BY <1>1, <1>5
  <2>2. Dotted(a, t)[n + 1 + i] = d[1 + i]
    BY <1>4, <2>1
  <2> QED
    BY <1>3, <2>1, <2>2
<1> QED
  BY <1>4, <1>5, <1>6, <1>7, <1>8 DEF n, m

LEMMA DottedFacts ==
  ASSUME NEW a \in Octets, NEW t \in Seq(Character)
  PROVE  /\ Dotted(a, t) \in Seq(Character) /\ Len(Dotted(a, t)) = Len(a) + 1 + Len(t)
         /\ \A i \in 1..Len(a) : Dotted(a, t)[i] = a[i]
         /\ Dotted(a, t)[Len(a) + 1] = Dot
         /\ \A i \in 1..Len(t) : Dotted(a, t)[Len(a) + 1 + i] = t[i]
<1>1. a \in Seq(Character)
  BY OctetFacts
<1> QED
  BY <1>1, DottedText

\* A loop is one round and what that leaves of the text.
LEMMA LoopRound ==
  ASSUME NEW ip \in Seq(Character), NEW f, IsLoop(ip, f), NEW p \in 1..(Len(ip) + 1),
         NEW dots \in Nat
  PROVE  f[At(p, dots)] = Round(ip, f, At(p, dots))
<1>1. At(p, dots) \in LoopState(ip)
  BY DEF At, LoopState
<1> QED
  BY <1>1 DEF IsLoop

\* At the end of the text the dots are compared.
LEMMA LoopAtEnd ==
  ASSUME NEW ip \in Seq(Character), NEW f, IsLoop(ip, f), NEW p, p = Len(ip) + 1,
         NEW dots \in Nat
  PROVE  f[At(p, dots)] <=> dots = 3
<1>1. Len(ip) \in Nat /\ p \in 1..(Len(ip) + 1) /\ p > Len(ip)
  BY LenProperties
<1>2. f[At(p, dots)] = Round(ip, f, At(p, dots))
  BY <1>1, LoopRound
<1> QED
  BY <1>1, <1>2 DEF Round, At

\* A text that begins with an octet: the round takes it.
LEMMA OctetTaken ==
  ASSUME NEW ip \in Seq(Character), NEW p \in 1..(Len(ip) + 1), NEW a \in Octets,
         Len(a) <= Len(ip) + 1 - p, \A i \in 1..Len(a) : Ahead(ip, p)[i] = a[i],
         Len(a) + 1 <= Len(ip) + 1 - p => Ahead(ip, p)[Len(a) + 1] = Dot
  PROVE  DigitsAt(ip, p) = Len(a) /\ SubSeq(ip, p, p + Len(a) - 1) = a
<1> DEFINE n == Len(a)
           len == Len(ip)
<1>1. /\ a \in Seq(0..9) /\ a \in Seq(Character) /\ n \in 1..3
      /\ \A i \in 1..n : a[i] \in 0..9
  BY OctetFacts, ElementOfSeq
<1>2. len \in Nat /\ p \in 1..(len + 1) /\ n <= len + 1 - p
  BY LenProperties
<1>3. /\ \A i \in 1..(len + 1 - p) : Ahead(ip, p)[i] = ip[p + i - 1]
      /\ \A i \in 1..n : Ahead(ip, p)[i] = a[i]
      /\ n + 1 <= len + 1 - p => Ahead(ip, p)[n + 1] = Dot
  BY AheadFacts
<1> HIDE DEF n, len
<1>4. \A i \in 1..n : ip[p + i - 1] = a[i]
  BY <1>1, <1>2, <1>3
<1>5. \A i \in p..(p + n - 1) : ip[i] \in 0..9
  <2>1. ASSUME NEW i \in p..(p + n - 1) PROVE ip[i] \in 0..9
    <3>1. i - p + 1 \in 1..n /\ p + (i - p + 1) - 1 = i
      BY <1>1, <1>2
    <3>2. ip[p + (i - p + 1) - 1] = a[i - p + 1]
      BY <1>4, <3>1
    <3> QED
      BY <1>1, <3>1, <3>2
  <2> QED
    BY <2>1
<1>6. p + n <= len => ip[p + n] = Dot
  <2> SUFFICES ASSUME p + n <= len PROVE ip[p + n] = Dot
    OBVIOUS
  <2>1. n + 1 \in 1..(len + 1 - p) /\ p + (n + 1) - 1 = p + n /\ n + 1 <= len + 1 - p
    BY <1>1, <1>2
  <2>2. Ahead(ip, p)[n + 1] = ip[p + (n + 1) - 1]
    BY <1>3, <2>1
  <2> QED
    BY <1>3, <2>1, <2>2
<1>7. DigitsAt(ip, p) = n
  <2>1. n \in 0..(len + 1 - p)
    BY <1>1, <1>2
  <2>2. \A i \in p..(p + n - 1) : IsDigit(ip[i])
    BY <1>5 DEF IsDigit
  <2>3. p + n <= len => ~IsDigit(ip[p + n])
    BY <1>6 DEF IsDigit, Dot
  <2> QED
    BY <2>1, <2>2, <2>3, DigitsAtIs DEF len
<1>8. SubSeq(ip, p, p + n - 1) = a
  <2> DEFINE m == p + n - 1
             s == SubSeq(ip, p, m)
  <2>1. m \in Int /\ p \in Int /\ p <= m /\ m - p + 1 = n
    BY <1>1, <1>2
  <2>2. \A i \in p..m : ip[i] \in 0..9
    BY <1>5
  <2> HIDE DEF m
  <2>3. s \in Seq(0..9) /\ Len(s) = n /\ \A i \in 1..n : s[i] = ip[p + i - 1]
    BY <2>1, <2>2, SubSeqProperties
  <2> HIDE DEF s
  <2>4. Len(s) = Len(a) /\ \A i \in 1..Len(s) : s[i] = a[i]
    BY <1>4, <2>3 DEF n
  <2>5. s = a
    BY <1>1, <2>3, <2>4, SeqEqual
  <2> QED
    BY <2>5 DEF s, m
<1> QED
  BY <1>7, <1>8 DEF n

\* A round before the end of the text, for the digits it finds.
LEMMA RoundAt ==
  ASSUME NEW ip, NEW f, NEW p, NEW dots, NEW q, q = p + DigitsAt(ip, p), ~(p > Len(ip))
  PROVE  Round(ip, f, At(p, dots)) <=>
           /\ Part(SubSeq(ip, p, q - 1))
           /\ q > Len(ip) => dots = 3
           /\ ~(q > Len(ip)) => ip[q] = Dot /\ f[At(q + 1, dots + 1)]
<1> DEFINE s == At(p, dots)
<1>1. s.p = p /\ s.dots = dots
  BY DEF At
<1>2. At(q + 1, s.dots + 1) = [p |-> q + 1, dots |-> s.dots + 1]
  BY DEF At
<1> HIDE DEF s
<1>3. Round(ip, f, s) =
        /\ Part(SubSeq(ip, p, q - 1))
        /\ IF q > Len(ip) THEN dots = 3 ELSE ip[q] = Dot /\ f[At(q + 1, dots + 1)]
  BY <1>1, <1>2, Zenon DEF Round
<1> QED
  BY <1>3 DEF s

\* An octet that ends the text ends the loop.
LEMMA LoopEnds ==
  ASSUME NEW ip \in Seq(Character), NEW f, IsLoop(ip, f), NEW p \in 1..(Len(ip) + 1),
         NEW dots \in Nat, Ahead(ip, p) \in Octets
  PROVE  f[At(p, dots)] <=> dots = 3
<1> DEFINE a == Ahead(ip, p)
           n == Len(a)
           len == Len(ip)
<1>1. a \in Seq(0..9) /\ n \in 1..3 /\ n = len + 1 - p /\ len \in Nat /\ p \in Nat
  BY OctetFacts, AheadFacts, LenProperties
<1>2. n <= len + 1 - p /\ ~(n + 1 <= len + 1 - p)
  <2> HIDE DEF n, len
  <2> QED
    BY <1>1
<1>3. DigitsAt(ip, p) = n /\ SubSeq(ip, p, p + n - 1) = a
  <2> HIDE DEF a
  <2>1. \A i \in 1..Len(a) : Ahead(ip, p)[i] = a[i]
    BY DEF a
  <2>2. a \in Octets
    BY DEF a
  <2> QED
    BY <1>2, <2>1, <2>2, OctetTaken
<1>4. Part(a)
  BY <1>1, PartIsOctet
<1>5. f[At(p, dots)] = Round(ip, f, At(p, dots))
  BY LoopRound
<1> HIDE DEF a, n
<1>6. ~(p > len) /\ p + n > len
  BY <1>1 DEF len
<1>7. PICK q : q = p + n
  OBVIOUS
<1>8. q = p + DigitsAt(ip, p) /\ ~(p > Len(ip)) /\ q > Len(ip) /\ SubSeq(ip, p, q - 1) = a
  BY <1>1, <1>3, <1>6, <1>7 DEF len
<1>9. Round(ip, f, At(p, dots)) <=>
        /\ Part(SubSeq(ip, p, q - 1))
        /\ q > Len(ip) => dots = 3
        /\ ~(q > Len(ip)) => ip[q] = Dot /\ f[At(q + 1, dots + 1)]
  BY <1>8, RoundAt
<1> QED
  BY <1>4, <1>5, <1>8, <1>9

\* An octet and a dot lead to the rest of the text, with one dot more.
LEMMA LoopGoesOn ==
  ASSUME NEW ip \in Seq(Character), NEW f, IsLoop(ip, f), NEW p \in 1..(Len(ip) + 1),
         NEW dots \in Nat, NEW a \in Octets, NEW t \in Seq(Character),
         Ahead(ip, p) = Dotted(a, t)
  PROVE  LET r == p + Len(a) + 1 IN
         /\ r \in 1..(Len(ip) + 1) /\ r > p /\ Ahead(ip, r) = t
         /\ f[At(p, dots)] <=> f[At(r, dots + 1)]
<1> DEFINE n == Len(a)
           m == Len(t)
           len == Len(ip)
           r == p + n + 1
<1>1. a \in Seq(0..9) /\ n \in 1..3 /\ m \in Nat /\ len \in Nat /\ p \in 1..(len + 1)
  BY OctetFacts, LenProperties
<1>2. /\ n + 1 + m = len + 1 - p
      /\ \A i \in 1..n : Ahead(ip, p)[i] = a[i]
      /\ Ahead(ip, p)[n + 1] = Dot
      /\ \A i \in 1..m : Ahead(ip, p)[n + 1 + i] = t[i]
      /\ \A i \in 1..(len + 1 - p) : Ahead(ip, p)[i] = ip[p + i - 1]
  <2>1. Len(Ahead(ip, p)) = len + 1 - p
    BY AheadFacts
  <2>2. Len(Dotted(a, t)) = n + 1 + m
    BY DottedFacts
  <2>3. \A i \in 1..(len + 1 - p) : Ahead(ip, p)[i] = ip[p + i - 1]
    BY AheadFacts
  <2>4. /\ \A i \in 1..n : Dotted(a, t)[i] = a[i]
        /\ Dotted(a, t)[n + 1] = Dot
        /\ \A i \in 1..m : Dotted(a, t)[n + 1 + i] = t[i]
    BY DottedFacts
  <2> QED
    BY <2>1, <2>2, <2>3, <2>4
<1> HIDE DEF n, m, len
<1>3. /\ n <= len + 1 - p /\ r \in 1..(len + 1) /\ r > p /\ m = len + 1 - r /\ p + n <= len
      /\ ~(p > len) /\ p + n \in Nat
  <2>1. n + 1 + m = len + 1 - p
    BY <1>2
  <2> QED
    BY <1>1, <2>1
<1>4. DigitsAt(ip, p) = n /\ SubSeq(ip, p, p + n - 1) = a
  BY <1>2, <1>3, OctetTaken DEF n, len
<1>5. Part(a)
  BY <1>1, PartIsOctet
<1>6. ip[p + n] = Dot
  <2>1. n + 1 \in 1..(len + 1 - p) /\ p + (n + 1) - 1 = p + n
    BY <1>1, <1>2
  <2> QED
    BY <1>2, <2>1
<1>7. Ahead(ip, r) = t
  <2>1. /\ Ahead(ip, r) \in Seq(Character) /\ Len(Ahead(ip, r)) = len + 1 - r
        /\ \A i \in 1..(len + 1 - r) : Ahead(ip, r)[i] = ip[r + i - 1]
    <3> HIDE DEF r
    <3> QED
      BY <1>3, AheadFacts DEF len
  <2>2. ASSUME NEW i \in 1..m PROVE Ahead(ip, r)[i] = t[i]
    <3>1. n + 1 + i \in 1..(len + 1 - p) /\ p + (n + 1 + i) - 1 = r + i - 1
      BY <1>1, <1>2, SMTT(30)
    <3>2. Ahead(ip, p)[n + 1 + i] = ip[p + (n + 1 + i) - 1]
      BY <1>2, <3>1
    <3>3. Ahead(ip, r)[i] = ip[r + i - 1]
      BY <1>3, <2>1
    <3> QED
      BY <1>2, <3>1, <3>2, <3>3
  <2> HIDE DEF r
  <2>3. Len(Ahead(ip, r)) = Len(t) /\ \A i \in 1..Len(Ahead(ip, r)) : Ahead(ip, r)[i] = t[i]
    BY <1>3, <2>1, <2>2 DEF m
  <2> QED
    BY <2>1, <2>3, SeqEqual
<1>8. f[At(p, dots)] <=> f[At(r, dots + 1)]
  <2>1. f[At(p, dots)] = Round(ip, f, At(p, dots))
    BY LoopRound
  <2>2. ~(p + n > len)
    BY <1>3, <1>1
  <2>3. PICK q : q = p + n
    OBVIOUS
  <2>4. /\ q = p + DigitsAt(ip, p) /\ ~(p > Len(ip)) /\ ~(q > Len(ip))
        /\ SubSeq(ip, p, q - 1) = a /\ ip[q] = Dot /\ r = q + 1
    BY <1>1, <1>3, <1>4, <1>6, <2>2, <2>3 DEF len
  <2>5. Round(ip, f, At(p, dots)) <=>
          /\ Part(SubSeq(ip, p, q - 1))
          /\ q > Len(ip) => dots = 3
          /\ ~(q > Len(ip)) => ip[q] = Dot /\ f[At(q + 1, dots + 1)]
    BY <2>4, RoundAt
  <2> QED
    BY <1>5, <2>1, <2>4, <2>5
<1> QED
  BY <1>3, <1>7, <1>8 DEF n, len

\* What the loop returns TRUE for begins with an octet, unless it is at the end.
LEMMA LoopParses ==
  ASSUME NEW ip \in Seq(Character), NEW f, IsLoop(ip, f), NEW p \in 1..(Len(ip) + 1),
         NEW dots \in Nat, f[At(p, dots)], p # Len(ip) + 1
  PROVE  \/ Ahead(ip, p) \in Octets
         \/ \E a \in Octets, t \in Seq(Character) : Ahead(ip, p) = Dotted(a, t)
<1> DEFINE n == DigitsAt(ip, p)
           len == Len(ip)
           a == SubSeq(ip, p, p + n - 1)
<1>1. /\ n \in 0..(len + 1 - p) /\ len \in Nat /\ p \in 1..len
      /\ \A i \in p..(p + n - 1) : ip[i] \in 0..9
  <2>1. len \in Nat /\ p \in 1..(len + 1) /\ p # len + 1
    BY LenProperties
  <2>2. n \in 0..(len + 1 - p) /\ \A i \in p..(p + n - 1) : ip[i] \in 0..9
    BY DigitsAtFacts DEF IsDigit
  <2> HIDE DEF len
  <2> QED
    BY <2>1, <2>2
<1>2. PICK q : q = p + n
  OBVIOUS
<1> HIDE DEF n
<1>3. q \in Nat /\ ~(p > len) /\ q <= len + 1 /\ n = q - p /\ p + n - 1 = q - 1 /\ p \in Nat
  <2> HIDE DEF len
  <2> QED
    BY <1>1, <1>2
<1>4. /\ Part(SubSeq(ip, p, q - 1))
      /\ ~(q > len) => ip[q] = Dot
  <2>1. f[At(p, dots)] = Round(ip, f, At(p, dots))
    BY LoopRound
  <2>2. q = p + DigitsAt(ip, p) /\ ~(p > Len(ip))
    BY <1>2, <1>3 DEF n
  <2>3. Round(ip, f, At(p, dots)) <=>
          /\ Part(SubSeq(ip, p, q - 1))
          /\ q > Len(ip) => dots = 3
          /\ ~(q > Len(ip)) => ip[q] = Dot /\ f[At(q + 1, dots + 1)]
    BY <2>2, RoundAt
  <2> QED
    BY <2>1, <2>3
<1>5. PICK m : m = q - 1
  OBVIOUS
<1>6. /\ SubSeq(ip, p, m) \in Seq(0..9) /\ Len(SubSeq(ip, p, m)) = n
      /\ \A i \in 1..n : SubSeq(ip, p, m)[i] = ip[p + i - 1]
  <2>1. m \in Int /\ p \in Int /\ m - p + 1 = n /\ (IF p <= m THEN m - p + 1 ELSE 0) = n
    BY <1>1, <1>3, <1>5
  <2>2. \A i \in p..m : ip[i] \in 0..9
    BY <1>1, <1>3, <1>5
  <2>3. /\ SubSeq(ip, p, m) \in Seq(0..9)
        /\ Len(SubSeq(ip, p, m)) = IF p <= m THEN m - p + 1 ELSE 0
        /\ \A i \in 1..(m - p + 1) : SubSeq(ip, p, m)[i] = ip[p + i - 1]
    BY <2>1, <2>2, SubSeqProperties
  <2> QED
    BY <2>1, <2>3
<1>7. SubSeq(ip, p, m) \in Octets
  BY <1>4, <1>5, <1>6, PartIsOctet
<1>8. CASE q > len
  <2>1. m = len
    BY <1>1, <1>3, <1>5, <1>8
  <2> QED
    BY <1>7, <2>1 DEF Ahead, len
<1>9. CASE ~(q > len)
  <2>1. q \in 1..len /\ m = q - 1 /\ p \in 1..len /\ q + 1 \in 1..(len + 1) /\ len \in Nat
        /\ m \in (p - 1)..len /\ len \in m..len /\ m + 1 = q /\ p \in 1..(len + 1)
        /\ len \in q..len
    BY <1>1, <1>2, <1>3, <1>5, <1>9
  <2>2. Ahead(ip, q + 1) \in Seq(Character)
    BY <2>1, AheadFacts DEF len
  <2>3. SubSeq(ip, p, m) \o SubSeq(ip, q, len) = SubSeq(ip, p, len)
    BY <2>1, ConcatAdjacentSubSeq DEF len
  <2>4. SubSeq(ip, q, len) = <<ip[q]>> \o SubSeq(ip, q + 1, len)
    BY <2>1, SubSeqRecursiveFirst DEF len
  <2>5. Ahead(ip, p) = Dotted(SubSeq(ip, p, m), Ahead(ip, q + 1))
    BY <1>4, <1>9, <2>3, <2>4 DEF Ahead, Dotted, len
  <2> QED
    BY <1>7, <2>2, <2>5
<1> QED
  BY <1>8, <1>9

\* Four dots are never right.
LEMMA NoFourthDot ==
  ASSUME NEW ip \in Seq(Character), NEW f, IsLoop(ip, f)
  PROVE  \A p \in 1..(Len(ip) + 1), dots \in Nat : dots >= 4 => ~f[At(p, dots)]
<1> DEFINE end == Len(ip) + 1
           M == {k \in Nat : \A p \in 1..end, dots \in Nat :
                                p > end - k /\ dots >= 4 => ~f[At(p, dots)]}
<1>1. end \in Nat
  BY LenProperties
<1>2. 0 \in M
  <2> HIDE DEF end
  <2> QED
    BY <1>1
<1>3. ASSUME NEW k \in M PROVE k + 1 \in M
  <2>1. k \in Nat
    OBVIOUS
  <2>2. ASSUME NEW p \in 1..end, NEW dots \in Nat, p > end - (k + 1), dots >= 4, f[At(p, dots)]
        PROVE  FALSE
    <3>1. ~(dots = 3) /\ dots + 1 \in Nat /\ dots + 1 >= 4
      BY <2>2
    <3>2. p # Len(ip) + 1
      BY <2>2, <3>1, LoopAtEnd
    <3>3. Ahead(ip, p) \notin Octets
      BY <2>2, <3>1, LoopEnds
    <3>4. PICK a \in Octets, t \in Seq(Character) : Ahead(ip, p) = Dotted(a, t)
      BY <2>2, <3>2, <3>3, LoopParses
    <3>5. PICK r : r = p + Len(a) + 1
      OBVIOUS
    <3>6. r \in 1..end /\ r > p /\ f[At(r, dots + 1)]
      BY <2>2, <3>4, <3>5, LoopGoesOn
    <3>7. r > end - k
      <4> HIDE DEF end
      <4> QED
        BY <1>1, <2>1, <2>2, <3>6
    <3> HIDE DEF end
    <3> QED
      BY <3>1, <3>6, <3>7
  <2> HIDE DEF end
  <2> QED
    BY <2>1, <2>2
<1>4. end \in M
  <2>1. M \in SUBSET Nat /\ \A k \in M : k + 1 \in M
    BY <1>3
  <2> HIDE DEF M
  <2> QED
    BY <1>1, <1>2, <2>1, Successors
<1>5. \A p \in 1..end : p > end - end
  <2> HIDE DEF end
  <2> QED
    BY <1>1
<1> QED
  BY <1>4, <1>5

\* An octet and a dot before each text of a set.
Before(A) == {Dotted(a, t) : a \in Octets, t \in A}

\* What the loop accepts before a dot: an octet, the dot, and what it accepts after it.
LEMMA LoopBefore ==
  ASSUME NEW ip \in Seq(Character), NEW f, IsLoop(ip, f), NEW dots \in 0..2,
         NEW A \in SUBSET Seq(Character),
         \A r \in 1..(Len(ip) + 1) : f[At(r, dots + 1)] <=> Ahead(ip, r) \in A
  PROVE  \A p \in 1..(Len(ip) + 1) : f[At(p, dots)] <=> Ahead(ip, p) \in Before(A)
<1> SUFFICES ASSUME NEW p \in 1..(Len(ip) + 1)
             PROVE  f[At(p, dots)] <=> Ahead(ip, p) \in Before(A)
  OBVIOUS
<1>1. dots \in Nat /\ ~(dots = 3)
  OBVIOUS
<1>2. ASSUME f[At(p, dots)] PROVE Ahead(ip, p) \in Before(A)
  <2>1. p # Len(ip) + 1
    BY <1>1, <1>2, LoopAtEnd
  <2>2. Ahead(ip, p) \notin Octets
    BY <1>1, <1>2, LoopEnds
  <2>3. PICK a \in Octets, t \in Seq(Character) : Ahead(ip, p) = Dotted(a, t)
    BY <1>1, <1>2, <2>1, <2>2, LoopParses
  <2>4. PICK r : r = p + Len(a) + 1
    OBVIOUS
  <2>5. r \in 1..(Len(ip) + 1) /\ Ahead(ip, r) = t /\ f[At(r, dots + 1)]
    BY <1>1, <1>2, <2>3, <2>4, LoopGoesOn, SMTT(30)
  <2>6. t \in A
    BY <2>5
  <2> QED
    BY <2>3, <2>6 DEF Before
<1>3. ASSUME Ahead(ip, p) \in Before(A) PROVE f[At(p, dots)]
  <2>1. PICK a \in Octets, t \in A : Ahead(ip, p) = Dotted(a, t)
    BY <1>3 DEF Before
  <2>2. PICK r : r = p + Len(a) + 1
    OBVIOUS
  <2>3. t \in Seq(Character)
    OBVIOUS
  <2>4. r \in 1..(Len(ip) + 1) /\ Ahead(ip, r) = t /\ (f[At(p, dots)] <=> f[At(r, dots + 1)])
    BY <1>1, <2>1, <2>2, <2>3, LoopGoesOn, SMTT(30)
  <2> QED
    BY <2>4
<1> QED
  BY <1>2, <1>3

\* After three dots there is an octet, or nothing.
LastPart == Octets \cup {<<>>}

\* What the loop accepts after the third dot.
LEMMA LoopLast ==
  ASSUME NEW ip \in Seq(Character), NEW f, IsLoop(ip, f)
  PROVE  \A p \in 1..(Len(ip) + 1) : f[At(p, 3)] <=> Ahead(ip, p) \in LastPart
<1> SUFFICES ASSUME NEW p \in 1..(Len(ip) + 1)
             PROVE  f[At(p, 3)] <=> Ahead(ip, p) \in LastPart
  OBVIOUS
<1>1. CASE p = Len(ip) + 1
  <2>1. f[At(p, 3)]
    BY <1>1, LoopAtEnd
  <2>2. Ahead(ip, p) = <<>>
    <3>1. Len(ip) \in Int /\ p \in Int /\ Len(ip) < p
      BY <1>1, LenProperties
    <3> QED
      BY <3>1, SubSeqEmpty DEF Ahead
  <2> QED
    BY <2>1, <2>2 DEF LastPart
<1>2. CASE p # Len(ip) + 1
  <2>1. ASSUME f[At(p, 3)] PROVE Ahead(ip, p) \in Octets
    <3>1. ASSUME NEW a \in Octets, NEW t \in Seq(Character), Ahead(ip, p) = Dotted(a, t)
          PROVE  FALSE
      <4>1. PICK r : r = p + Len(a) + 1
        OBVIOUS
      <4>2. r \in 1..(Len(ip) + 1) /\ f[At(r, 3 + 1)]
        BY <2>1, <3>1, <4>1, LoopGoesOn
      <4> QED
        BY <4>2, NoFourthDot
    <3> QED
      BY <1>2, <2>1, <3>1, LoopParses
  <2>2. Ahead(ip, p) # <<>>
    <3>1. Len(Ahead(ip, p)) = Len(ip) + 1 - p
      BY AheadFacts
    <3>2. Len(ip) + 1 - p # 0
      BY <1>2, LenProperties
    <3> QED
      BY <3>1, <3>2
  <2>3. Ahead(ip, p) \in Octets => f[At(p, 3)]
    BY LoopEnds
  <2> QED
    BY <2>1, <2>2, <2>3 DEF LastPart
<1> QED
  BY <1>1, <1>2

\* The loop accepts three octets with a dot each, and an octet or nothing behind them.
LEMMA AcceptedTexts ==
  ASSUME NEW ip \in Seq(Character)
  PROVE  checkIpv4(ip) <=> ip \in Before(Before(Before(LastPart)))
<1> DEFINE f == CHOOSE g : IsLoop(ip, g)
<1>1. checkIpv4(ip) = f[At(1, 0)]
  BY DEF checkIpv4, IsLoop, At
<1>2. IsLoop(ip, f)
  BY LoopExists
<1> HIDE DEF f
<1>3. ASSUME NEW A \in SUBSET Seq(Character) PROVE Before(A) \in SUBSET Seq(Character)
  <2>1. ASSUME NEW a \in Octets, NEW t \in A PROVE Dotted(a, t) \in Seq(Character)
    BY <2>1, DottedFacts
  <2> QED
    BY <2>1 DEF Before
<1>4. LastPart \in SUBSET Seq(Character)
  BY OctetFacts, EmptySeq DEF LastPart
<1> DEFINE B == Before(LastPart)
           C == Before(B)
<1>5. B \in SUBSET Seq(Character) /\ C \in SUBSET Seq(Character)
  <2>1. B \in SUBSET Seq(Character)
    BY <1>3, <1>4
  <2> HIDE DEF B
  <2> QED
    BY <1>3, <2>1
<1>6. \A p \in 1..(Len(ip) + 1) : f[At(p, 2 + 1)] <=> Ahead(ip, p) \in LastPart
  BY <1>2, LoopLast
<1>7. \A p \in 1..(Len(ip) + 1) : f[At(p, 2)] <=> Ahead(ip, p) \in B
  <2>1. 2 \in 0..2
    OBVIOUS
  <2> QED
    BY <1>2, <1>4, <1>6, <2>1, LoopBefore
<1> HIDE DEF B
<1>8. \A p \in 1..(Len(ip) + 1) : f[At(p, 1)] <=> Ahead(ip, p) \in C
  <2>1. 1 \in 0..2 /\ 1 + 1 = 2
    OBVIOUS
  <2>2. \A p \in 1..(Len(ip) + 1) : f[At(p, 1 + 1)] <=> Ahead(ip, p) \in B
    BY <1>7, <2>1
  <2> QED
    BY <1>2, <1>5, <2>1, <2>2, LoopBefore
<1> HIDE DEF C
<1>9. \A p \in 1..(Len(ip) + 1) : f[At(p, 0)] <=> Ahead(ip, p) \in Before(C)
  <2>1. 0 \in 0..2 /\ 0 + 1 = 1
    OBVIOUS
  <2>2. \A p \in 1..(Len(ip) + 1) : f[At(p, 0 + 1)] <=> Ahead(ip, p) \in C
    BY <1>8, <2>1
  <2> QED
    BY <1>2, <1>5, <2>1, <2>2, LoopBefore
<1>10. 1 \in 1..(Len(ip) + 1) /\ Ahead(ip, 1) = ip
  <2>1. Len(ip) \in Nat
    BY LenProperties
  <2> QED
    BY <2>1, SubSeqFull DEF Ahead
<1> QED
  BY <1>1, <1>9, <1>10 DEF B, C

-----------------------------------------------------------------------------
(* Parts joined by dots. *)

Texts == Seq(Character)
JoinedBy(text, part) == text \o <<Dot>> \o part
JoinedFrom(start, parts) == FoldLeft(LAMBDA text, part : text \o <<Dot>> \o part, start, parts)

\* Dots may be put in from the left or from the right.
LEMMA DottedTwice ==
  ASSUME NEW a \in Seq(Character), NEW b \in Seq(Character), NEW c \in Seq(Character)
  PROVE  /\ JoinedBy(a, b) = Dotted(a, b)
         /\ Dotted(a, b) \in Seq(Character)
         /\ Dotted(Dotted(a, b), c) = Dotted(a, Dotted(b, c))
<1> DEFINE d == <<Dot>>
<1>1. d \in Seq(Character)
  BY DEF Character, Dot
<1> HIDE DEF d
<1>2. d \o b \in Seq(Character) /\ d \o c \in Seq(Character)
  BY <1>1, ConcatProperties
<1>3. (a \o d) \o b = a \o (d \o b) /\ a \o (d \o b) \in Seq(Character)
  BY <1>1, <1>2, ConcatAssociative, ConcatProperties, SMTT(40)
<1>4. (a \o (d \o b)) \o (d \o c) = a \o ((d \o b) \o (d \o c))
  <2>1. PICK x, y : x = d \o b /\ y = d \o c
    OBVIOUS
  <2>2. x \in Seq(Character) /\ y \in Seq(Character)
    BY <1>2, <2>1
  <2>3. (a \o x) \o y = a \o (x \o y)
    BY <2>2, ConcatAssociative, SMTT(30)
  <2> QED
    BY <2>1, <2>3
<1>5. (d \o b) \o (d \o c) = d \o (b \o (d \o c))
  BY <1>1, <1>2, ConcatAssociative, SMTT(30)
<1> QED
  BY <1>3, <1>4, <1>5 DEF Dotted, JoinedBy, d

\* Joined() puts the parts behind the first from the left.
LEMMA JoinedSteps ==
  ASSUME NEW start \in Seq(Character), NEW n \in Nat, NEW q \in [1..n -> Seq(Character)]
  PROVE  \E g \in [0..n -> Seq(Character)] :
           /\ g[0] = start /\ g[n] = JoinedFrom(start, q)
           /\ \A k \in 1..n : g[k] = Dotted(g[k - 1], q[k])
<1> DEFINE T == [i \in 1..n |-> [x \in Seq(Character) |-> JoinedBy(x, q[i])]]
           Step(f, s) == IF s = {} THEN start ELSE JoinedBy(f[s \ {Max(s)}], q[Max(s)])
           Solves(f) == f = [s \in SUBSET (1..n) |-> Step(f, s)]
           iter == CHOOSE f : Solves(f)
<1>1. JoinedFrom(start, q) = iter[1..n]
  <2>1. DOMAIN q = 1..n
    OBVIOUS
  <2> QED
    BY <2>1 DEF JoinedFrom, JoinedBy, FoldLeft, MapThenFoldSet
<1>2. ASSUME NEW x \in Seq(Character), NEW y \in Seq(Character)
      PROVE  JoinedBy(x, y) = Dotted(x, y) /\ JoinedBy(x, y) \in Seq(Character)
  BY DottedTwice
<1>3. \A i \in 1..n : q[i] \in Seq(Character)
  OBVIOUS
<1>4. T \in [1..n -> [Seq(Character) -> Seq(Character)]]
  BY <1>2
<1>5. ASSUME NEW i \in 1..n, NEW x \in Seq(Character) PROVE T[i][x] = JoinedBy(x, q[i])
  OBVIOUS
<1> HIDE DEF T
<1>6. PICK f : Iterates(f, Seq(Character), start, n, T)
  BY <1>4, IterationExists
<1>7. Solves(f)
  <2>1. ASSUME NEW s \in SUBSET (1..n) PROVE f[s] = Step(f, s)
    <3>1. CASE s = {}
      BY <1>6, <3>1 DEF Iterates
    <3>2. CASE s # {}
      <4>1. Max(s) \in 1..n /\ s \ {Max(s)} \in SUBSET (1..n)
        BY <3>2, GreatestPosition
      <4>2. f[s \ {Max(s)}] \in Seq(Character) /\ f[s] = T[Max(s)][f[s \ {Max(s)}]]
        BY <1>6, <3>2, <4>1 DEF Iterates
      <4> QED
        BY <1>5, <3>2, <4>1, <4>2
    <3> QED
      BY <3>1, <3>2
  <2>2. f = [s \in SUBSET (1..n) |-> f[s]]
    BY <1>6 DEF Iterates
  <2> HIDE DEF Step
  <2> QED
    BY <2>1, <2>2
<1>8. Solves(iter)
  <2> HIDE DEF Solves
  <2> QED
    BY <1>7
<1> HIDE DEF iter
<1>9. iter[{}] = start
  BY <1>8
<1>10. ASSUME NEW s \in SUBSET (1..n), s # {}, iter[s \ {Max(s)}] \in Seq(Character)
       PROVE  iter[s] = T[Max(s)][iter[s \ {Max(s)}]]
  <2>1. Max(s) \in 1..n
    BY <1>10, GreatestPosition
  <2> QED
    BY <1>5, <1>8, <1>10, <2>1
<1>11. PICK V : V = Seq(Character)
  OBVIOUS
<1>12. PICK g : Reaches(g, V, start, n, T, iter[1..n])
  <2>1. start \in V /\ T \in [1..n -> [V -> V]]
    BY <1>4, <1>11
  <2>2. Follows(iter, V, start, n, T)
    BY <1>9, <1>10, <1>11 DEF Follows
  <2> QED
    BY <2>1, <2>2, FoldSteps
<1>13. /\ g \in [0..n -> Seq(Character)] /\ g[0] = start /\ g[n] = iter[1..n]
       /\ \A k \in 1..n : g[k] = T[k][g[k - 1]]
  BY <1>11, <1>12 DEF Reaches
<1>14. ASSUME NEW k \in 1..n PROVE g[k] = Dotted(g[k - 1], q[k])
  <2>1. k - 1 \in 0..n
    OBVIOUS
  <2>2. g[k - 1] \in Seq(Character)
    BY <1>13, <2>1
  <2> QED
    BY <1>2, <1>3, <1>5, <1>13, <2>2
<1> QED
  BY <1>1, <1>13, <1>14

\* What is behind the first of a sequence.
LEMMA TailFacts ==
  ASSUME NEW S, NEW s \in Seq(S), s # <<>>
  PROVE  /\ Len(s) \in Nat \ {0} /\ Head(s) = s[1]
         /\ Tail(s) \in Seq(S) /\ Len(Tail(s)) = Len(s) - 1
         /\ Tail(s) = [i \in 1..(Len(s) - 1) |-> s[i + 1]]
         /\ \A i \in 1..(Len(s) - 1) : Tail(s)[i] = s[i + 1]
<1>1. Len(s) \in Nat \ {0} /\ Len(Tail(s)) \in Nat /\ Len(Tail(s)) = Len(s) - 1
  BY LenProperties, EmptySeq, HeadTailProperties
<1>2. Tail(s) \in Seq(S) /\ Head(s) = s[1]
  BY HeadTailProperties
<1>3. \A i \in 1..(Len(s) - 1) : Tail(s)[i] = s[i + 1]
  BY <1>1, <1>2, HeadTailProperties
<1>4. Tail(s) = [i \in 1..Len(Tail(s)) |-> Tail(s)[i]]
  BY <1>2, LenProperties
<1> QED
  BY <1>1, <1>2, <1>3, <1>4

\* The text of the parts is the first, and the text of the others behind a dot.
LEMMA JoinedFirst ==
  ASSUME NEW parts \in Seq(Texts), parts # <<>>
  PROVE  /\ Joined(parts) \in Seq(Character)
         /\ Len(parts) = 1 => Joined(parts) = parts[1]
         /\ Len(parts) > 1 => Joined(parts) = Dotted(parts[1], Joined(Tail(parts)))
<1> DEFINE n == Len(parts) - 1
           q == [i \in 1..n |-> parts[i + 1]]
           r == [i \in 1..(n - 1) |-> parts[i + 2]]
<1>1. /\ n \in Nat /\ \A i \in 1..(n + 1) : parts[i] \in Seq(Character)
      /\ Len(parts) = n + 1
  <2>1. Len(parts) \in Nat \ {0}
    BY LenProperties, EmptySeq
  <2> QED
    BY <2>1, ElementOfSeq DEF Texts
<1>2. Tail(parts) = q /\ Head(parts) = parts[1]
  BY <1>1, TailFacts
<1>3. q \in [1..n -> Seq(Character)] /\ \A i \in 1..n : q[i] = parts[i + 1]
  BY <1>1
<1>4. Joined(parts) = JoinedFrom(parts[1], q)
  BY <1>2 DEF Joined, JoinedFrom
<1> HIDE DEF n, q
<1>5. parts[1] \in Seq(Character)
  BY <1>1
<1>6. PICK g \in [0..n -> Seq(Character)] :
        /\ g[0] = parts[1] /\ g[n] = JoinedFrom(parts[1], q)
        /\ \A k \in 1..n : g[k] = Dotted(g[k - 1], q[k])
  BY <1>1, <1>3, <1>5, JoinedSteps
<1>7. g[n] \in Seq(Character)
  BY <1>1
<1>8. CASE n = 0
  BY <1>1, <1>4, <1>6, <1>7, <1>8
<1>9. CASE n > 0
  <2>1. n - 1 \in Nat /\ Len(q) = n /\ q \in Seq(Texts) /\ q[1] \in Seq(Character)
    BY <1>1, <1>3, <1>9 DEF Texts
  <2>2. Tail(q) = r /\ Head(q) = q[1] /\ r \in [1..(n - 1) -> Seq(Character)]
    <3>1. \A i \in 1..(n - 1) : i + 1 \in 1..n /\ (i + 1) + 1 = i + 2 /\ i + 2 \in 1..(n + 1)
      BY <1>1
    <3>2. Tail(q) = [i \in 1..(n - 1) |-> q[i + 1]] /\ Head(q) = q[1]
      <4>1. q # <<>>
        BY <1>1, <1>9, <2>1
      <4> QED
        BY <2>1, <4>1, TailFacts
    <3> QED
      BY <1>1, <1>3, <3>1, <3>2
  <2>3. Joined(q) = JoinedFrom(q[1], r)
    BY <2>2 DEF Joined, JoinedFrom
  <2>4. \A i \in 1..(n - 1) : r[i] = q[i + 1]
    BY <1>1, <1>3
  <2> HIDE DEF r
  <2>5. PICK h \in [0..(n - 1) -> Seq(Character)] :
          /\ h[0] = q[1] /\ h[n - 1] = JoinedFrom(q[1], r)
          /\ \A k \in 1..(n - 1) : h[k] = Dotted(h[k - 1], r[k])
    <3>1. PICK m : m = n - 1
      OBVIOUS
    <3>2. m \in Nat /\ r \in [1..m -> Seq(Character)] /\ q[1] \in Seq(Character)
      BY <2>1, <2>2, <3>1
    <3>3. \E h \in [0..m -> Seq(Character)] :
            /\ h[0] = q[1] /\ h[m] = JoinedFrom(q[1], r)
            /\ \A k \in 1..m : h[k] = Dotted(h[k - 1], r[k])
      BY <3>2, JoinedSteps
    <3> QED
      BY <3>1, <3>3
  <2> DEFINE M == {k \in Nat : k <= n - 1 => g[k + 1] = Dotted(parts[1], h[k])}
  <2>6. 0 \in M
    <3>1. g[1] = Dotted(g[1 - 1], q[1]) /\ 1 - 1 = 0 /\ 0 + 1 = 1
      BY <1>1, <1>6, <1>9
    <3> QED
      BY <1>6, <2>5, <3>1
  <2>7. ASSUME NEW k \in M PROVE k + 1 \in M
    <3> SUFFICES ASSUME k + 1 <= n - 1 PROVE g[(k + 1) + 1] = Dotted(parts[1], h[k + 1])
      OBVIOUS
    <3>1. /\ k + 1 \in 1..(n - 1) /\ (k + 1) - 1 = k /\ k \in 0..(n - 1)
          /\ (k + 1) + 1 \in 1..n /\ ((k + 1) + 1) - 1 = k + 1 /\ k <= n - 1
      BY <1>1
    <3>2. g[(k + 1) + 1] = Dotted(g[k + 1], q[(k + 1) + 1])
      BY <1>6, <3>1
    <3>3. h[k + 1] = Dotted(h[k], q[(k + 1) + 1])
      BY <2>4, <2>5, <3>1
    <3>4. h[k] \in Seq(Character) /\ q[(k + 1) + 1] \in Seq(Character)
      BY <1>3, <3>1
    <3>5. g[k + 1] = Dotted(parts[1], h[k])
      BY <3>1
    <3>6. PICK x, y : x = h[k] /\ y = q[(k + 1) + 1]
      OBVIOUS
    <3>7. Dotted(Dotted(parts[1], x), y) = Dotted(parts[1], Dotted(x, y))
      BY <1>5, <3>4, <3>6, DottedTwice
    <3> QED
      BY <3>2, <3>3, <3>5, <3>6, <3>7
  <2>8. M \in SUBSET Nat /\ \A k \in M : k + 1 \in M
    BY <2>7
  <2> HIDE DEF M
  <2>9. n - 1 \in M
    BY <2>1, <2>6, <2>8, Successors
  <2>10. g[n] = Dotted(parts[1], h[n - 1])
    <3>1. n - 1 <= n - 1 /\ (n - 1) + 1 = n
      BY <1>1
    <3> QED
      BY <2>9, <3>1 DEF M
  <2>11. Joined(parts) = Dotted(parts[1], Joined(Tail(parts)))
    BY <1>2, <1>4, <1>6, <2>3, <2>5, <2>10
  <2>12. Joined(parts) \in Seq(Character) /\ Len(parts) # 1
    BY <1>1, <1>4, <1>6, <1>7, <1>9
  <2> QED
    BY <2>11, <2>12
<1> QED
  BY <1>1, <1>8, <1>9

\* Four parts.
LEMMA JoinedQuad ==
  ASSUME NEW parts \in Seq(Texts), Len(parts) = 4
  PROVE  Joined(parts) = Dotted(parts[1], Dotted(parts[2], Dotted(parts[3], parts[4])))
<1>1. \A i \in 1..4 : parts[i] \in Seq(Character)
  BY ElementOfSeq DEF Texts
<1>2. ASSUME NEW q \in Seq(Texts), NEW m \in 1..3, Len(q) = m + 1
      PROVE  /\ Tail(q) \in Seq(Texts) /\ Len(Tail(q)) = m
             /\ \A i \in 1..m : Tail(q)[i] = q[i + 1]
             /\ Joined(q) = Dotted(q[1], Joined(Tail(q)))
  <2>1. q # <<>> /\ Len(q) > 1 /\ Len(q) - 1 = m
    BY <1>2, EmptySeq
  <2> QED
    BY <2>1, TailFacts, JoinedFirst
<1>3. PICK q : q = Tail(parts)
  OBVIOUS
<1>4. PICK r : r = Tail(q)
  OBVIOUS
<1>5. PICK s : s = Tail(r)
  OBVIOUS
<1>6. /\ q \in Seq(Texts) /\ Len(q) = 3 /\ \A i \in 1..3 : q[i] = parts[i + 1]
      /\ Joined(parts) = Dotted(parts[1], Joined(q))
  <2>1. 4 = 3 + 1 /\ 3 \in 1..3
    OBVIOUS
  <2> QED
    BY <1>2, <1>3, <2>1
<1>7. /\ r \in Seq(Texts) /\ Len(r) = 2 /\ \A i \in 1..2 : r[i] = q[i + 1]
      /\ Joined(q) = Dotted(q[1], Joined(r))
  <2>1. 3 = 2 + 1 /\ 2 \in 1..3
    OBVIOUS
  <2> QED
    BY <1>2, <1>4, <1>6, <2>1
<1>8. /\ s \in Seq(Texts) /\ Len(s) = 1 /\ \A i \in 1..1 : s[i] = r[i + 1]
      /\ Joined(r) = Dotted(r[1], Joined(s))
  <2>1. 2 = 1 + 1 /\ 1 \in 1..3
    OBVIOUS
  <2> QED
    BY <1>2, <1>5, <1>7, <2>1
<1>9. Joined(s) = s[1]
  <2>1. Len(<<>>) = 0 /\ Len(s) # 0
    BY <1>8
  <2> QED
    BY <1>8, <2>1, JoinedFirst, SMTT(30)
<1>10. q[1] = parts[2] /\ r[1] = parts[3] /\ s[1] = parts[4]
  <2>1. q[1] = parts[1 + 1] /\ q[2] = parts[2 + 1] /\ q[3] = parts[3 + 1]
    BY <1>6
  <2>2. r[1] = q[1 + 1] /\ r[2] = q[2 + 1]
    BY <1>7
  <2>3. s[1] = r[1 + 1]
    BY <1>8
  <2> QED
    BY <2>1, <2>2, <2>3
<1> QED
  BY <1>6, <1>7, <1>8, <1>9, <1>10

\* What dtoe-ip may be set to, for every text: isValidIpv4() accepts the empty text, the
\* dotted quads without leading zeros, and three octets with a dot after each; nothing
\* else, however long its parts or how many of them there are.
THEOREM AcceptedAddresses ==
  ASSUME NEW ip \in Seq(Character)
  PROVE  isValidIpv4(ip) <=>
           \/ ip = <<>>
           \/ \E parts \in Seq(Seq(Character)) :
                (DottedQuad(parts) \/ TrailingDot(parts)) /\ ip = Joined(parts)
<1>1. ASSUME checkIpv4(ip)
      PROVE  \E parts \in Seq(Seq(Character)) :
               (DottedQuad(parts) \/ TrailingDot(parts)) /\ ip = Joined(parts)
  <2>1. ip \in Before(Before(Before(LastPart)))
    BY <1>1, AcceptedTexts
  <2>2. PICK a \in Octets, s \in Before(Before(LastPart)) : ip = Dotted(a, s)
    BY <2>1 DEF Before
  <2>3. PICK b \in Octets, t \in Before(LastPart) : s = Dotted(b, t)
    BY DEF Before
  <2>4. PICK c \in Octets, d \in LastPart : t = Dotted(c, d)
    BY DEF Before
  <2>5. PICK parts : parts = <<a, b, c, d>>
    OBVIOUS
  <2>6. parts \in Seq(Seq(Character)) /\ Len(parts) = 4
    <3>1. /\ a \in Seq(Character) /\ b \in Seq(Character)
          /\ c \in Seq(Character) /\ d \in Seq(Character)
      BY OctetFacts, EmptySeq DEF LastPart
    <3> QED
      BY <2>5, <3>1
  <2>7. parts[1] = a /\ parts[2] = b /\ parts[3] = c /\ parts[4] = d
    BY <2>5
  <2>8. \A i \in 1..3 : parts[i] \in Octets
    <3>1. \A i \in 1..3 : i = 1 \/ i = 2 \/ i = 3
      OBVIOUS
    <3> QED
      BY <2>7, <3>1
  <2>9. ip = Joined(parts)
    BY <2>2, <2>3, <2>4, <2>6, <2>7, <2>8, JoinedQuad DEF Texts
  <2>10. DottedQuad(parts) \/ TrailingDot(parts)
    <3>1. \A i \in 1..4 : i \in 1..3 \/ i = 4
      OBVIOUS
    <3> QED
      BY <2>6, <2>7, <2>8, <3>1 DEF DottedQuad, TrailingDot, LastPart
  <2> QED
    BY <2>6, <2>9, <2>10
<1>2. ASSUME NEW parts \in Seq(Seq(Character)), DottedQuad(parts) \/ TrailingDot(parts),
             ip = Joined(parts)
      PROVE  checkIpv4(ip)
  <2>1. /\ Len(parts) = 4 /\ (\A i \in 1..3 : parts[i] \in Octets)
        /\ parts[4] \in LastPart
    BY <1>2 DEF DottedQuad, TrailingDot, LastPart
  <2>2. ip = Dotted(parts[1], Dotted(parts[2], Dotted(parts[3], parts[4])))
    BY <1>2, <2>1, JoinedQuad DEF Texts
  <2>3. ip \in Before(Before(Before(LastPart)))
    <3>1. Dotted(parts[3], parts[4]) \in Before(LastPart)
      BY <2>1 DEF Before
    <3>2. Dotted(parts[2], Dotted(parts[3], parts[4])) \in Before(Before(LastPart))
      BY <2>1, <3>1, SMTT(30) DEF Before
    <3> QED
      BY <2>1, <2>2, <3>2 DEF Before
  <2> QED
    BY <2>3, AcceptedTexts
<1> QED
  BY <1>1, <1>2 DEF isValidIpv4

\* A text without a dot.
Plain(text) == text \in Texts /\ \A i \in 1..Len(text) : text[i] # Dot

LEMMA OctetPlain ==
  ASSUME NEW a \in Octets
  PROVE  Plain(a)
<1>1. a \in Seq(0..9) /\ a \in Seq(Character)
  BY OctetFacts
<1>2. \A i \in 1..Len(a) : a[i] \in 0..9
  BY <1>1, ElementOfSeq
<1> QED
  BY <1>1, <1>2 DEF Plain, Texts, Dot

\* What is before the first dot of a text, and what is behind it.
LEMMA SplitOnce ==
  ASSUME NEW a, Plain(a), NEW b, Plain(b), NEW s \in Texts, NEW t \in Texts
  PROVE  /\ a # Dotted(b, t)
         /\ Dotted(a, s) = Dotted(b, t) => a = b /\ s = t
<1> DEFINE n == Len(a)
           m == Len(b)
           x == Dotted(a, s)
           y == Dotted(b, t)
<1>1. /\ a \in Seq(Character) /\ b \in Seq(Character)
      /\ s \in Seq(Character) /\ t \in Seq(Character)
      /\ n \in Nat /\ m \in Nat /\ Len(s) \in Nat /\ Len(t) \in Nat
  BY LenProperties DEF Plain, Texts
<1>2. /\ x \in Seq(Character) /\ Len(x) = n + 1 + Len(s) /\ x[n + 1] = Dot
      /\ (\A i \in 1..n : x[i] = a[i]) /\ \A i \in 1..Len(s) : x[n + 1 + i] = s[i]
  BY <1>1, DottedText
<1>3. /\ y \in Seq(Character) /\ Len(y) = m + 1 + Len(t) /\ y[m + 1] = Dot
      /\ (\A i \in 1..m : y[i] = b[i]) /\ \A i \in 1..Len(t) : y[m + 1 + i] = t[i]
  BY <1>1, DottedText
<1>4. (\A i \in 1..n : a[i] # Dot) /\ \A i \in 1..m : b[i] # Dot
  BY DEF Plain
<1> HIDE DEF n, m, x, y
<1>5. a # y
  <2> SUFFICES ASSUME a = y PROVE FALSE
    OBVIOUS
  <2>1. n = m + 1 + Len(t)
    BY <1>3 DEF n
  <2>2. m + 1 \in 1..n
    BY <1>1, <2>1
  <2> QED
    BY <1>3, <1>4, <2>2
<1>6. ASSUME x = y PROVE a = b /\ s = t
  <2>1. ~(n < m)
    <3> SUFFICES ASSUME n < m PROVE FALSE
      OBVIOUS
    <3>1. n + 1 \in 1..m
      BY <1>1
    <3> QED
      BY <1>2, <1>3, <1>4, <1>6, <3>1
  <2>2. ~(m < n)
    <3> SUFFICES ASSUME m < n PROVE FALSE
      OBVIOUS
    <3>1. m + 1 \in 1..n
      BY <1>1
    <3> QED
      BY <1>2, <1>3, <1>4, <1>6, <3>1
  <2>3. n = m
    BY <1>1, <2>1, <2>2
  <2>4. Len(s) = Len(t)
    <3>1. PICK k, l : k = Len(s) /\ l = Len(t)
      OBVIOUS
    <3>2. n + 1 + k = m + 1 + l /\ k \in Nat /\ l \in Nat
      BY <1>1, <1>2, <1>3, <1>6, <3>1
    <3> QED
      BY <1>1, <2>3, <3>1, <3>2
  <2>5. \A i \in 1..Len(a) : a[i] = b[i]
    BY <1>2, <1>3, <1>6, <2>3 DEF n
  <2>6. \A i \in 1..Len(s) : s[i] = t[i]
    BY <1>2, <1>3, <1>6, <2>3, <2>4
  <2>7. a = b
    BY <1>1, <2>3, <2>5, SeqEqual DEF n, m
  <2>8. s = t
    BY <1>1, <2>4, <2>6, SeqEqual
  <2> QED
    BY <2>7, <2>8
<1> QED
  BY <1>5, <1>6 DEF x, y

\* Parts without dots, of which there is one at least.
PlainParts(parts) ==
  parts \in Seq(Texts) /\ parts # <<>> /\ \A i \in 1..Len(parts) : Plain(parts[i])

\* The first of them is what is before the first dot of their text.
LEMMA FirstPart ==
  ASSUME NEW parts, PlainParts(parts), NEW a, Plain(a), NEW t \in Texts,
         Joined(parts) = Dotted(a, t)
  PROVE  /\ Len(parts) > 1 /\ parts[1] = a
         /\ PlainParts(Tail(parts)) /\ Joined(Tail(parts)) = t
<1>1. /\ Len(parts) \in Nat \ {0} /\ Tail(parts) \in Seq(Texts)
      /\ Len(Tail(parts)) = Len(parts) - 1
      /\ \A i \in 1..(Len(parts) - 1) : Tail(parts)[i] = parts[i + 1]
  BY TailFacts DEF PlainParts
<1>2. /\ Len(parts) = 1 => Joined(parts) = parts[1]
      /\ Len(parts) > 1 => Joined(parts) = Dotted(parts[1], Joined(Tail(parts)))
  BY JoinedFirst DEF PlainParts
<1> DEFINE n == Len(parts)
<1>3. \A i \in 1..n : Plain(parts[i])
  BY DEF PlainParts
<1>4. n \in Nat \ {0}
  BY <1>1
<1>5. n > 1
  <2>0. \A i \in Nat \ {0} : i # 1 => i > 1
    OBVIOUS
  <2> SUFFICES ASSUME n = 1 PROVE FALSE
    BY <1>4, <2>0
  <2>1. Plain(parts[1]) /\ parts[1] = Dotted(a, t)
    BY <1>2, <1>3
  <2> QED
    BY <2>1, SplitOnce
<1>6. Tail(parts) # <<>>
  <2>1. Len(<<>>) = 0 /\ Len(Tail(parts)) = n - 1 /\ n - 1 # 0
    BY <1>1, <1>4, <1>5, SMTT(40)
  <2> QED
    BY <2>1
<1>7. PlainParts(Tail(parts))
  <2>1. \A i \in 1..(n - 1) : i + 1 \in 1..n
    BY <1>4
  <2>2. \A i \in 1..Len(Tail(parts)) : Plain(Tail(parts)[i])
    BY <1>1, <1>3, <2>1
  <2> QED
    BY <1>1, <1>6, <2>2 DEF PlainParts
<1>8. Joined(Tail(parts)) \in Texts
  BY <1>1, <1>6, JoinedFirst DEF Texts
<1>9. Plain(parts[1]) /\ Dotted(parts[1], Joined(Tail(parts))) = Dotted(a, t)
  BY <1>2, <1>3, <1>4, <1>5
<1>10. PICK u : u = Joined(Tail(parts))
  OBVIOUS
<1>11. PICK b : b = parts[1]
  OBVIOUS
<1>12. b = a /\ u = t
  BY <1>8, <1>9, <1>10, <1>11, SplitOnce
<1> QED
  BY <1>5, <1>7, <1>10, <1>11, <1>12

\* Four parts are the only parts of their text.
LEMMA QuadOnce ==
  ASSUME NEW parts, PlainParts(parts), NEW quad, PlainParts(quad), Len(quad) = 4,
         Joined(parts) = Joined(quad)
  PROVE  parts = quad
<1>1. \A i \in 1..4 : Plain(quad[i]) /\ quad[i] \in Texts
  BY DEF PlainParts, Plain
<1>2. PICK a, b, c, d : a = quad[1] /\ b = quad[2] /\ c = quad[3] /\ d = quad[4]
  OBVIOUS
<1>3. /\ Plain(a) /\ Plain(b) /\ Plain(c) /\ Plain(d)
      /\ a \in Texts /\ b \in Texts /\ c \in Texts /\ d \in Texts
  BY <1>1, <1>2
<1>4. PICK t : t = Dotted(c, d)
  OBVIOUS
<1>5. PICK u : u = Dotted(b, t)
  OBVIOUS
<1>6. t \in Texts
  BY <1>3, <1>4, DottedText DEF Texts
<1>7. u \in Texts
  BY <1>3, <1>5, <1>6, DottedText DEF Texts
<1>8. Joined(parts) = Dotted(a, u)
  BY <1>2, <1>4, <1>5, JoinedQuad DEF PlainParts
<1>9. PICK q : q = Tail(parts)
  OBVIOUS
<1>10. Len(parts) > 1 /\ parts[1] = a /\ PlainParts(q) /\ Joined(q) = Dotted(b, t)
  BY <1>3, <1>5, <1>7, <1>8, <1>9, FirstPart
<1>11. PICK r : r = Tail(q)
  OBVIOUS
<1>12. Len(q) > 1 /\ q[1] = b /\ PlainParts(r) /\ Joined(r) = Dotted(c, d)
  BY <1>3, <1>4, <1>6, <1>10, <1>11, FirstPart
<1>13. PICK s : s = Tail(r)
  OBVIOUS
<1>14. Len(r) > 1 /\ r[1] = c /\ PlainParts(s) /\ Joined(s) = d
  BY <1>3, <1>12, <1>13, FirstPart
<1>15. ASSUME NEW x, PlainParts(x)
       PROVE  /\ x \in Seq(Texts) /\ Len(x) \in Nat \ {0} /\ Len(Tail(x)) = Len(x) - 1
              /\ \A i \in 1..(Len(x) - 1) : Tail(x)[i] = x[i + 1]
  BY <1>15, TailFacts DEF PlainParts
<1>16. Len(s) = 1 /\ s[1] = d
  <2>1. Len(s) \in Nat \ {0}
    BY <1>14, <1>15
  <2>2. CASE Len(s) > 1
    <3>1. Joined(s) = Dotted(s[1], Joined(Tail(s)))
      BY <1>14, <2>2, JoinedFirst DEF PlainParts
    <3>2. PICK e, v : e = s[1] /\ v = Joined(Tail(s))
      OBVIOUS
    <3>3. Plain(e)
      <4>1. 1 \in 1..Len(s)
        BY <2>1
      <4> QED
        BY <1>14, <3>2, <4>1 DEF PlainParts
    <3>4. v \in Texts
      <4>1. Tail(s) \in Seq(Texts) /\ Tail(s) # <<>>
        <5>1. s \in Seq(Texts) /\ s # <<>>
          BY <1>14 DEF PlainParts
        <5>2. Tail(s) \in Seq(Texts) /\ Len(Tail(s)) = Len(s) - 1
          BY <5>1, TailFacts
        <5>3. Len(Tail(s)) # 0 /\ Len(<<>>) = 0
          <6>1. \A n \in Nat : n > 1 => n - 1 # 0
            OBVIOUS
          <6>2. Len(s) - 1 # 0
            BY <2>1, <2>2, <6>1
          <6> QED
            BY <5>2, <6>2
        <5> QED
          BY <5>2, <5>3
      <4> QED
        BY <3>2, <4>1, JoinedFirst DEF Texts
    <3>5. d # Dotted(e, v)
      BY <1>3, <3>3, <3>4, SplitOnce
    <3> QED
      BY <1>14, <3>1, <3>2, <3>5
  <2>3. CASE Len(s) = 1
    BY <1>14, <2>3, JoinedFirst DEF PlainParts
  <2>4. \A n \in Nat \ {0} : n > 1 \/ n = 1
    OBVIOUS
  <2>5. Len(s) > 1 \/ Len(s) = 1
    BY <2>1, <2>4
  <2> QED
    BY <2>2, <2>3, <2>5
<1>17. Len(r) = 2 /\ Len(q) = 3 /\ Len(parts) = 4
  <2>1. Len(r) - 1 = 1 /\ Len(r) \in Nat
    BY <1>12, <1>13, <1>15, <1>16
  <2>2. Len(r) = 2
    BY <2>1
  <2>3. Len(q) - 1 = 2 /\ Len(q) \in Nat
    BY <1>10, <1>11, <1>15, <2>2
  <2>4. Len(q) = 3
    BY <2>3
  <2>5. Len(parts) - 1 = 3 /\ Len(parts) \in Nat
    BY <1>9, <1>15, <2>4
  <2> QED
    BY <2>2, <2>4, <2>5
<1>18. parts[2] = b /\ parts[3] = c /\ parts[4] = d
  <2>1. \A i \in 1..3 : q[i] = parts[i + 1]
    BY <1>9, <1>15, <1>17
  <2>2. \A i \in 1..2 : r[i] = q[i + 1]
    BY <1>10, <1>11, <1>15, <1>17
  <2>3. \A i \in 1..1 : s[i] = r[i + 1]
    <3>1. Len(r) - 1 = 1
      BY <1>17
    <3>2. \A i \in 1..(Len(r) - 1) : Tail(r)[i] = r[i + 1]
      BY <1>12, <1>15
    <3> QED
      BY <1>13, <3>1, <3>2
  <2>4. q[1] = parts[1 + 1] /\ q[2] = parts[2 + 1] /\ q[3] = parts[3 + 1]
    BY <2>1
  <2>5. r[1] = q[1 + 1] /\ r[2] = q[2 + 1] /\ s[1] = r[1 + 1]
    BY <2>2, <2>3
  <2> QED
    BY <1>12, <1>14, <1>16, <2>4, <2>5
<1>19. \A i \in 1..4 : parts[i] = quad[i]
  <2>1. \A i \in 1..4 : i = 1 \/ i = 2 \/ i = 3 \/ i = 4
    OBVIOUS
  <2> QED
    BY <1>2, <1>10, <1>18, <2>1
<1>20. parts \in Seq(Texts) /\ quad \in Seq(Texts)
  BY DEF PlainParts
<1> QED
  BY <1>17, <1>19, <1>20, SeqEqual

\* The same said of the parts of a text: it is accepted exactly if it is empty or they are
\* four octets, or three and nothing.
THEOREM AcceptedParts ==
  ASSUME NEW parts, PlainParts(parts)
  PROVE  isValidIpv4(Joined(parts))
           <=> DottedQuad(parts) \/ TrailingDot(parts) \/ Joined(parts) = <<>>
<1>1. parts \in Seq(Texts) /\ Joined(parts) \in Seq(Character)
  BY JoinedFirst DEF PlainParts
<1>2. isValidIpv4(Joined(parts)) <=>
        \/ Joined(parts) = <<>>
        \/ \E q \in Seq(Seq(Character)) :
             (DottedQuad(q) \/ TrailingDot(q)) /\ Joined(parts) = Joined(q)
  BY <1>1, AcceptedAddresses
<1>3. ASSUME NEW q \in Seq(Seq(Character)), DottedQuad(q) \/ TrailingDot(q),
             Joined(parts) = Joined(q)
      PROVE  parts = q
  <2>1. /\ Len(q) = 4 /\ (\A i \in 1..3 : q[i] \in Octets)
        /\ q[4] \in Octets \/ q[4] = <<>>
    BY <1>3 DEF DottedQuad, TrailingDot
  <2>2. Plain(<<>>)
    BY DEF Plain, Texts
  <2>3. \A i \in 1..4 : Plain(q[i])
    <3>1. \A i \in 1..4 : i \in 1..3 \/ i = 4
      OBVIOUS
    <3> QED
      BY <2>1, <2>2, <3>1, OctetPlain
  <2>4. q # <<>>
    <3>1. Len(<<>>) = 0 /\ Len(q) # 0
      BY <2>1
    <3> QED
      BY <3>1
  <2>5. PlainParts(q)
    BY <2>1, <2>3, <2>4 DEF PlainParts, Texts
  <2> QED
    BY <1>3, <2>1, <2>5, QuadOnce
<1> QED
  BY <1>1, <1>2, <1>3 DEF Texts

\* The parts that are chosen have no dot.
PartsChosen == kind = "address" => PlainParts(input.parts)

LEMMA PartTextsPlain ==
  ASSUME NEW n \in Nat \ {0}, NEW parts \in [1..n -> PartTexts]
  PROVE  PlainParts(parts)
<1>1. ASSUME NEW t \in PartTexts PROVE Plain(t)
  <2> DEFINE C == Character \ {Dot}
  <2>1. C \in SUBSET Character /\ \A x \in C : x # Dot
    OBVIOUS
  <2>2. {0, 1, 2, 5, 6, 7, 9, Other} \in SUBSET C
    BY DEF Character, Dot, Other
  <2>3. \/ t = <<>>
        \/ \E x \in C : t = <<x>>
        \/ \E x, y \in C : t = <<x, y>>
        \/ \E x, y, z \in C : t = <<x, y, z>>
        \/ \E x, y, z, u \in C : t = <<x, y, z, u>>
    BY <2>2 DEF PartTexts
  <2> HIDE DEF C
  <2>4. t \in Seq(C)
    <3>1. ASSUME NEW x \in C PROVE <<x>> \in Seq(C)
      OBVIOUS
    <3>2. ASSUME NEW x \in C, NEW y \in C PROVE <<x, y>> \in Seq(C)
      OBVIOUS
    <3>3. ASSUME NEW x \in C, NEW y \in C, NEW z \in C PROVE <<x, y, z>> \in Seq(C)
      OBVIOUS
    <3>4. ASSUME NEW x \in C, NEW y \in C, NEW z \in C, NEW u \in C
          PROVE  <<x, y, z, u>> \in Seq(C)
      OBVIOUS
    <3> QED
      BY <2>3, <3>1, <3>2, <3>3, <3>4, EmptySeq, ZenonT(60)
  <2>5. t \in Seq(Character)
    BY <2>1, <2>4, SeqMonotonic
  <2>6. \A i \in 1..Len(t) : t[i] \in C
    BY <2>4, ElementOfSeq
  <2> QED
    BY <2>1, <2>5, <2>6 DEF Plain, Texts
<1>2. PartTexts \in SUBSET Texts
  BY <1>1 DEF Plain
<1>3. parts \in Seq(Texts) /\ Len(parts) = n
  BY <1>2
<1>4. \A i \in 1..Len(parts) : Plain(parts[i])
  BY <1>1, <1>3
<1>5. parts # <<>>
  <2>1. Len(<<>>) = 0 /\ Len(parts) # 0
    BY <1>3
  <2> QED
    BY <2>1
<1> QED
  BY <1>3, <1>4, <1>5 DEF PlainParts

\* In every run isValidIpv4() accepts of the chosen texts what it should.
THEOREM AddressesAccepted == Spec => []AcceptsDottedQuads
<1>1. Init => PartsChosen
  BY DEF Init, PartsChosen
<1>2. PartsChosen /\ [Next]_vars => PartsChosen'
  <2> SUFFICES ASSUME PartsChosen, [Next]_vars, kind' = "address" PROVE PlainParts(input'.parts)
    BY DEF PartsChosen
  <2>1. CASE ChooseAddress
    <3>1. PICK n \in 1..5 : \E fixed \in [1..n -> {<<7>>, <<2, 5, 5>>}], i \in 1..n,
            part \in PartTexts, last \in {<<>>, <<0>>} :
            input' = [parts |-> [[fixed EXCEPT ![i] = part] EXCEPT ![n] =
                                   IF i = n THEN part ELSE IF last = <<>> THEN last ELSE @]]
      BY <2>1 DEF ChooseAddress
    <3>2. PICK fixed \in [1..n -> {<<7>>, <<2, 5, 5>>}], i \in 1..n,
            part \in PartTexts, last \in {<<>>, <<0>>} :
            input' = [parts |-> [[fixed EXCEPT ![i] = part] EXCEPT ![n] =
                                   IF i = n THEN part ELSE IF last = <<>> THEN last ELSE @]]
      BY <3>1
    <3>3. /\ fixed \in [1..n -> PartTexts] /\ <<>> \in PartTexts
      BY DEF PartTexts
    <3>4. input'.parts \in [1..n -> PartTexts]
      BY <3>2, <3>3
    <3> QED
      BY <3>4, PartTextsPlain
  <2>2. CASE ~ ChooseAddress
    BY <2>2 DEF Next, ChooseNumber, ChooseDigits, ChooseFeatures, PartsChosen, vars
  <2> QED
    BY <2>1, <2>2
<1>3. PartsChosen => AcceptsDottedQuads
  BY AcceptedParts DEF PartsChosen, AcceptsDottedQuads
<1> QED
  BY <1>1, <1>2, <1>3, PTL DEF Spec

-----------------------------------------------------------------------------
(* round_digit(). *)

\* A number is less than the next multiple.
LEMMA NextMultiple ==
  ASSUME NEW a \in Nat, NEW k \in Nat \ {0}
  PROVE  a \div k \in Nat /\ a < (a \div k + 1) * k
<1>1. PICK q \in Int : q = a \div k
  OBVIOUS
<1>2. PICK r \in 0..(k - 1) : r = a % k
  OBVIOUS
<1>3. a = k * q + r
  BY <1>1, <1>2
<1>4. (q + 1) * k = k * q + k
  OBVIOUS
<1>5. q >= 0
  BY <1>1
<1> QED
  BY <1>1, <1>2, <1>3, <1>4, <1>5

\* Multiples are ordered as what they are multiples of.
LEMMA MultiplesOrdered ==
  ASSUME NEW a \in Nat, NEW b \in Nat, NEW k \in Nat \ {0}, a * k <= b * k
  PROVE  a <= b
<1>1. SUFFICES ASSUME b < a PROVE FALSE
  OBVIOUS
<1>2. PICK c \in Nat : a = b + 1 + c
  <2>1. a - b - 1 \in Nat /\ a = b + 1 + (a - b - 1)
    BY <1>1
  <2> QED
    BY <2>1
<1>3. a * k = b * k + k + c * k
  BY <1>2
<1>4. c * k >= 0 /\ b * k \in Int /\ c * k \in Int
  OBVIOUS
<1> QED
  BY <1>3, <1>4

\* The loop of round_digit() ends: after its rounds its condition is false, for the first
\* time.
LEMMA RoundingStops ==
  ASSUME NEW delta \in Nat, NEW rem \in Nat, NEW kappa \in Nat \ {0}, NEW frac \in Nat
  PROVE  LET d == Decrements(delta, rem, kappa, frac) IN
         /\ d \in Nat
         /\ ~Rounds(delta, rem + d * kappa, kappa, frac)
         /\ \A i \in 0..(d - 1) : Rounds(delta, rem + i * kappa, kappa, frac)
<1> DEFINE N == {n \in Nat : ~Rounds(delta, rem + n * kappa, kappa, frac)}
<1>1. PICK q \in Nat : q = frac \div kappa /\ frac < (q + 1) * kappa
  BY NextMultiple
<1>2. q + 1 \in N
  <2>1. PICK m \in Int : m = (q + 1) * kappa
    OBVIOUS
  <2>2. ~ (rem + m < frac)
    BY <1>1, <2>1
  <2> QED
    BY <2>1, <2>2 DEF Rounds
<1>3. PICK n \in N : \A y \in N : n <= y
  <2>1. N \in SUBSET Nat /\ N # {}
    BY <1>2
  <2> HIDE DEF N
  <2> QED
    BY <2>1, LeastNumber
<1>4. n \in 0..(q + 1)
  <2>1. n \in Nat /\ n <= q + 1
    BY <1>2, <1>3
  <2> HIDE DEF N
  <2> QED
    BY <2>1
<1>5. \A i \in 0..(n - 1) : Rounds(delta, rem + i * kappa, kappa, frac)
  <2>1. TAKE i \in 0..(n - 1)
  <2>2. i \in Nat /\ ~ (n <= i)
    BY <1>3
  <2>3. i \notin N
    BY <1>3, <2>2
  <2> QED
    BY <2>2, <2>3
<1>6. ~Rounds(delta, rem + n * kappa, kappa, frac)
  BY <1>3
<1> DEFINE Halts(m) == /\ ~Rounds(delta, rem + m * kappa, kappa, frac)
                       /\ \A i \in 0..(m - 1) : Rounds(delta, rem + i * kappa, kappa, frac)
<1>7. Halts(n)
  BY <1>5, <1>6
<1>8. Decrements(delta, rem, kappa, frac) = CHOOSE m \in 0..(q + 1) : Halts(m)
  BY <1>1 DEF Decrements
<1>9. PICK d : d = Decrements(delta, rem, kappa, frac)
  OBVIOUS
<1>10. d \in 0..(q + 1) /\ Halts(d)
  <2> HIDE DEF Halts
  <2> QED
    BY <1>4, <1>7, <1>8, <1>9
<1> QED
  BY <1>9, <1>10

\* round_digit() ends, and is right to: with the remainder inside the interval and the
\* interval no wider than the remainder and what the last digit stands for (generate_digits()
\* would have stopped a digit earlier otherwise), the last digit stays a digit, and the
\* number stays inside the interval (delta - rem, which is unsigned, never wraps around).
THEOREM RoundingKeepsDigit ==
  ASSUME NEW delta \in Nat, NEW rem \in Nat, NEW kappa \in Nat \ {0}, NEW frac \in Nat,
         NEW digit \in 0..9, rem <= delta, delta <= rem + digit * kappa
  PROVE  LET d == Decrements(delta, rem, kappa, frac) IN
         /\ digit - d \in 0..9
         /\ rem + d * kappa <= delta
         /\ ~Rounds(delta, rem + d * kappa, kappa, frac)
         /\ \A i \in 0..(d - 1) : Rounds(delta, rem + i * kappa, kappa, frac)
<1>1. PICK d : d = Decrements(delta, rem, kappa, frac)
  OBVIOUS
<1>2. /\ d \in Nat
      /\ ~Rounds(delta, rem + d * kappa, kappa, frac)
      /\ \A i \in 0..(d - 1) : Rounds(delta, rem + i * kappa, kappa, frac)
  BY <1>1, RoundingStops
<1>3. rem + d * kappa <= delta
  <2>1. CASE d = 0
    BY <2>1
  <2>2. CASE d # 0
    <3>1. PICK i \in 0..(d - 1) : d = i + 1
      <4>1. d - 1 \in 0..(d - 1) /\ d = (d - 1) + 1
        BY <1>2, <2>2
      <4> QED
        BY <4>1
    <3>2. Rounds(delta, rem + i * kappa, kappa, frac)
      BY <1>2, <3>1
    <3>3. delta - (rem + i * kappa) >= kappa
      BY <3>2 DEF Rounds
    <3>4. (i + 1) * kappa = i * kappa + kappa /\ i * kappa \in Int
      OBVIOUS
    <3> QED
      BY <3>1, <3>3, <3>4
  <2> QED
    BY <2>1, <2>2
<1>4. d <= digit
  <2>1. d * kappa \in Int /\ digit * kappa \in Int
    BY <1>2
  <2>2. d * kappa <= digit * kappa
    BY <1>3, <2>1
  <2> QED
    BY <1>2, <2>2, MultiplesOrdered
<1> QED
  BY <1>1, <1>2, <1>3, <1>4

-----------------------------------------------------------------------------
(* Recursion over numbers. *)

\* What the first n rounds make of start, round k with T[k].
Chain(g, V, start, T, n) ==
  g \in [0..n -> V] /\ g[0] = start /\ \A k \in 1..n : g[k] = T[k][g[k - 1]]

LEMMA ChainExists ==
  ASSUME NEW V, NEW start \in V, NEW T \in [Nat -> [V -> V]], NEW n \in Nat
  PROVE  \E g : Chain(g, V, start, T, n)
<1> DEFINE M == {m \in Nat : \E g : Chain(g, V, start, T, m)}
<1>1. 0 \in M
  <2>1. Chain([k \in 0..0 |-> start], V, start, T, 0)
    BY DEF Chain
  <2> QED
    BY <2>1
<1>2. ASSUME NEW m \in M PROVE m + 1 \in M
  <2>1. PICK g : Chain(g, V, start, T, m)
    OBVIOUS
  <2>2. g \in [0..m -> V] /\ g[0] = start /\ \A k \in 1..m : g[k] = T[k][g[k - 1]]
    BY <2>1 DEF Chain
  <2>3. m \in Nat /\ m \in 0..m /\ m + 1 \in Nat
    OBVIOUS
  <2>4. PICK last : last = T[m + 1][g[m]]
    OBVIOUS
  <2>5. last \in V
    BY <2>2, <2>3, <2>4
  <2>6. PICK h : h = [k \in 0..(m + 1) |-> IF k <= m THEN g[k] ELSE last]
    OBVIOUS
  <2>7. \A k \in 0..(m + 1) : k <= m => k \in 0..m
    BY <2>3
  <2>8. h \in [0..(m + 1) -> V]
    BY <2>2, <2>5, <2>6, <2>7
  <2>9. h[0] = start
    BY <2>2, <2>3, <2>6
  <2>10. ASSUME NEW k \in 1..(m + 1) PROVE h[k] = T[k][h[k - 1]]
    <3>1. k \in 0..(m + 1) /\ k - 1 \in 0..(m + 1) /\ k - 1 <= m
      BY <2>3
    <3>2. h[k - 1] = g[k - 1]
      BY <2>6, <3>1
    <3>3. CASE k <= m
      <4>1. k \in 1..m
        BY <2>3, <3>3
      <4> QED
        BY <2>2, <2>6, <3>1, <3>2, <3>3, <4>1
    <3>4. CASE ~(k <= m)
      <4>1. k = m + 1 /\ k - 1 = m
        BY <2>3, <3>4
      <4> QED
        BY <2>4, <2>6, <3>1, <3>2, <3>4, <4>1
    <3> QED
      BY <3>3, <3>4
  <2>11. Chain(h, V, start, T, m + 1)
    BY <2>8, <2>9, <2>10 DEF Chain
  <2> QED
    BY <2>3, <2>11
<1>3. M \in SUBSET Nat /\ \A m \in M : m + 1 \in M
  BY <1>2
<1> HIDE DEF M
<1>4. n \in M
  BY <1>1, <1>3, Successors
<1> QED
  BY <1>4 DEF M

LEMMA ChainUnique ==
  ASSUME NEW V, NEW start, NEW T, NEW n \in Nat, NEW m \in Nat, NEW g, NEW h,
         Chain(g, V, start, T, n), Chain(h, V, start, T, m), NEW k \in Nat, k <= n, k <= m
  PROVE  g[k] = h[k]
<1> DEFINE M == {i \in Nat : i <= n /\ i <= m => g[i] = h[i]}
<1>1. /\ g[0] = start /\ \A i \in 1..n : g[i] = T[i][g[i - 1]]
      /\ h[0] = start /\ \A i \in 1..m : h[i] = T[i][h[i - 1]]
  BY DEF Chain
<1>2. 0 \in M
  BY <1>1
<1>3. ASSUME NEW i \in M PROVE i + 1 \in M
  <2>1. i \in Nat /\ i + 1 \in Nat /\ (i + 1) - 1 = i
    OBVIOUS
  <2>2. ASSUME i + 1 <= n, i + 1 <= m PROVE g[i + 1] = h[i + 1]
    <3>1. i + 1 \in 1..n /\ i + 1 \in 1..m /\ i <= n /\ i <= m
      BY <2>1, <2>2
    <3>2. g[i] = h[i]
      BY <3>1
    <3> QED
      BY <1>1, <2>1, <3>1, <3>2
  <2> QED
    BY <2>1, <2>2
<1>4. M \in SUBSET Nat /\ \A i \in M : i + 1 \in M
  BY <1>3
<1> HIDE DEF M
<1>5. k \in M
  BY <1>2, <1>4, Successors
<1> QED
  BY <1>5 DEF M

\* A function is defined by its first value and how each value follows from the one before.
Recursion(f, start, T) == f = [n \in Nat |-> IF n = 0 THEN start ELSE T[n][f[n - 1]]]

LEMMA RecursionExists ==
  ASSUME NEW V, NEW start \in V, NEW T \in [Nat -> [V -> V]]
  PROVE  \E f \in [Nat -> V] : Recursion(f, start, T)
<1> DEFINE chain(n) == CHOOSE g : Chain(g, V, start, T, n)
<1>1. ASSUME NEW n \in Nat PROVE Chain(chain(n), V, start, T, n)
  BY ChainExists
<1>2. PICK f : f = [n \in Nat |-> chain(n)[n]]
  OBVIOUS
<1> HIDE DEF chain
<1>3. ASSUME NEW n \in Nat PROVE f[n] = chain(n)[n] /\ f[n] \in V
  <2>1. n \in 0..n
    OBVIOUS
  <2>2. chain(n) \in [0..n -> V]
    BY <1>1 DEF Chain
  <2> QED
    BY <1>2, <2>1, <2>2
<1>4. f[0] = start
  BY <1>1, <1>3 DEF Chain
<1>5. ASSUME NEW n \in Nat, n # 0 PROVE f[n] = T[n][f[n - 1]]
  <2>1. n - 1 \in Nat /\ n - 1 <= n /\ n - 1 <= n - 1 /\ n \in 1..n
    BY <1>5
  <2>2. chain(n)[n] = T[n][chain(n)[n - 1]]
    BY <1>1, <2>1 DEF Chain
  <2>3. chain(n)[n - 1] = chain(n - 1)[n - 1]
    <3>1. PICK m \in Nat : m = n - 1
      BY <2>1
    <3>2. Chain(chain(n), V, start, T, n) /\ Chain(chain(m), V, start, T, m) /\ m <= n /\ m <= m
      BY <1>1, <2>1, <3>1
    <3>3. chain(n)[m] = chain(m)[m]
      BY <3>2, ChainUnique
    <3> QED
      BY <3>1, <3>3
  <2> QED
    BY <1>3, <2>1, <2>2, <2>3
<1>6. f \in [Nat -> V]
  BY <1>2, <1>3
<1>7. \A n \in Nat : f[n] = IF n = 0 THEN start ELSE T[n][f[n - 1]]
  BY <1>4, <1>5
<1>8. f = [n \in Nat |-> f[n]]
  BY <1>2
<1>9. Recursion(f, start, T)
  BY <1>7, <1>8 DEF Recursion
<1> QED
  BY <1>6, <1>9

-----------------------------------------------------------------------------
(* Powers of ten. *)

LEMMA TensFacts ==
  /\ Tens[0] = 1
  /\ \A n \in Nat : Tens[n] \in Nat \ {0} /\ Tens[n + 1] = 10 * Tens[n] /\ n < Tens[n]
<1> DEFINE V == Nat \ {0}
           T == [n \in Nat |-> [x \in V |-> 10 * x]]
           Solves(f) == f = [n \in Nat |-> IF n = 0 THEN 1 ELSE 10 * f[n - 1]]
<1>1. T \in [Nat -> [V -> V]] /\ 1 \in V
  OBVIOUS
<1>2. ASSUME NEW n \in Nat, NEW x \in V PROVE T[n][x] = 10 * x
  OBVIOUS
<1> HIDE DEF V, T
<1>3. PICK f \in [Nat -> V] : Recursion(f, 1, T)
  BY <1>1, RecursionExists
<1>4. Solves(f)
  <2>1. ASSUME NEW n \in Nat PROVE f[n] = IF n = 0 THEN 1 ELSE 10 * f[n - 1]
    <3>1. f[n] = IF n = 0 THEN 1 ELSE T[n][f[n - 1]]
      BY <1>3 DEF Recursion
    <3>2. n # 0 => n - 1 \in Nat
      OBVIOUS
    <3>3. n # 0 => T[n][f[n - 1]] = 10 * f[n - 1]
      BY <1>2, <1>3, <3>2
    <3> QED
      BY <3>1, <3>3
  <2>2. f = [n \in Nat |-> f[n]]
    OBVIOUS
  <2> QED
    BY <2>1, <2>2
<1>5. Tens = CHOOSE g : Solves(g)
  BY DEF Tens
<1>6. Solves(Tens)
  <2> HIDE DEF Solves
  <2> QED
    BY <1>4, <1>5
<1>7. \A n \in Nat : Tens[n] = IF n = 0 THEN 1 ELSE 10 * Tens[n - 1]
  BY <1>6
<1>8. Tens[0] = 1
  BY <1>7
<1>9. ASSUME NEW n \in Nat PROVE Tens[n + 1] = 10 * Tens[n]
  <2>1. n + 1 \in Nat /\ n + 1 # 0 /\ (n + 1) - 1 = n
    OBVIOUS
  <2> QED
    BY <1>7, <2>1
<1> DEFINE M == {n \in Nat : Tens[n] \in Nat \ {0} /\ n < Tens[n]}
<1>10. 0 \in M
  BY <1>8
<1>11. ASSUME NEW n \in M PROVE n + 1 \in M
  BY <1>9
<1>12. M \in SUBSET Nat /\ \A n \in M : n + 1 \in M
  BY <1>11
<1> HIDE DEF M
<1>13. \A n \in Nat : n \in M
  BY <1>10, <1>12, Successors
<1> QED
  BY <1>8, <1>9, <1>13 DEF M

-----------------------------------------------------------------------------
(* The rounds of generate_digits(). *)

Rounding == [digits : Seq(Nat), part1 : Nat, part2 : 0..(One - 1)]

Begun(upper) == [digits |-> <<>>, part1 |-> upper \div One, part2 |-> upper % One]

NextRound(st, n) == IF n <= Kappa THEN Integral(st, Kappa - n) ELSE Fractional(st)

LEMMA GrisuConstants == One \in Nat \ {0} /\ Kappa \in Nat \ {0}
BY GrisuAssumption

\* A quotient and its remainder.
LEMMA Divided ==
  ASSUME NEW a \in Nat, NEW k \in Nat \ {0}
  PROVE  /\ a \div k \in Nat /\ a % k \in 0..(k - 1)
         /\ a = (a \div k) * k + (a % k)
OBVIOUS

LEMMA PushedDigits ==
  ASSUME NEW s \in Seq(Nat), NEW d \in Nat
  PROVE  Pushed(s, d) \in Seq(Nat)
BY AppendProperties DEF Pushed

LEMMA RoundKeepsType ==
  ASSUME NEW st \in Rounding, NEW n \in Nat
  PROVE  NextRound(st, n) \in Rounding
<1>1. st.digits \in Seq(Nat) /\ st.part1 \in Nat /\ st.part2 \in 0..(One - 1)
  BY DEF Rounding
<1>2. CASE n <= Kappa
  <2>1. PICK k \in Nat : k = Kappa - n
    BY <1>2, GrisuConstants
  <2>2. PICK unit \in Nat \ {0} : unit = Tens[k]
    BY TensFacts
  <2>3. st.part1 \div unit \in Nat /\ st.part1 % unit \in Nat
    <3>1. PICK a \in Nat : a = st.part1
      BY <1>1
    <3>2. a \div unit \in Nat /\ a % unit \in 0..(unit - 1)
      BY Divided
    <3> QED
      BY <3>1, <3>2
  <2>4. Pushed(st.digits, st.part1 \div unit) \in Seq(Nat)
    BY <1>1, <2>3, PushedDigits
  <2>5. NextRound(st, n) = [st EXCEPT !.digits = Pushed(@, st.part1 \div unit), !.part1 = @ % unit]
    BY <1>2, <2>1, <2>2 DEF NextRound, Integral
  <2> QED
    BY <2>3, <2>4, <2>5 DEF Rounding
<1>3. CASE ~(n <= Kappa)
  <2>1. PICK ten \in Nat : ten = st.part2 * 10
    BY <1>1, GrisuConstants
  <2>2. ten \div One \in Nat /\ ten % One \in 0..(One - 1)
    BY <2>1, Divided, GrisuConstants
  <2>3. Pushed(st.digits, ten \div One) \in Seq(Nat)
    BY <1>1, <2>2, PushedDigits
  <2>4. NextRound(st, n) = [st EXCEPT !.digits = Pushed(@, ten \div One), !.part2 = ten % One]
    BY <1>3, <2>1 DEF NextRound, Fractional
  <2> QED
    BY <2>2, <2>3, <2>4 DEF Rounding
<1> QED
  BY <1>2, <1>3

\* What the rounds make of upper follows from round to round.
LEMMA GeneratedRounds ==
  ASSUME NEW upper \in Nat
  PROVE  LET after == Generated(upper) IN
         /\ after[0] = Begun(upper)
         /\ \A n \in Nat : after[n] \in Rounding /\ after[n + 1] = NextRound(after[n], n + 1)
<1> DEFINE T == [n \in Nat |-> [st \in Rounding |-> NextRound(st, n)]]
           Solves(f) ==
             f = [n \in Nat |->
                    IF n = 0 THEN [digits |-> <<>>, part1 |-> upper \div One, part2 |-> upper % One]
                    ELSE IF n <= Kappa THEN Integral(f[n - 1], Kappa - n)
                    ELSE Fractional(f[n - 1])]
<1>1. T \in [Nat -> [Rounding -> Rounding]]
  BY RoundKeepsType
<1>2. ASSUME NEW n \in Nat, NEW st \in Rounding PROVE T[n][st] = NextRound(st, n)
  OBVIOUS
<1>3. Begun(upper) \in Rounding
  <2>1. upper \div One \in Nat /\ upper % One \in 0..(One - 1)
    BY Divided, GrisuConstants
  <2>2. <<>> \in Seq(Nat)
    OBVIOUS
  <2> QED
    BY <2>1, <2>2 DEF Begun, Rounding
<1> HIDE DEF T
<1>4. PICK f \in [Nat -> Rounding] : Recursion(f, Begun(upper), T)
  BY <1>1, <1>3, RecursionExists
<1>5. ASSUME NEW n \in Nat PROVE f[n] = IF n = 0 THEN Begun(upper) ELSE NextRound(f[n - 1], n)
  <2>1. f[n] = IF n = 0 THEN Begun(upper) ELSE T[n][f[n - 1]]
    BY <1>4 DEF Recursion
  <2>2. n # 0 => n - 1 \in Nat
    OBVIOUS
  <2>3. n # 0 => T[n][f[n - 1]] = NextRound(f[n - 1], n)
    BY <1>2, <1>4, <2>2
  <2> QED
    BY <2>1, <2>3
<1>6. Solves(f)
  <2>1. f = [n \in Nat |-> f[n]]
    OBVIOUS
  <2>2. \A n \in Nat :
          f[n] = IF n = 0 THEN [digits |-> <<>>, part1 |-> upper \div One, part2 |-> upper % One]
                 ELSE IF n <= Kappa THEN Integral(f[n - 1], Kappa - n)
                 ELSE Fractional(f[n - 1])
    BY <1>5 DEF Begun, NextRound
  <2> QED
    BY <2>1, <2>2
<1>7. Generated(upper) = CHOOSE g : Solves(g)
  BY DEF Generated
<1>8. PICK after : after = Generated(upper)
  OBVIOUS
<1>9. Solves(after)
  <2> HIDE DEF Solves
  <2> QED
    BY <1>6, <1>7, <1>8
<1>10. \A n \in Nat : after[n] = IF n = 0 THEN Begun(upper) ELSE NextRound(after[n - 1], n)
  <2>1. \A n \in Nat :
          after[n] = IF n = 0 THEN [digits |-> <<>>, part1 |-> upper \div One, part2 |-> upper % One]
                     ELSE IF n <= Kappa THEN Integral(after[n - 1], Kappa - n)
                     ELSE Fractional(after[n - 1])
    BY <1>9
  <2> QED
    BY <2>1 DEF Begun, NextRound
<1> HIDE DEF Solves
<1>11. ASSUME NEW n \in Nat PROVE after[n + 1] = NextRound(after[n], n + 1)
  <2>1. n + 1 \in Nat /\ n + 1 # 0 /\ (n + 1) - 1 = n
    OBVIOUS
  <2> QED
    BY <1>10, <2>1
<1> DEFINE M == {n \in Nat : after[n] \in Rounding}
<1>12. 0 \in M
  BY <1>3, <1>10
<1>13. ASSUME NEW n \in M PROVE n + 1 \in M
  BY <1>11, RoundKeepsType
<1>14. M \in SUBSET Nat /\ \A n \in M : n + 1 \in M
  BY <1>13
<1> HIDE DEF M
<1>15. \A n \in Nat : n \in M
  BY <1>12, <1>14, Successors
<1>16. \A n \in Nat : after[n] \in Rounding
  BY <1>15 DEF M
<1> QED
  BY <1>8, <1>10, <1>11, <1>16

-----------------------------------------------------------------------------
(* What digits stand for. *)

\* g holds the values of the prefixes of the n digits q.
Partials(q, n, g) == g[0] = 0 /\ \A k \in 1..n : g[k] = g[k - 1] * 10 + q[k]

Agree(q, r, n) == \A k \in 1..n : q[k] = r[k]

LEMMA ValueOfPrefixes ==
  ASSUME NEW q \in Seq(Nat), NEW n \in Nat, n = Len(q)
  PROVE  \E g : Partials(q, n, g) /\ Value(q) = g[n]
<1>1. q \in [1..n -> Nat]
  OBVIOUS
<1>2. Value(q) = Number(q)
  BY DEF Value, Number
<1>3. PICK g : g[0] = 0 /\ Number(q) = g[n] /\ \A k \in 1..n : g[k] = g[k - 1] * 10 + q[k]
  BY <1>1, NumberSteps
<1>4. Partials(q, n, g)
  BY <1>3 DEF Partials
<1> QED
  BY <1>2, <1>3, <1>4

LEMMA PrefixesAgree ==
  ASSUME NEW q, NEW r, NEW n \in Nat, NEW m \in Nat, NEW g, NEW h,
         Partials(q, n, g), Partials(r, m, h), NEW i \in Nat, i <= n, i <= m,
         Agree(q, r, i)
  PROVE  g[i] = h[i]
<1> DEFINE M == {k \in Nat : k <= i => g[k] = h[k]}
<1>1. /\ g[0] = 0 /\ \A k \in 1..n : g[k] = g[k - 1] * 10 + q[k]
      /\ h[0] = 0 /\ \A k \in 1..m : h[k] = h[k - 1] * 10 + r[k]
  BY DEF Partials
<1>0. \A k \in 1..i : q[k] = r[k]
  BY DEF Agree
<1>2. 0 \in M
  BY <1>1
<1>3. ASSUME NEW k \in M PROVE k + 1 \in M
  <2>1. k \in Nat /\ k + 1 \in Nat /\ (k + 1) - 1 = k
    OBVIOUS
  <2>2. ASSUME k + 1 <= i PROVE g[k + 1] = h[k + 1]
    <3>1. k + 1 \in 1..n /\ k + 1 \in 1..m /\ k + 1 \in 1..i /\ k <= i
      BY <2>1, <2>2
    <3>2. g[k] = h[k] /\ q[k + 1] = r[k + 1]
      BY <1>0, <3>1
    <3>3. g[k + 1] = g[k] * 10 + q[k + 1] /\ h[k + 1] = h[k] * 10 + r[k + 1]
      BY <1>1, <2>1, <3>1
    <3> QED
      BY <3>2, <3>3
  <2> QED
    BY <2>1, <2>2
<1>4. M \in SUBSET Nat /\ \A k \in M : k + 1 \in M
  BY <1>3
<1> HIDE DEF M
<1>5. i \in M
  BY <1>2, <1>4, Successors
<1> QED
  BY <1>5 DEF M

LEMMA PrefixesAreNumbers ==
  ASSUME NEW n \in Nat, NEW q \in [1..n -> Nat], NEW g, Partials(q, n, g), NEW i \in 0..n
  PROVE  g[i] \in Nat
<1> DEFINE M == {k \in Nat : k <= n => g[k] \in Nat}
<1>1. g[0] = 0 /\ \A k \in 1..n : g[k] = g[k - 1] * 10 + q[k]
  BY DEF Partials
<1>2. 0 \in M
  BY <1>1
<1>3. ASSUME NEW k \in M PROVE k + 1 \in M
  <2>1. k \in Nat /\ k + 1 \in Nat /\ (k + 1) - 1 = k
    OBVIOUS
  <2>2. ASSUME k + 1 <= n PROVE g[k + 1] \in Nat
    <3>1. k + 1 \in 1..n /\ k <= n
      BY <2>1, <2>2
    <3>2. g[k] \in Nat /\ q[k + 1] \in Nat
      BY <3>1
    <3>3. g[k + 1] = g[k] * 10 + q[k + 1]
      BY <1>1, <2>1, <3>1
    <3> QED
      BY <3>2, <3>3
  <2> QED
    BY <2>1, <2>2
<1>4. M \in SUBSET Nat /\ \A k \in M : k + 1 \in M
  BY <1>3
<1> HIDE DEF M
<1>5. i \in M
  <2>1. i \in Nat
    OBVIOUS
  <2> QED
    BY <1>2, <1>4, <2>1, Successors
<1> QED
  BY <1>5 DEF M

LEMMA ValueIsNumber ==
  ASSUME NEW q \in Seq(Nat)
  PROVE  Value(q) \in Nat
<1>1. PICK n \in Nat : n = Len(q)
  OBVIOUS
<1>2. q \in [1..n -> Nat] /\ n \in 0..n
  BY <1>1
<1>3. PICK g : Partials(q, n, g) /\ Value(q) = g[n]
  BY <1>1, ValueOfPrefixes
<1> QED
  BY <1>2, <1>3, PrefixesAreNumbers

LEMMA ValueOfNothing == Value(<<>>) = 0
<1>1. PICK q : q = <<>>
  OBVIOUS
<1>2. q \in Seq(Nat) /\ 0 = Len(q) /\ 0 \in Nat
  BY <1>1
<1>3. PICK g : Partials(q, 0, g) /\ Value(q) = g[0]
  BY <1>2, ValueOfPrefixes
<1> QED
  BY <1>1, <1>3 DEF Partials

\* One digit more.
LEMMA ValueOfAppended ==
  ASSUME NEW q \in Seq(Nat), NEW d \in Nat
  PROVE  Value(Append(q, d)) = Value(q) * 10 + d
<1>1. PICK n \in Nat : n = Len(q)
  OBVIOUS
<1>2. PICK r \in Seq(Nat) : r = Append(q, d)
  BY AppendProperties
<1>3. PICK m \in Nat : m = n + 1
  OBVIOUS
<1>4. m = Len(r) /\ r[m] = d /\ \A k \in 1..n : q[k] = r[k]
  BY <1>1, <1>2, <1>3, AppendProperties
<1>5. PICK g : Partials(q, n, g) /\ Value(q) = g[n]
  BY <1>1, ValueOfPrefixes
<1>6. PICK h : Partials(r, m, h) /\ Value(r) = h[m]
  BY <1>4, ValueOfPrefixes
<1>7. n <= n /\ n <= m
  BY <1>3
<1>8. g[n] = h[n]
  <2>1. Agree(q, r, n)
    BY <1>4 DEF Agree
  <2> QED
    BY <1>5, <1>6, <1>7, <2>1, PrefixesAgree
<1>9. m \in 1..m /\ m - 1 = n
  BY <1>3
<1>10. h[m] = h[m - 1] * 10 + r[m]
  BY <1>6, <1>9 DEF Partials
<1> QED
  BY <1>2, <1>4, <1>5, <1>6, <1>8, <1>9, <1>10

\* A smaller last digit.
LEMMA ValueOfDecremented ==
  ASSUME NEW q \in Seq(Nat), q # <<>>, NEW d \in Nat, q[Len(q)] - d \in Nat
  PROVE  Value([q EXCEPT ![Len(q)] = @ - d]) = Value(q) - d
<1>1. PICK n \in Nat : n = Len(q)
  OBVIOUS
<1>2. n \in 1..n /\ n # 0
  BY <1>1
<1>3. PICK last : last = q[n] - d
  OBVIOUS
<1>4. PICK r : r = [q EXCEPT ![n] = last]
  OBVIOUS
<1>5. r \in Seq(Nat) /\ Len(r) = n /\ r[n] = q[n] - d
  BY <1>1, <1>2, <1>3, <1>4
<1>6. PICK m \in Nat : m = n - 1
  BY <1>2
<1>7. m <= n /\ \A k \in 1..m : q[k] = r[k]
  BY <1>1, <1>4, <1>6
<1>8. PICK g : Partials(q, n, g) /\ Value(q) = g[n]
  BY <1>1, ValueOfPrefixes
<1>9. PICK h : Partials(r, n, h) /\ Value(r) = h[n]
  BY <1>5, ValueOfPrefixes
<1>10. g[m] = h[m]
  <2>1. Partials(q, n, g) /\ Partials(r, n, h)
    BY <1>8, <1>9
  <2>2. m \in Nat /\ n \in Nat /\ m <= n
    BY <1>7
  <2>3. Agree(q, r, m)
    BY <1>7 DEF Agree
  <2> QED
    BY <2>1, <2>2, <2>3, PrefixesAgree
<1>11. g[n] = g[m] * 10 + q[n] /\ h[n] = h[m] * 10 + r[n]
  BY <1>2, <1>6, <1>8, <1>9 DEF Partials
<1>12. g[m] \in Nat /\ q[n] \in Nat
  <2>1. q \in [1..n -> Nat] /\ m \in 0..n
    BY <1>1, <1>6
  <2> QED
    BY <1>2, <1>8, <2>1, PrefixesAreNumbers
<1>13. h[n] = g[n] - d
  <2>1. PICK a \in Nat : a = g[m]
    BY <1>12
  <2>2. PICK b \in Nat : b = q[n]
    BY <1>12
  <2>3. r[n] = b - d
    BY <1>5, <2>2
  <2>4. g[n] = a * 10 + b /\ h[n] = a * 10 + (b - d)
    BY <1>10, <1>11, <2>1, <2>2, <2>3
  <2> QED
    BY <2>4
<1> QED
  BY <1>1, <1>3, <1>4, <1>8, <1>9, <1>13

-----------------------------------------------------------------------------
(* What the rounds keep of upper. *)

\* Multiples that differ come from different numbers.
LEMMA MultiplesStrictlyOrdered ==
  ASSUME NEW a \in Nat, NEW b \in Nat, NEW k \in Nat \ {0}, a * k < b * k
  PROVE  a < b
<1>1. SUFFICES ASSUME b <= a PROVE FALSE
  OBVIOUS
<1>2. PICK c \in Nat : a = b + c
  <2>1. a - b \in Nat /\ a = b + (a - b)
    BY <1>1
  <2> QED
    BY <2>1
<1>3. a * k = b * k + c * k
  BY <1>2
<1>4. c * k >= 0 /\ b * k \in Int /\ c * k \in Int
  OBVIOUS
<1> QED
  BY <1>3, <1>4

\* Decimal digits without a leading zero.
Decimal(s) == s \in Seq(0..9) /\ (s # <<>> => s[1] # 0)

LEMMA DecimalDigits ==
  ASSUME NEW s, Decimal(s)
  PROVE  s \in Seq(Nat)
<1>1. s \in Seq(0..9)
  BY DEF Decimal
<1>2. 0..9 \subseteq Nat
  OBVIOUS
<1> QED
  BY <1>1, <1>2

LEMMA PushedDecimal ==
  ASSUME NEW s, Decimal(s), NEW d \in 0..9
  PROVE  /\ Decimal(Pushed(s, d))
         /\ Value(Pushed(s, d)) = Value(s) * 10 + d
         /\ Pushed(s, d) # <<>> => Pushed(s, d) = Append(s, d)
<1>1. s \in Seq(0..9) /\ (s # <<>> => s[1] # 0)
  BY DEF Decimal
<1>2. s \in Seq(Nat) /\ d \in Nat
  BY DecimalDigits
<1>3. CASE d # 0 \/ s # <<>>
  <2>1. Pushed(s, d) = Append(s, d)
    BY <1>3 DEF Pushed
  <2>2. PICK r : r = Append(s, d)
    OBVIOUS
  <2>3. r \in Seq(0..9) /\ Len(r) = Len(s) + 1
    BY <1>1, <2>2, AppendProperties
  <2>4. r[1] # 0
    <3>1. CASE s = <<>>
      BY <1>3, <2>2, <3>1
    <3>2. CASE s # <<>>
      <4>1. Len(s) \in Nat /\ 1 \in 1..Len(s)
        BY <1>1, <3>2
      <4>2. r[1] = s[1]
        BY <1>1, <2>2, <4>1, AppendProperties
      <4> QED
        BY <1>1, <3>2, <4>2
    <3> QED
      BY <3>1, <3>2
  <2>5. Decimal(r)
    BY <2>3, <2>4 DEF Decimal
  <2> QED
    BY <1>2, <2>1, <2>2, <2>5, ValueOfAppended
<1>4. CASE ~(d # 0 \/ s # <<>>)
  <2>1. Pushed(s, d) = <<>> /\ s = <<>> /\ d = 0
    BY <1>4 DEF Pushed
  <2>2. Value(s) = 0
    BY <2>1, ValueOfNothing
  <2> QED
    BY <2>1, <2>2
<1> QED
  BY <1>3, <1>4

InRound(st, n, upper) ==
  /\ Decimal(st.digits)
  /\ n <= Kappa => /\ st.part1 < Tens[Kappa - n]
                   /\ upper = Value(st.digits) * (Tens[Kappa - n] * One) + Left(st)
  /\ n >= Kappa => /\ st.part1 = 0
                   /\ upper * Tens[n - Kappa] = Value(st.digits) * One + st.part2

LEMMA FirstRound ==
  ASSUME NEW upper \in Nat, upper < Tens[Kappa] * One
  PROVE  InRound(Begun(upper), 0, upper)
<1>1. PICK q \in Nat : q = upper \div One
  BY GrisuConstants, Divided
<1>2. PICK r \in 0..(One - 1) : r = upper % One
  BY GrisuConstants, Divided
<1>3. upper = q * One + r
  BY <1>1, <1>2, GrisuConstants, Divided
<1>4. PICK unit \in Nat : unit = Tens[Kappa]
  BY TensFacts, GrisuConstants
<1>5. q < unit
  <2>1. q * One < unit * One
    BY <1>3, <1>4, GrisuConstants
  <2> QED
    BY <2>1, MultiplesStrictlyOrdered, GrisuConstants
<1>6. PICK st : st = Begun(upper)
  OBVIOUS
<1>7. st.digits = <<>> /\ st.part1 = q /\ st.part2 = r
  BY <1>1, <1>2, <1>6 DEF Begun
<1>8. Decimal(<<>>)
  BY DEF Decimal
<1>9. Left(st) = upper
  BY <1>3, <1>7 DEF Left
<1>10. Value(<<>>) * (unit * One) = 0
  BY ValueOfNothing, GrisuConstants
<1>11. 0 <= Kappa /\ ~(0 >= Kappa) /\ Kappa - 0 = Kappa
  BY GrisuConstants
<1> QED
  BY <1>4, <1>5, <1>6, <1>7, <1>8, <1>9, <1>10, <1>11 DEF InRound

\* A round of the first loop.
LEMMA IntegralRound ==
  ASSUME NEW upper \in Nat, NEW n \in Nat, n < Kappa, NEW st \in Rounding, InRound(st, n, upper)
  PROVE  \E d \in 0..9 : /\ NextRound(st, n + 1).digits = Pushed(st.digits, d)
                        /\ Left(st) = d * (Tens[Kappa - (n + 1)] * One) + Left(NextRound(st, n + 1))
                        /\ InRound(NextRound(st, n + 1), n + 1, upper)
<1>1. PICK k \in Nat : k = Kappa - (n + 1)
  BY GrisuConstants
<1>2. PICK unit \in Nat \ {0} : unit = Tens[k]
  BY TensFacts
<1>3. Tens[Kappa - n] = 10 * unit
  <2>1. Kappa - n = k + 1
    BY <1>1, GrisuConstants
  <2> QED
    BY <1>2, <2>1, TensFacts
<1>4. st.digits \in Seq(Nat) /\ st.part1 \in Nat /\ st.part2 \in Nat
  <2>1. st.part2 \in 0..(One - 1)
    BY DEF Rounding
  <2> QED
    BY <2>1, GrisuConstants DEF Rounding
<1>5. PICK p1 \in Nat : p1 = st.part1
  BY <1>4
<1>6. PICK p2 \in Nat : p2 = st.part2
  BY <1>4
<1>7. /\ Decimal(st.digits) /\ p1 < 10 * unit
      /\ upper = Value(st.digits) * (10 * unit * One) + (p1 * One + p2)
  <2>1. n <= Kappa
    BY GrisuConstants
  <2> QED
    BY <1>3, <1>5, <1>6, <2>1 DEF InRound, Left
<1>8. PICK d \in Nat : d = p1 \div unit
  BY Divided
<1>9. PICK rest \in 0..(unit - 1) : rest = p1 % unit
  BY Divided
<1>10. p1 = d * unit + rest
  BY <1>8, <1>9, Divided
<1>11. d \in 0..9
  <2>1. d * unit < 10 * unit
    BY <1>7, <1>10
  <2>2. d < 10
    BY <2>1, MultiplesStrictlyOrdered
  <2> QED
    BY <2>2
<1>12. PICK next : next = NextRound(st, n + 1)
  OBVIOUS
<1>13. next.digits = Pushed(st.digits, d) /\ next.part1 = rest /\ next.part2 = p2
  <2>1. n + 1 <= Kappa
    BY GrisuConstants
  <2>2. next = [st EXCEPT !.digits = Pushed(@, st.part1 \div unit), !.part1 = @ % unit]
    BY <1>1, <1>2, <1>12, <2>1 DEF NextRound, Integral
  <2> QED
    BY <1>5, <1>6, <1>8, <1>9, <2>2 DEF Rounding
<1>14. /\ Decimal(next.digits)
       /\ Value(next.digits) = Value(st.digits) * 10 + d
  BY <1>7, <1>11, <1>13, PushedDecimal
<1>15. PICK v \in Nat : v = Value(st.digits)
  BY <1>4, ValueIsNumber
<1>16. PICK scale \in Nat : scale = unit * One
  BY GrisuConstants
<1>17. p1 * One + p2 = d * scale + (rest * One + p2)
  <2>1. p1 * One = d * (unit * One) + rest * One
    BY <1>10, GrisuConstants
  <2> QED
    BY <1>16, <2>1, GrisuConstants
<1>18. v * (10 * unit * One) = (v * 10) * scale
  <2>1. 10 * unit * One = 10 * scale
    BY <1>16, GrisuConstants
  <2> QED
    BY <2>1
<1>19. upper = (v * 10 + d) * scale + (rest * One + p2)
  <2>1. PICK r \in Nat : r = rest * One + p2
    BY GrisuConstants
  <2>2. upper = (v * 10) * scale + (d * scale + r)
    BY <1>7, <1>15, <1>17, <1>18, <2>1
  <2> QED
    BY <2>1, <2>2
<1>20. Left(next) = rest * One + p2 /\ Left(st) = d * scale + Left(next)
  BY <1>5, <1>6, <1>13, <1>17 DEF Left
<1>21. InRound(next, n + 1, upper)
  <2>1. /\ n + 1 <= Kappa
        /\ next.part1 < Tens[Kappa - (n + 1)]
        /\ upper = Value(next.digits) * (Tens[Kappa - (n + 1)] * One) + Left(next)
    BY <1>1, <1>2, <1>9, <1>13, <1>14, <1>15, <1>16, <1>19, <1>20, GrisuConstants
  <2>2. ASSUME n + 1 >= Kappa
        PROVE  /\ next.part1 = 0
               /\ upper * Tens[(n + 1) - Kappa] = Value(next.digits) * One + next.part2
    <3>1. k = 0 /\ (n + 1) - Kappa = 0
      BY <1>1, <2>2, GrisuConstants
    <3>2. unit = 1
      BY <1>2, <3>1, TensFacts
    <3>3. rest = 0 /\ scale = One
      BY <1>16, <3>2, GrisuConstants
    <3>4. upper = (v * 10 + d) * One + p2
      BY <1>19, <3>3, GrisuConstants
    <3>5. Tens[(n + 1) - Kappa] = 1
      BY <3>1, TensFacts
    <3>6. upper * Tens[(n + 1) - Kappa] = upper
      BY <3>5
    <3>7. Value(next.digits) * One + next.part2 = (v * 10 + d) * One + p2
      BY <1>13, <1>14, <1>15
    <3> QED
      BY <1>13, <3>3, <3>4, <3>6, <3>7
  <2> QED
    BY <1>14, <2>1, <2>2 DEF InRound
<1> QED
  BY <1>1, <1>2, <1>11, <1>12, <1>13, <1>16, <1>20, <1>21

\* A round of the second loop.
LEMMA FractionalRound ==
  ASSUME NEW upper \in Nat, NEW n \in Nat, n >= Kappa, NEW st \in Rounding, InRound(st, n, upper)
  PROVE  \E d \in 0..9 : /\ NextRound(st, n + 1).digits = Pushed(st.digits, d)
                        /\ st.part2 * 10 = d * One + NextRound(st, n + 1).part2
                        /\ InRound(NextRound(st, n + 1), n + 1, upper)
<1>1. PICK j \in Nat : j = n - Kappa
  BY GrisuConstants
<1>2. (n + 1) - Kappa = j + 1 /\ ~(n + 1 <= Kappa) /\ n + 1 >= Kappa
  BY <1>1, GrisuConstants
<1>3. PICK unit \in Nat : unit = Tens[j] /\ Tens[j + 1] = 10 * unit
  BY TensFacts
<1>4. st.digits \in Seq(Nat) /\ st.part1 \in Nat /\ st.part2 \in 0..(One - 1)
  BY DEF Rounding
<1>5. PICK p2 \in 0..(One - 1) : p2 = st.part2
  BY <1>4
<1>6. Decimal(st.digits) /\ st.part1 = 0 /\ upper * unit = Value(st.digits) * One + p2
  BY <1>1, <1>3, <1>5 DEF InRound
<1>7. PICK ten \in Nat : ten = p2 * 10
  BY GrisuConstants
<1>8. PICK d \in Nat : d = ten \div One
  BY Divided, GrisuConstants
<1>9. PICK rest \in 0..(One - 1) : rest = ten % One
  BY Divided, GrisuConstants
<1>10. ten = d * One + rest
  BY <1>8, <1>9, Divided, GrisuConstants
<1>11. d \in 0..9
  <2>1. d * One < 10 * One
    BY <1>7, <1>10, GrisuConstants
  <2>2. d < 10
    BY <2>1, MultiplesStrictlyOrdered, GrisuConstants
  <2> QED
    BY <2>2
<1>12. PICK next : next = NextRound(st, n + 1)
  OBVIOUS
<1>13. next.digits = Pushed(st.digits, d) /\ next.part1 = 0 /\ next.part2 = rest
  <2>1. next = [st EXCEPT !.digits = Pushed(@, (st.part2 * 10) \div One), !.part2 = (@ * 10) % One]
    BY <1>2, <1>12 DEF NextRound, Fractional
  <2> QED
    BY <1>5, <1>6, <1>7, <1>8, <1>9, <2>1 DEF Rounding
<1>14. /\ Decimal(next.digits)
       /\ Value(next.digits) = Value(st.digits) * 10 + d
  BY <1>6, <1>11, <1>13, PushedDecimal
<1>15. PICK v \in Nat : v = Value(st.digits)
  BY <1>4, ValueIsNumber
<1>16. upper * (10 * unit) = (v * 10 + d) * One + rest
  <2>1. upper * (10 * unit) = 10 * (upper * unit)
    OBVIOUS
  <2>2. 10 * (v * One + p2) = (v * 10) * One + ten
    BY <1>7, GrisuConstants
  <2>3. (v * 10) * One + (d * One + rest) = (v * 10 + d) * One + rest
    BY GrisuConstants
  <2> QED
    BY <1>6, <1>10, <1>15, <2>1, <2>2, <2>3
<1>17. InRound(next, n + 1, upper)
  BY <1>2, <1>3, <1>13, <1>14, <1>15, <1>16 DEF InRound
<1> QED
  BY <1>5, <1>7, <1>10, <1>11, <1>12, <1>13, <1>17

LEMMA RoundsKeep ==
  ASSUME NEW upper \in Nat, upper < Tens[Kappa] * One, NEW after, after = Generated(upper),
         NEW n \in Nat
  PROVE  after[n] \in Rounding /\ InRound(after[n], n, upper)
<1> DEFINE M == {k \in Nat : InRound(after[k], k, upper)}
<1>1. /\ after[0] = Begun(upper)
      /\ \A k \in Nat : after[k] \in Rounding /\ after[k + 1] = NextRound(after[k], k + 1)
  BY GeneratedRounds
<1>2. 0 \in M
  BY <1>1, FirstRound
<1>3. ASSUME NEW k \in M PROVE k + 1 \in M
  <2>1. k \in Nat /\ after[k] \in Rounding /\ InRound(after[k], k, upper)
    BY <1>1
  <2>2. k < Kappa \/ k >= Kappa
    BY <2>1, GrisuConstants
  <2>3. InRound(NextRound(after[k], k + 1), k + 1, upper)
    BY <2>1, <2>2, IntegralRound, FractionalRound
  <2> QED
    BY <1>1, <2>1, <2>3
<1>4. M \in SUBSET Nat /\ \A k \in M : k + 1 \in M
  BY <1>3
<1> HIDE DEF M
<1>5. n \in M
  BY <1>2, <1>4, Successors
<1> QED
  BY <1>1, <1>5 DEF M

-----------------------------------------------------------------------------
(* The reference of generate_digits(). *)

LEMMA UnitBeforePoint ==
  ASSUME NEW x \in Nat, NEW n \in Nat, n <= Kappa
  PROVE  /\ Unit(Kappa - n) = Tens[Kappa - n] * One
         /\ Scaled(x, Kappa - n) = x
         /\ Kappa - n >= 0
<1>1. Kappa - n >= 0
  BY GrisuConstants
<1> QED
  BY <1>1 DEF Unit, Scaled

LEMMA UnitBehindPoint ==
  ASSUME NEW x \in Nat, NEW n \in Nat, n > Kappa
  PROVE  /\ Unit(Kappa - n) = One
         /\ Scaled(x, Kappa - n) = x * Tens[n - Kappa]
         /\ Kappa - n < 0
<1>1. Kappa - n < 0 /\ ~(Kappa - n >= 0) /\ -(Kappa - n) = n - Kappa
  BY GrisuConstants
<1> QED
  BY <1>1 DEF Unit, Scaled

\* The multiples of unit from a to b.
LEMMA QuotientMultiples ==
  ASSUME NEW a \in Nat, NEW b \in Nat, NEW unit \in Nat \ {0}
  PROVE  {m \in (a \div unit)..(b \div unit) : a <= m * unit}
           = {m \in Nat : a <= m * unit /\ m * unit <= b}
<1>1. PICK p \in Nat : p = a \div unit
  BY Divided
<1>2. PICK q \in Nat : q = b \div unit
  BY Divided
<1>3. p * unit <= a
  <2>1. a % unit \in 0..(unit - 1) /\ a = p * unit + (a % unit)
    BY <1>1, Divided
  <2>2. PICK r \in 0..(unit - 1) : r = a % unit
    BY <2>1
  <2> QED
    BY <2>1, <2>2
<1>4. q * unit <= b /\ b < (q + 1) * unit
  <2>1. b % unit \in 0..(unit - 1) /\ b = q * unit + (b % unit)
    BY <1>2, Divided
  <2>2. PICK r \in 0..(unit - 1) : r = b % unit
    BY <2>1
  <2>3. (q + 1) * unit = q * unit + unit
    OBVIOUS
  <2> QED
    BY <2>1, <2>2, <2>3
<1>5. ASSUME NEW m \in p..q, a <= m * unit
      PROVE  m \in Nat /\ m * unit <= b
  <2>1. m \in Nat /\ m <= q
    OBVIOUS
  <2>2. PICK c \in Nat : q = m + c
    <3>1. q - m \in Nat /\ q = m + (q - m)
      BY <2>1
    <3> QED
      BY <3>1
  <2>3. q * unit = m * unit + c * unit
    BY <2>1, <2>2
  <2>4. c * unit \in Nat /\ m * unit \in Nat /\ q * unit \in Nat
    BY <2>1
  <2> QED
    BY <1>4, <2>1, <2>3, <2>4
<1>6. ASSUME NEW m \in Nat, a <= m * unit, m * unit <= b
      PROVE  m \in p..q
  <2>1. p * unit \in Nat /\ m * unit \in Nat /\ (q + 1) * unit \in Nat
    OBVIOUS
  <2>2. p * unit <= m * unit /\ m * unit < (q + 1) * unit
    BY <1>3, <1>4, <1>6, <2>1
  <2>3. p <= m
    BY <2>2, MultiplesOrdered
  <2>4. m < q + 1
    BY <2>2, MultiplesStrictlyOrdered
  <2> QED
    BY <2>3, <2>4
<1> QED
  BY <1>1, <1>2, <1>5, <1>6

\* No multiple of unit lies between two neighbours.
LEMMA NoneBetween ==
  ASSUME NEW v \in Nat, NEW m \in Nat, NEW unit \in Nat \ {0}, NEW rem \in Nat, rem < unit,
         v * unit < m * unit, m * unit <= v * unit + rem
  PROVE  FALSE
<1>1. (v + 1) * unit = v * unit + unit
  OBVIOUS
<1>2. m * unit < (v + 1) * unit
  <2>1. m * unit \in Nat /\ v * unit \in Nat
    OBVIOUS
  <2> QED
    BY <1>1, <2>1
<1>3. v < m
  BY MultiplesStrictlyOrdered
<1>4. m < v + 1
  BY <1>2, MultiplesStrictlyOrdered
<1> QED
  BY <1>3, <1>4

\* What is left of upper is less than the unit of the last digit.
LEMMA LeftBelowUnit ==
  ASSUME NEW part1 \in Nat, NEW part2 \in 0..(One - 1), NEW ten \in Nat, part1 < ten
  PROVE  part1 * One + part2 < ten * One
<1>1. PICK c \in Nat : ten = part1 + 1 + c
  <2>1. ten - part1 - 1 \in Nat /\ ten = part1 + 1 + (ten - part1 - 1)
    OBVIOUS
  <2> QED
    BY <2>1
<1>2. ten * One = part1 * One + One + c * One
  BY <1>1, GrisuConstants
<1>3. c * One \in Nat /\ part1 * One \in Nat
  BY GrisuConstants
<1> QED
  BY <1>2, <1>3, GrisuConstants

\* After a round that is not the last, no multiple of its unit is noticed.
LEMMA NothingNoticed ==
  ASSUME NEW upper \in Nat, NEW lower \in Nat, lower < upper, NEW n \in Nat,
         NEW st \in Rounding, InRound(st, n, upper), ~Stops(st, n, upper - lower)
  PROVE  Noticed(upper, lower, Kappa - n) = {}
<1>1. st.digits \in Seq(Nat) /\ st.part1 \in Nat /\ st.part2 \in 0..(One - 1)
  BY DEF Rounding
<1>2. PICK v \in Nat : v = Value(st.digits)
  BY <1>1, ValueIsNumber
<1>3. PICK p1 \in Nat : p1 = st.part1
  BY <1>1
<1>4. PICK p2 \in 0..(One - 1) : p2 = st.part2
  BY <1>1
<1>5. CASE n <= Kappa
  <2>1. PICK ten \in Nat \ {0} : ten = Tens[Kappa - n]
    <3>1. Kappa - n \in Nat
      BY <1>5, GrisuConstants
    <3> QED
      BY <3>1, TensFacts
  <2>2. PICK unit \in Nat \ {0} : unit = ten * One
    BY GrisuConstants
  <2>3. PICK rem \in Nat : rem = p1 * One + p2
    BY GrisuConstants
  <2>4. p1 < ten /\ upper = v * unit + rem /\ Left(st) = rem
    BY <1>2, <1>3, <1>4, <1>5, <2>1, <2>2, <2>3 DEF InRound, Left
  <2>5. rem > upper - lower
    BY <1>5, <2>4 DEF Stops
  <2>6. rem < unit
    BY <2>2, <2>3, <2>4, LeftBelowUnit
  <2>7. Unit(Kappa - n) = unit /\ Scaled(lower, Kappa - n) = lower /\ Scaled(upper, Kappa - n) = upper
    BY <1>5, <2>1, <2>2, UnitBeforePoint
  <2>8. ASSUME NEW m \in Noticed(upper, lower, Kappa - n) PROVE FALSE
    <3>1. m \in {i \in (lower \div unit)..(upper \div unit) : lower <= i * unit}
      BY <2>7, <2>8 DEF Noticed, Multiples
    <3>2. m \in Nat /\ lower <= m * unit /\ m * unit <= upper
      <4>1. PICK a \in Nat : a = lower
        OBVIOUS
      <4>2. PICK b \in Nat : b = upper
        OBVIOUS
      <4>3. {i \in (a \div unit)..(b \div unit) : a <= i * unit}
              = {i \in Nat : a <= i * unit /\ i * unit <= b}
        BY QuotientMultiples
      <4> QED
        BY <3>1, <4>1, <4>2, <4>3
    <3>3. v * unit \in Nat /\ m * unit \in Nat
      BY <3>2
    <3>4. v * unit < m * unit /\ m * unit <= v * unit + rem
      BY <2>4, <2>5, <3>2, <3>3
    <3> QED
      BY <2>6, <3>2, <3>4, NoneBetween
  <2> QED
    BY <2>8
<1>6. CASE ~(n <= Kappa)
  <2>1. n > Kappa /\ n >= Kappa /\ n - Kappa \in Nat
    BY <1>6, GrisuConstants
  <2>2. PICK ten \in Nat \ {0} : ten = Tens[n - Kappa]
    BY <2>1, TensFacts
  <2>3. PICK a \in Nat : a = lower * ten
    OBVIOUS
  <2>4. PICK b \in Nat : b = upper * ten
    OBVIOUS
  <2>5. (upper - lower) * ten = b - a
    BY <2>3, <2>4
  <2>6. b = v * One + p2
    BY <1>2, <1>4, <2>1, <2>2, <2>4 DEF InRound
  <2>7. p2 >= b - a
    BY <1>4, <1>6, <2>2, <2>5, GrisuConstants DEF Stops
  <2>8. Unit(Kappa - n) = One /\ Scaled(lower, Kappa - n) = a /\ Scaled(upper, Kappa - n) = b
        /\ Kappa - n < 0
    BY <2>1, <2>2, <2>3, <2>4, UnitBehindPoint
  <2>9. ASSUME NEW m \in Noticed(upper, lower, Kappa - n) PROVE FALSE
    <3>1. /\ m \in {i \in (a \div One)..(b \div One) : a <= i * One}
          /\ Kappa - n >= 0 \/ a < m * One
      BY <2>8, <2>9 DEF Noticed, Multiples
    <3>2. m \in Nat /\ m * One <= b
      <4>1. {i \in (a \div One)..(b \div One) : a <= i * One}
              = {i \in Nat : a <= i * One /\ i * One <= b}
        BY QuotientMultiples, GrisuConstants
      <4> QED
        BY <3>1, <4>1
    <3>3. v * One \in Nat /\ m * One \in Nat
      BY <3>2, GrisuConstants
    <3>4. a < m * One
      BY <2>1, <3>1, GrisuConstants
    <3>5. v * One < m * One /\ m * One <= v * One + p2
      BY <2>6, <2>7, <3>2, <3>3, <3>4, GrisuConstants
    <3> QED
      BY <3>2, <3>5, NoneBetween, GrisuConstants
  <2> QED
    BY <2>9
<1> QED
  BY <1>5, <1>6

-----------------------------------------------------------------------------
(* The last round. *)

\* The rounds end: a round stops before the units are too small for the interval.
LEMMA LastRoundExists ==
  ASSUME NEW upper \in Nat, upper < Tens[Kappa] * One, NEW after, after = Generated(upper),
         NEW delta \in Nat \ {0}
  PROVE  LET n == LastRound(after, delta) IN
         /\ n \in 1..(Kappa + One)
         /\ Stops(after[n], n, delta)
         /\ \A k \in 1..(n - 1) : ~Stops(after[k], k, delta)
<1> DEFINE M == {n \in 1..(Kappa + One) : Stops(after[n], n, delta)}
           IsLast(n) == /\ n \in 1..(Kappa + One)
                      /\ Stops(after[n], n, delta) /\ \A k \in 1..(n - 1) : ~Stops(after[k], k, delta)
<1>1. Kappa + One \in M
  <2>1. PICK n \in Nat : n = Kappa + One
    BY GrisuConstants
  <2>2. n \in 1..(Kappa + One) /\ ~(n <= Kappa) /\ n - Kappa = One
    BY <2>1, GrisuConstants
  <2>3. PICK ten \in Nat : ten = Tens[One] /\ One < ten
    BY TensFacts, GrisuConstants
  <2>4. after[n].part2 \in 0..(One - 1)
    BY RoundsKeep DEF Rounding
  <2>5. PICK p2 \in 0..(One - 1) : p2 = after[n].part2
    BY <2>4
  <2>6. p2 < delta * ten
    <3>1. PICK c \in Nat : delta = 1 + c
      <4>1. delta - 1 \in Nat /\ delta = 1 + (delta - 1)
        OBVIOUS
      <4> QED
        BY <4>1
    <3>2. delta * ten = ten + c * ten
      <4>1. (1 + c) * ten = ten + c * ten
        OBVIOUS
      <4> QED
        BY <3>1, <4>1
    <3>3. c * ten \in Nat
      BY <2>3, <3>1
    <3> QED
      BY <2>3, <3>2, <3>3, GrisuConstants
  <2>7. Stops(after[n], n, delta)
    BY <2>2, <2>3, <2>5, <2>6 DEF Stops
  <2> QED
    BY <2>1, <2>2, <2>7
<1>2. M \in SUBSET Nat /\ M # {}
  BY <1>1
<1>3. PICK n \in M : \A k \in M : n <= k
  BY <1>2, LeastNumber
<1>4. IsLast(n)
  <2>1. n \in 1..(Kappa + One) /\ Stops(after[n], n, delta)
    BY <1>3
  <2>2. ASSUME NEW k \in 1..(n - 1), Stops(after[k], k, delta) PROVE FALSE
    <3>1. k \in 1..(Kappa + One) /\ ~(n <= k)
      BY <2>1, GrisuConstants
    <3>2. k \in M
      BY <2>2, <3>1
    <3> QED
      BY <1>3, <3>1, <3>2
  <2> QED
    BY <2>1, <2>2
<1>5. LastRound(after, delta) = CHOOSE i : IsLast(i)
  BY DEF LastRound
<1>6. PICK last : last = LastRound(after, delta)
  OBVIOUS
<1>7. IsLast(last)
  <2> HIDE DEF IsLast
  <2> QED
    BY <1>4, <1>5, <1>6
<1> QED
  BY <1>6, <1>7

\* The loop of round_digit() runs d times.
RoundsMade(delta, rem, unit, frac, d) ==
  /\ ~Rounds(delta, rem + d * unit, unit, frac)
  /\ \A i \in 0..(d - 1) : Rounds(delta, rem + i * unit, unit, frac)

\* It may run e times, and the number after d rounds is closer to frac than after e.
Reached(delta, rem, unit, e) == rem + e * unit <= delta

Nearer(rem, unit, frac, d, e) ==
  \/ Distance(rem + d * unit, frac) < Distance(rem + e * unit, frac)
  \/ Distance(rem + d * unit, frac) = Distance(rem + e * unit, frac) /\ d <= e

\* Of the numbers rem, rem + unit, ... up to delta, rounding stops at the one closest to
\* frac, the least of two.
LEMMA RoundingIsClosest ==
  ASSUME NEW delta \in Nat, NEW rem \in Nat, NEW unit \in Nat \ {0}, NEW frac \in Nat,
         NEW d \in Nat, RoundsMade(delta, rem, unit, frac, d),
         NEW e \in Nat, Reached(delta, rem, unit, e)
  PROVE  Nearer(rem, unit, frac, d, e)
<1>0. rem + e * unit <= delta
  BY DEF Reached
<1>1. PICK x \in Nat : x = rem + d * unit
  OBVIOUS
<1>2. PICK y \in Nat : y = rem + e * unit
  OBVIOUS
<1>3. CASE e = d
  BY <1>3 DEF Nearer
<1>4. CASE e < d
  <2>1. PICK c \in Nat : d = e + 1 + c
    <3>1. d - e - 1 \in Nat /\ d = e + 1 + (d - e - 1)
      BY <1>4
    <3> QED
      BY <3>1
  <2>2. PICK i \in Nat : i = e + c
    BY <2>1
  <2>3. PICK z \in Nat : z = rem + i * unit
    OBVIOUS
  <2>4. x = z + unit /\ y <= z
    <3>1. d * unit = e * unit + unit + c * unit /\ i * unit = e * unit + c * unit
      BY <2>1, <2>2
    <3>2. e * unit \in Nat /\ c * unit \in Nat
      OBVIOUS
    <3> QED
      BY <1>1, <1>2, <2>3, <3>1, <3>2
  <2>5. i \in 0..(d - 1)
    BY <2>1, <2>2
  <2>6. z < frac /\ (z + unit < frac \/ frac - z > z + unit - frac)
    BY <2>3, <2>5 DEF Rounds, RoundsMade
  <2>7. Distance(x, frac) < Distance(y, frac)
    BY <2>4, <2>6 DEF Distance
  <2> QED
    BY <1>1, <1>2, <2>7 DEF Nearer
<1>5. CASE d < e
  <2>1. PICK c \in Nat : e = d + 1 + c
    <3>1. e - d - 1 \in Nat /\ e = d + 1 + (e - d - 1)
      BY <1>5
    <3> QED
      BY <3>1
  <2>2. y >= x + unit
    <3>1. e * unit = d * unit + unit + c * unit
      BY <2>1
    <3>2. d * unit \in Nat /\ c * unit \in Nat
      OBVIOUS
    <3> QED
      BY <1>1, <1>2, <3>1, <3>2
  <2>3. y <= delta
    BY <1>0, <1>2
  <2>4. ~(x < frac) \/ ~(delta - x >= unit) \/ ~(x + unit < frac \/ frac - x > x + unit - frac)
    BY <1>1 DEF Rounds, RoundsMade
  <2>5. \/ Distance(x, frac) < Distance(y, frac)
        \/ Distance(x, frac) = Distance(y, frac)
    BY <2>2, <2>3, <2>4 DEF Distance
  <2> QED
    BY <1>1, <1>2, <1>5, <2>5 DEF Nearer
<1> QED
  BY <1>3, <1>4, <1>5

\* b is v units and rem more, delta and frac are how far below b a and c are.
Placed(unit, a, b, c, v, rem, delta, frac) ==
  /\ unit \in Nat \ {0} /\ {a, b, c, v, rem, delta, frac} \subseteq Nat
  /\ a <= b /\ c <= b /\ rem < unit /\ b = v * unit + rem
  /\ delta = b - a /\ frac = b - c

\* m units are in the interval, and no other multiple there is closer to c.
ClosestMultiple(m, unit, a, b, c) ==
  /\ a <= m * unit /\ m * unit <= b
  /\ \A i \in Nat : a <= i * unit /\ i * unit <= b =>
       \/ Distance(m * unit, c) < Distance(i * unit, c)
       \/ Distance(m * unit, c) = Distance(i * unit, c) /\ i <= m

\* d rounds of round_digit() take less than digit from the last digit.
WithinDigit(delta, rem, unit, digit) == rem <= delta /\ delta <= rem + digit * unit

LEMMA DigitKept ==
  ASSUME NEW delta \in Nat, NEW rem \in Nat, NEW unit \in Nat \ {0}, NEW frac \in Nat,
         NEW digit \in 0..9, WithinDigit(delta, rem, unit, digit),
         NEW d, d = Decrements(delta, rem, unit, frac)
  PROVE  /\ d \in Nat /\ digit - d \in 0..9
         /\ Reached(delta, rem, unit, d) /\ RoundsMade(delta, rem, unit, frac, d)
<1>1. rem <= delta /\ delta <= rem + digit * unit
  BY DEF WithinDigit
<1>2. d \in Nat
  BY RoundingStops
<1>3. /\ digit - d \in 0..9
      /\ rem + d * unit <= delta
      /\ ~Rounds(delta, rem + d * unit, unit, frac)
      /\ \A i \in 0..(d - 1) : Rounds(delta, rem + i * unit, unit, frac)
  BY <1>1, RoundingKeepsDigit
<1> QED
  BY <1>2, <1>3 DEF Reached, RoundsMade

\* The last digit decremented, the number is the multiple of unit from a to b closest to c,
\* the larger of two.
LEMMA NearestMultiple ==
  ASSUME NEW unit, NEW a, NEW b, NEW c, NEW v, NEW rem, NEW delta, NEW frac,
         Placed(unit, a, b, c, v, rem, delta, frac),
         NEW d \in Nat, NEW m \in Nat, m = v - d,
         Reached(delta, rem, unit, d), RoundsMade(delta, rem, unit, frac, d)
  PROVE  ClosestMultiple(m, unit, a, b, c)
<1>0. /\ unit \in Nat \ {0} /\ a \in Nat /\ b \in Nat /\ c \in Nat /\ v \in Nat /\ rem \in Nat
      /\ delta \in Nat /\ frac \in Nat
      /\ a <= b /\ c <= b /\ rem < unit /\ b = v * unit + rem /\ delta = b - a /\ frac = b - c
      /\ rem + d * unit <= delta
  BY DEF Placed, Reached
<1>1. ASSUME NEW i \in Nat, NEW e \in Nat, v = i + e
      PROVE  i * unit = b - (rem + e * unit) /\ Distance(i * unit, c) = Distance(rem + e * unit, frac)
  <2>1. v * unit = i * unit + e * unit
    BY <1>0, <1>1
  <2>2. PICK x \in Nat : x = rem + e * unit
    BY <1>0
  <2>3. PICK y \in Nat : y = i * unit
    BY <1>0
  <2>4. y = b - x
    <3>1. e * unit \in Nat
      BY <1>0
    <3> QED
      BY <1>0, <2>1, <2>2, <2>3, <3>1
  <2>5. Distance(y, c) = Distance(x, frac)
    BY <1>0, <2>4 DEF Distance
  <2> QED
    BY <2>2, <2>3, <2>4, <2>5
<1>2. PICK x \in Nat : x = rem + d * unit
  BY <1>0
<1>3. v = m + d
  BY <1>0
<1>4. m * unit = b - x /\ Distance(m * unit, c) = Distance(rem + d * unit, frac)
  BY <1>1, <1>2, <1>3
<1>5. a <= m * unit /\ m * unit <= b
  BY <1>0, <1>2, <1>4
<1>6. ASSUME NEW i \in Nat, a <= i * unit, i * unit <= b
      PROVE  \/ Distance(m * unit, c) < Distance(i * unit, c)
             \/ Distance(m * unit, c) = Distance(i * unit, c) /\ i <= m
  <2>1. i <= v
    <3>1. PICK s \in Nat : s = i * unit
      BY <1>0
    <3>2. PICK t \in Nat : t = v * unit
      BY <1>0
    <3>3. (v + 1) * unit = t + unit
      BY <1>0, <3>2
    <3>4. i * unit < (v + 1) * unit
      BY <1>0, <1>6, <3>1, <3>2, <3>3
    <3>5. i < v + 1
      BY <1>0, <3>4, MultiplesStrictlyOrdered
    <3> QED
      BY <1>0, <3>5
  <2>2. PICK e \in Nat : v = i + e
    <3>1. v - i \in Nat /\ v = i + (v - i)
      BY <1>0, <2>1
    <3> QED
      BY <3>1
  <2>3. i * unit = b - (rem + e * unit) /\ Distance(i * unit, c) = Distance(rem + e * unit, frac)
    BY <1>1, <2>2
  <2>4. rem + e * unit <= delta
    <3>1. PICK y \in Nat : y = rem + e * unit
      BY <1>0
    <3> QED
      BY <1>0, <1>6, <2>3, <3>1
  <2>5. \/ Distance(rem + d * unit, frac) < Distance(rem + e * unit, frac)
        \/ Distance(rem + d * unit, frac) = Distance(rem + e * unit, frac) /\ d <= e
    <3>1. Reached(delta, rem, unit, e)
      BY <2>4 DEF Reached
    <3>2. Nearer(rem, unit, frac, d, e)
      BY <1>0, <3>1, RoundingIsClosest
    <3> QED
      BY <3>2 DEF Nearer
  <2>6. d <= e => i <= m
    BY <1>0, <1>3, <2>2
  <2> QED
    BY <1>4, <2>3, <2>5, <2>6
<1> QED
  BY <1>5, <1>6 DEF ClosestMultiple

\* The last round makes q of the digits s; upper, lower and w are b, a and c there, unit is
\* what its digit counts and rem what it leaves.
Stopped(q, s, digit, unit, a, b, c, rem) ==
  /\ digit \in 0..9 /\ unit \in Nat \ {0} /\ a \in Nat \ {0} /\ {b, c, rem} \subseteq Nat
  /\ Decimal(s) /\ q = Pushed(s, digit)
  /\ a < b /\ c <= b /\ rem < unit /\ b = Value(q) * unit + rem
  /\ rem <= b - a /\ b - a <= rem + digit * unit

\* The same, for the round after m rounds.
StopsAfter(m, prev, st, w, upper, lower) ==
  \E digit, unit, a, b, c, rem :
    /\ Stopped(st.digits, prev.digits, digit, unit, a, b, c, rem)
    /\ unit = Unit(Kappa - (m + 1)) /\ a = Scaled(lower, Kappa - (m + 1))
    /\ b = Scaled(upper, Kappa - (m + 1)) /\ c = Scaled(w, Kappa - (m + 1))
    /\ (IF m + 1 <= Kappa
        THEN Decrements(upper - lower, Left(st), Tens[Kappa - (m + 1)] * One, upper - w)
        ELSE Decrements((upper - lower) * Tens[(m + 1) - Kappa], st.part2, One,
                        (upper - w) * Tens[(m + 1) - Kappa])) = Decrements(b - a, rem, unit, b - c)

LEMMA StopsBeforePoint ==
  ASSUME NEW upper \in Nat, NEW lower \in Nat \ {0}, lower < upper, NEW w \in Nat, w <= upper,
         NEW m \in Nat, m < Kappa, NEW prev \in Rounding, InRound(prev, m, upper),
         m = 0 => prev = Begun(upper), m # 0 => ~Stops(prev, m, upper - lower),
         Stops(NextRound(prev, m + 1), m + 1, upper - lower)
  PROVE  StopsAfter(m, prev, NextRound(prev, m + 1), w, upper, lower)
<1>1. PICK st : st = NextRound(prev, m + 1)
  OBVIOUS
<1>2. st \in Rounding
  BY <1>1, RoundKeepsType
<1>3. PICK digit \in 0..9 : /\ st.digits = Pushed(prev.digits, digit)
                            /\ Left(prev) = digit * (Tens[Kappa - (m + 1)] * One) + Left(st)
                            /\ InRound(st, m + 1, upper)
  BY <1>1, IntegralRound
<1>4. PICK n \in Nat : n = m + 1
  OBVIOUS
<1>5. n <= Kappa /\ m <= Kappa /\ Kappa - n \in Nat
  BY <1>4, GrisuConstants
<1>6. PICK ten \in Nat \ {0} : ten = Tens[Kappa - n]
  BY <1>5, TensFacts
<1>7. PICK unit \in Nat \ {0} : unit = ten * One
  BY GrisuConstants
<1>8. st.digits \in Seq(Nat) /\ st.part1 \in Nat /\ st.part2 \in 0..(One - 1)
  BY <1>2 DEF Rounding
<1>9. PICK v \in Nat : v = Value(st.digits)
  BY <1>8, ValueIsNumber
<1>10. PICK rem \in Nat : rem = Left(st)
  <2>1. PICK p1 \in Nat : p1 = st.part1
    BY <1>8
  <2>2. PICK p2 \in Nat : p2 = st.part2
    BY <1>8, GrisuConstants
  <2>3. Left(st) = p1 * One + p2
    BY <2>1, <2>2 DEF Left
  <2> QED
    BY <2>3, GrisuConstants
<1>11. st.part1 < ten /\ upper = v * unit + rem
  BY <1>3, <1>4, <1>5, <1>6, <1>7, <1>9, <1>10 DEF InRound
<1>12. rem < unit
  <2>1. st.part1 * One + st.part2 < ten * One
    BY <1>8, <1>11, LeftBelowUnit
  <2> QED
    BY <1>7, <1>10, <2>1 DEF Left
<1>13. rem <= upper - lower
  BY <1>1, <1>4, <1>5, <1>10 DEF Stops
<1>14. Left(prev) = digit * unit + rem
  BY <1>3, <1>4, <1>6, <1>7, <1>10
<1>15. upper - lower <= Left(prev)
  <2>1. CASE m = 0
    <3>1. prev.part1 = upper \div One /\ prev.part2 = upper % One
      BY <2>1 DEF Begun
    <3>2. Left(prev) = upper
      BY <3>1, Divided, GrisuConstants DEF Left
    <3> QED
      BY <3>2
  <2>2. CASE m # 0
    <3>1. ~(Left(prev) <= upper - lower)
      BY <1>5, <2>2 DEF Stops
    <3> QED
      BY <1>14, <3>1
  <2> QED
    BY <2>1, <2>2
<1>16. Decimal(prev.digits)
  BY DEF InRound
<1>17. Stopped(st.digits, prev.digits, digit, unit, lower, upper, w, rem)
  BY <1>3, <1>9, <1>11, <1>12, <1>13, <1>14, <1>15, <1>16 DEF Stopped
<1>18. /\ unit = Unit(Kappa - (m + 1)) /\ lower = Scaled(lower, Kappa - (m + 1))
       /\ upper = Scaled(upper, Kappa - (m + 1)) /\ w = Scaled(w, Kappa - (m + 1))
  BY <1>4, <1>5, <1>6, <1>7, UnitBeforePoint
<1>19. Decrements(upper - lower, Left(st), Tens[Kappa - (m + 1)] * One, upper - w)
         = Decrements(upper - lower, rem, unit, upper - w)
  BY <1>4, <1>6, <1>7, <1>10
<1>20. m + 1 <= Kappa
  BY <1>4, <1>5
<1> QED
  BY <1>1, <1>17, <1>18, <1>19, <1>20 DEF StopsAfter

\* What is left of the fraction is no less than the interval, until the last round.
LEMMA DeltaWithinRest ==
  ASSUME NEW upper \in Nat, NEW delta \in Nat, NEW m \in Nat, m >= Kappa,
         NEW prev \in Rounding, InRound(prev, m, upper), ~Stops(prev, m, delta)
  PROVE  delta * Tens[m - Kappa] <= prev.part2
<1>1. PICK p2 \in Nat : p2 = prev.part2 /\ prev.part1 = 0
  <2>1. prev.part2 \in 0..(One - 1) /\ prev.part1 = 0
    BY DEF Rounding, InRound
  <2> QED
    BY <2>1, GrisuConstants
<1>2. PICK ten \in Nat : ten = Tens[m - Kappa]
  <2>1. m - Kappa \in Nat
    BY GrisuConstants
  <2> QED
    BY <2>1, TensFacts
<1>3. CASE m = Kappa
  <2>1. ten = 1
    BY <1>2, <1>3, TensFacts, GrisuConstants
  <2>2. Left(prev) = p2
    BY <1>1, GrisuConstants DEF Left
  <2>3. ~(p2 <= delta)
    BY <1>3, <2>2, GrisuConstants DEF Stops
  <2>4. delta * ten = delta
    BY <2>1
  <2> QED
    BY <1>1, <1>2, <2>3, <2>4
<1>4. CASE m # Kappa
  <2>1. ~(m <= Kappa)
    BY <1>4, GrisuConstants
  <2>2. ~(p2 < delta * ten)
    BY <1>1, <1>2, <2>1 DEF Stops
  <2> QED
    BY <1>1, <1>2, <2>2
<1> QED
  BY <1>3, <1>4

LEMMA StopsBehindPoint ==
  ASSUME NEW upper \in Nat, NEW lower \in Nat \ {0}, lower < upper, NEW w \in Nat, w <= upper,
         NEW m \in Nat, m >= Kappa, NEW prev \in Rounding, InRound(prev, m, upper),
         ~Stops(prev, m, upper - lower),
         Stops(NextRound(prev, m + 1), m + 1, upper - lower)
  PROVE  StopsAfter(m, prev, NextRound(prev, m + 1), w, upper, lower)
<1>1. PICK st : st = NextRound(prev, m + 1)
  OBVIOUS
<1>2. st \in Rounding
  BY <1>1, RoundKeepsType
<1>3. PICK digit \in 0..9 : /\ st.digits = Pushed(prev.digits, digit)
                            /\ prev.part2 * 10 = digit * One + st.part2
                            /\ InRound(st, m + 1, upper)
  BY <1>1, FractionalRound
<1>4. PICK n \in Nat : n = m + 1
  OBVIOUS
<1>5. n > Kappa /\ n >= Kappa /\ ~(n <= Kappa) /\ m - Kappa \in Nat /\ n - Kappa = (m - Kappa) + 1
  BY <1>4, GrisuConstants
<1>6. PICK before \in Nat \ {0} : before = Tens[m - Kappa]
  BY <1>5, TensFacts
<1>7. PICK ten \in Nat \ {0} : ten = 10 * before
  OBVIOUS
<1>8. Tens[n - Kappa] = ten
  BY <1>5, <1>6, <1>7, TensFacts
<1>9. st.digits \in Seq(Nat) /\ st.part1 \in Nat /\ st.part2 \in 0..(One - 1)
  BY <1>2 DEF Rounding
<1>10. PICK v \in Nat : v = Value(st.digits)
  BY <1>9, ValueIsNumber
<1>11. PICK rem \in 0..(One - 1) : rem = st.part2
  BY <1>9
<1>12. PICK p2 \in Nat : p2 = prev.part2 /\ prev.part1 = 0
  <2>1. prev.part2 \in 0..(One - 1) /\ prev.part1 = 0
    BY DEF Rounding, InRound
  <2> QED
    BY <2>1, GrisuConstants
<1>13. PICK a \in Nat \ {0} : a = lower * ten
  OBVIOUS
<1>14. PICK b \in Nat : b = upper * ten
  OBVIOUS
<1>15. PICK c \in Nat : c = w * ten
  OBVIOUS
<1>16. PICK delta \in Nat \ {0} : delta = upper - lower
  OBVIOUS
<1>17. PICK frac \in Nat : frac = upper - w
  OBVIOUS
<1>18. delta * ten = b - a /\ delta * ten \in Nat \ {0}
  BY <1>13, <1>14, <1>16
<1>19. frac * ten = b - c /\ frac * ten \in Nat
  BY <1>14, <1>15, <1>17
<1>20. b = v * One + rem
  BY <1>3, <1>4, <1>5, <1>8, <1>10, <1>11, <1>14 DEF InRound
<1>21. rem < delta * ten
  BY <1>1, <1>4, <1>5, <1>8, <1>11, <1>16 DEF Stops
<1>22. delta * before <= p2
  BY <1>6, <1>12, <1>16, DeltaWithinRest
<1>23. delta * ten <= digit * One + rem
  <2>1. delta * ten = 10 * (delta * before)
    BY <1>7
  <2>2. PICK x \in Nat : x = delta * before
    OBVIOUS
  <2>3. p2 * 10 = digit * One + rem
    BY <1>3, <1>11, <1>12
  <2> QED
    BY <1>22, <2>1, <2>2, <2>3
<1>24. Decimal(prev.digits)
  BY DEF InRound
<1>25. Stopped(st.digits, prev.digits, digit, One, a, b, c, rem)
  <2>1. PICK d \in Nat \ {0} : d = delta * ten
    BY <1>18
  <2>2. PICK f \in Nat : f = frac * ten
    BY <1>19
  <2>3. a < b /\ c <= b
    BY <1>18, <1>19, <2>1, <2>2
  <2>4. rem <= b - a /\ b - a <= rem + digit * One
    <3>1. PICK e \in Nat : e = digit * One
      BY GrisuConstants
    <3> QED
      BY <1>18, <1>21, <1>23, <2>1, <3>1, GrisuConstants
  <2>5. rem \in Nat /\ rem < One
    BY GrisuConstants
  <2> QED
    BY <1>3, <1>10, <1>20, <1>24, <2>3, <2>4, <2>5, GrisuConstants DEF Stopped
<1>26. /\ One = Unit(Kappa - (m + 1)) /\ a = Scaled(lower, Kappa - (m + 1))
       /\ b = Scaled(upper, Kappa - (m + 1)) /\ c = Scaled(w, Kappa - (m + 1))
  BY <1>4, <1>5, <1>8, <1>13, <1>14, <1>15, UnitBehindPoint
<1>27. Decrements((upper - lower) * Tens[(m + 1) - Kappa], st.part2, One,
                  (upper - w) * Tens[(m + 1) - Kappa])
         = Decrements(b - a, rem, One, b - c)
  BY <1>4, <1>8, <1>11, <1>16, <1>17, <1>18, <1>19
<1>28. ~(m + 1 <= Kappa)
  BY <1>4, <1>5
<1> QED
  BY <1>1, <1>25, <1>26, <1>27, <1>28 DEF StopsAfter

\* Decimal digits that round_digit() decremented.
LEMMA StopsWell ==
  ASSUME NEW q, NEW s, NEW digit, NEW unit, NEW a, NEW b, NEW c, NEW rem,
         Stopped(q, s, digit, unit, a, b, c, rem), NEW kappa,
         NEW d, d = Decrements(b - a, rem, unit, b - c), NEW r, r = Finished(q, kappa, d)
  PROVE  /\ r.kappa = kappa
         /\ \A i \in DOMAIN r.digits : r.digits[i] \in 0..9
         /\ r.digits # <<>> /\ r.digits[1] # 0
         /\ Value(r.digits) \in Nat
         /\ ClosestMultiple(Value(r.digits), unit, a, b, c)
<1>1. /\ digit \in 0..9 /\ unit \in Nat \ {0} /\ a \in Nat \ {0}
      /\ b \in Nat /\ c \in Nat /\ rem \in Nat
      /\ Decimal(s) /\ q = Pushed(s, digit)
      /\ a < b /\ c <= b /\ rem < unit /\ b = Value(q) * unit + rem
      /\ rem <= b - a /\ b - a <= rem + digit * unit
  BY DEF Stopped
<1>2. Decimal(q) /\ (q # <<>> => q = Append(s, digit))
  BY <1>1, PushedDecimal
<1>3. q \in Seq(Nat)
  BY <1>2, DecimalDigits
<1>4. PICK v \in Nat : v = Value(q)
  BY <1>3, ValueIsNumber
<1>5. v # 0
  <2>1. ASSUME v = 0 PROVE FALSE
    <3>1. v * unit = 0
      BY <1>1, <2>1
    <3> QED
      BY <1>1, <1>4, <3>1
  <2> QED
    BY <2>1
<1>6. q # <<>>
  BY <1>4, <1>5, ValueOfNothing
<1>7. PICK n \in Nat : n = Len(q)
  BY <1>3
<1>8. n # 0 /\ q[n] = digit
  <2>1. s \in Seq(0..9)
    BY <1>1 DEF Decimal
  <2>2. Len(Append(s, digit)) = Len(s) + 1 /\ Append(s, digit)[Len(s) + 1] = digit
    BY <1>1, <2>1, AppendProperties
  <2>3. Len(s) \in Nat
    BY <2>1
  <2> QED
    BY <1>2, <1>6, <1>7, <2>2, <2>3
<1>9. PICK delta \in Nat : delta = b - a
  BY <1>1
<1>10. PICK frac \in Nat : frac = b - c
  BY <1>1
<1>11. rem <= delta /\ delta <= rem + digit * unit
  BY <1>1, <1>9
<1>12. /\ d \in Nat /\ digit - d \in 0..9
       /\ Reached(delta, rem, unit, d) /\ RoundsMade(delta, rem, unit, frac, d)
  <2>1. d = Decrements(delta, rem, unit, frac)
    BY <1>9, <1>10
  <2>2. WithinDigit(delta, rem, unit, digit)
    BY <1>11 DEF WithinDigit
  <2> QED
    BY <1>1, <2>1, <2>2, DigitKept
<1>13. PICK last \in 0..9 : last = digit - d
  BY <1>12
<1>14. r.kappa = kappa /\ r.digits = [q EXCEPT ![n] = q[n] - d]
  BY <1>7 DEF Finished
<1>15. PICK p : p = [q EXCEPT ![n] = last]
  OBVIOUS
<1>16. r.digits = p
  BY <1>8, <1>13, <1>14, <1>15
<1>17. q \in Seq(0..9) /\ q[1] # 0
  BY <1>2, <1>6 DEF Decimal
<1>18. p \in Seq(0..9) /\ Len(p) = n /\ p[n] = last /\ \A i \in 1..n : i # n => p[i] = q[i]
  BY <1>7, <1>8, <1>15, <1>17
<1>19. PICK m \in Nat : m = Value(p)
  <2>1. p \in Seq(Nat)
    <3>1. 0..9 \subseteq Nat
      OBVIOUS
    <3> QED
      BY <1>18, <3>1
  <2> QED
    BY <2>1, ValueIsNumber
<1>20. m = v - d
  <2>1. q[Len(q)] - d \in Nat
    BY <1>7, <1>8, <1>12
  <2>2. Value([q EXCEPT ![Len(q)] = @ - d]) = Value(q) - d
    BY <1>3, <1>6, <1>12, <2>1, ValueOfDecremented
  <2>3. [q EXCEPT ![Len(q)] = @ - d] = p
    BY <1>7, <1>8, <1>13, <1>15
  <2> QED
    BY <1>4, <1>19, <2>2, <2>3
<1>21. Placed(unit, a, b, c, v, rem, delta, frac)
  BY <1>1, <1>4, <1>9, <1>10 DEF Placed
<1>22. ClosestMultiple(m, unit, a, b, c)
  BY <1>12, <1>20, <1>21, NearestMultiple
<1>23. p # <<>> /\ \A i \in DOMAIN p : p[i] \in 0..9
  BY <1>8, <1>18
<1>24. p[1] # 0
  <2>1. CASE n = 1
    <3>1. ASSUME p[1] = 0 PROVE FALSE
      <4>1. PICK t : t = <<>>
        OBVIOUS
      <4>2. p = Append(t, 0)
        BY <1>18, <2>1, <3>1, <4>1
      <4>3. Value(p) = 0
        <5>1. t \in Seq(Nat) /\ 0 \in Nat /\ Value(t) = 0
          BY <4>1, ValueOfNothing
        <5>2. Value(Append(t, 0)) = Value(t) * 10 + 0
          BY <5>1, ValueOfAppended
        <5> QED
          BY <4>2, <5>1, <5>2
      <4>4. m * unit = 0
        BY <1>1, <1>19, <4>3
      <4> QED
        BY <1>1, <1>22, <4>4 DEF ClosestMultiple
    <3> QED
      BY <3>1
  <2>2. CASE n # 1
    <3>1. 1 \in 1..n /\ 1 # n
      BY <1>8, <2>2
    <3> QED
      BY <1>17, <1>18, <3>1
  <2> QED
    BY <2>1, <2>2
<1> QED
  BY <1>14, <1>16, <1>19, <1>22, <1>23, <1>24

\* The last round, and what it makes of upper.
LEMMA LastRoundStops ==
  ASSUME NEW upper \in Nat, NEW lower \in Nat \ {0}, lower < upper, upper < Tens[Kappa] * One,
         NEW w \in Nat, w <= upper
  PROVE  LET after == Generated(upper)
             n == LastRound(after, upper - lower) IN
         \E m \in Nat : n = m + 1 /\ StopsAfter(m, after[m], after[n], w, upper, lower)
<1>1. PICK after : after = Generated(upper)
  OBVIOUS
<1>2. PICK delta \in Nat \ {0} : delta = upper - lower
  OBVIOUS
<1>3. PICK n : n = LastRound(after, delta)
  OBVIOUS
<1>4. /\ n \in 1..(Kappa + One) /\ Stops(after[n], n, delta)
      /\ \A k \in 1..(n - 1) : ~Stops(after[k], k, delta)
  BY <1>1, <1>3, LastRoundExists
<1>5. PICK m \in Nat : n = m + 1
  <2>1. n - 1 \in Nat /\ n = (n - 1) + 1
    BY <1>4
  <2> QED
    BY <2>1
<1>6. n \in Nat
  BY <1>4
<1>7. \A k \in Nat : after[k] \in Rounding /\ InRound(after[k], k, upper)
  BY <1>1, RoundsKeep
<1>8. after[0] = Begun(upper) /\ after[n] = NextRound(after[m], m + 1)
  BY <1>1, <1>5, GeneratedRounds
<1>9. PICK prev : prev = after[m]
  OBVIOUS
<1>10. PICK st : st = after[n]
  OBVIOUS
<1>11. /\ prev \in Rounding /\ InRound(prev, m, upper) /\ st = NextRound(prev, m + 1)
       /\ m = 0 => prev = Begun(upper)
       /\ Stops(NextRound(prev, m + 1), m + 1, upper - lower)
  BY <1>2, <1>4, <1>5, <1>7, <1>8, <1>9, <1>10
<1>12. m # 0 => ~Stops(prev, m, upper - lower)
  <2>1. m # 0 => m \in 1..(n - 1)
    BY <1>5
  <2> QED
    BY <1>2, <1>4, <1>9, <2>1
<1>13. StopsAfter(m, prev, st, w, upper, lower)
  <2>1. CASE m < Kappa
    <3>1. StopsAfter(m, prev, NextRound(prev, m + 1), w, upper, lower)
      BY <1>11, <1>12, <2>1, StopsBeforePoint
    <3> QED
      BY <1>11, <3>1
  <2>2. CASE m >= Kappa
    <3>1. m # 0
      BY <2>2, GrisuConstants
    <3>2. StopsAfter(m, prev, NextRound(prev, m + 1), w, upper, lower)
      BY <1>11, <1>12, <2>2, <3>1, StopsBehindPoint
    <3> QED
      BY <1>11, <3>2
  <2>3. m < Kappa \/ m >= Kappa
    BY GrisuConstants
  <2> QED
    BY <2>1, <2>2, <2>3
<1> QED
  BY <1>1, <1>2, <1>3, <1>5, <1>9, <1>10, <1>13

\* generate_digits() of every interval of positive numbers that the powers of ten reach, and
\* every number in it or below: decimal digits without a leading zero, that is,
\* round_digit() never takes the last one below zero, and the shortest number in the
\* interval, of these the closest to w.
THEOREM GeneratesShortest ==
  ASSUME NEW upper \in Nat, NEW lower \in Nat \ {0}, lower < upper, upper < Tens[Kappa] * One,
         NEW w \in Nat, w <= upper
  PROVE  LET r == GenerateDigits(w, upper, lower) IN
         /\ \A i \in DOMAIN r.digits : r.digits[i] \in 0..9
         /\ r.digits # <<>> /\ Head(r.digits) # 0
         /\ IsShortest(Value(r.digits), r.kappa, w, upper, lower)
<1>1. PICK after : after = Generated(upper)
  OBVIOUS
<1>2. PICK delta \in Nat \ {0} : delta = upper - lower
  OBVIOUS
<1>3. PICK n : n = LastRound(after, delta)
  OBVIOUS
<1>4. /\ n \in 1..(Kappa + One) /\ Stops(after[n], n, delta)
      /\ \A k \in 1..(n - 1) : ~Stops(after[k], k, delta)
  BY <1>1, <1>3, LastRoundExists
<1>5. PICK m \in Nat : n = m + 1 /\ StopsAfter(m, after[m], after[n], w, upper, lower)
  BY <1>1, <1>2, <1>3, LastRoundStops
<1>6. n \in Nat
  BY <1>4
<1>7. \A k \in Nat : after[k] \in Rounding /\ InRound(after[k], k, upper)
  BY <1>1, RoundsKeep
<1>8. PICK prev : prev = after[m]
  OBVIOUS
<1>9. PICK st : st = after[n]
  OBVIOUS
<1>10. StopsAfter(m, prev, st, w, upper, lower)
  BY <1>5, <1>8, <1>9
<1>11. PICK kappa \in Int : kappa = Kappa - n
  BY <1>6, GrisuConstants
<1>12. PICK digit, unit, a, b, c, rem :
         /\ Stopped(st.digits, prev.digits, digit, unit, a, b, c, rem)
         /\ unit = Unit(kappa) /\ a = Scaled(lower, kappa)
         /\ b = Scaled(upper, kappa) /\ c = Scaled(w, kappa)
         /\ (IF n <= Kappa
             THEN Decrements(upper - lower, Left(st), Tens[Kappa - n] * One, upper - w)
             ELSE Decrements((upper - lower) * Tens[n - Kappa], st.part2, One,
                             (upper - w) * Tens[n - Kappa])) = Decrements(b - a, rem, unit, b - c)
  BY <1>5, <1>10, <1>11 DEF StopsAfter
<1>13. PICK d : d = Decrements(b - a, rem, unit, b - c)
  OBVIOUS
<1>14. PICK r : r = GenerateDigits(w, upper, lower)
  OBVIOUS
<1>15. r = Finished(st.digits, kappa, d)
  <2>1. r = Finished(st.digits, Kappa - n,
              IF n <= Kappa
              THEN Decrements(upper - lower, Left(st), Tens[Kappa - n] * One, upper - w)
              ELSE Decrements((upper - lower) * Tens[n - Kappa], st.part2, One,
                              (upper - w) * Tens[n - Kappa]))
    BY <1>1, <1>2, <1>3, <1>9, <1>14 DEF GenerateDigits
  <2> QED
    BY <1>11, <1>12, <1>13, <2>1
<1>16. PICK q : q = r.digits
  OBVIOUS
<1>17. /\ r.kappa = kappa /\ \A i \in DOMAIN q : q[i] \in 0..9
       /\ q # <<>> /\ q[1] # 0 /\ Value(q) \in Nat /\ ClosestMultiple(Value(q), unit, a, b, c)
  BY <1>12, <1>13, <1>15, <1>16, StopsWell
<1>18. PICK v \in Nat : v = Value(q)
  BY <1>17
<1>19. /\ unit \in Nat \ {0} /\ a \in Nat /\ b \in Nat
  BY <1>12 DEF Stopped
<1>20. Multiples(upper, lower, kappa) = {i \in Nat : a <= i * unit /\ i * unit <= b}
  <2>1. Multiples(upper, lower, kappa) = {i \in (a \div unit)..(b \div unit) : a <= i * unit}
    BY <1>12 DEF Multiples
  <2> QED
    BY <1>19, <2>1, QuotientMultiples
<1>21. v \in Multiples(upper, lower, kappa)
  BY <1>17, <1>18, <1>20 DEF ClosestMultiple
<1>22. ASSUME NEW k \in (kappa + 1)..(Kappa - 1)
       PROVE  Noticed(upper, lower, k) = {}
  <2>1. PICK i \in Nat : k = Kappa - i /\ i \in 1..(n - 1)
    <3>1. Kappa - k \in 1..(n - 1) /\ k = Kappa - (Kappa - k)
      BY <1>6, <1>11, GrisuConstants
    <3> QED
      BY <3>1
  <2>2. ~Stops(after[i], i, upper - lower) /\ after[i] \in Rounding /\ InRound(after[i], i, upper)
    BY <1>2, <1>4, <1>7, <2>1
  <2>3. PICK at : at = after[i]
    OBVIOUS
  <2>4. Noticed(upper, lower, Kappa - i) = {}
    BY <2>2, <2>3, NothingNoticed
  <2> QED
    BY <2>1, <2>4
<1>23. ASSUME NEW i \in Multiples(upper, lower, kappa)
       PROVE  \/ Distance(v * unit, c) < Distance(i * unit, c)
              \/ Distance(v * unit, c) = Distance(i * unit, c) /\ i <= v
  <2>1. i \in Nat /\ a <= i * unit /\ i * unit <= b
    BY <1>20
  <2> QED
    BY <1>17, <1>18, <2>1 DEF ClosestMultiple
<1>24. IsShortest(v, kappa, w, upper, lower)
  BY <1>12, <1>21, <1>22, <1>23 DEF IsShortest
<1>25. \A i \in DOMAIN r.digits : r.digits[i] \in 0..9
  BY <1>16, <1>17
<1>26. r.digits # <<>> /\ Head(r.digits) # 0
  BY <1>16, <1>17
<1>27. IsShortest(Value(r.digits), r.kappa, w, upper, lower)
  BY <1>16, <1>17, <1>18, <1>24
<1> QED
  BY <1>14, <1>25, <1>26, <1>27

-----------------------------------------------------------------------------
(* The buffers of generate_digits(). *)

\* Greater powers of ten have greater exponents.
LEMMA TensOrdered ==
  ASSUME NEW i \in Nat, NEW j \in Nat, Tens[i] < Tens[j]
  PROVE  i < j
<1> DEFINE M == {k \in Nat : Tens[j] <= Tens[j + k]}
<1>1. 0 \in M
  BY TensFacts
<1>2. ASSUME NEW k \in M PROVE k + 1 \in M
  <2>1. k \in Nat /\ j + k \in Nat /\ j + (k + 1) = (j + k) + 1
    OBVIOUS
  <2>2. PICK a \in Nat : a = Tens[j + k] /\ Tens[(j + k) + 1] = 10 * a
    BY <2>1, TensFacts
  <2>3. PICK b \in Nat : b = Tens[j]
    BY TensFacts
  <2>4. b <= a
    BY <2>2, <2>3
  <2>5. Tens[j] <= Tens[j + (k + 1)]
    BY <2>1, <2>2, <2>3, <2>4
  <2> QED
    BY <2>1, <2>5
<1>3. M \in SUBSET Nat /\ \A k \in M : k + 1 \in M
  BY <1>2
<1> HIDE DEF M
<1>4. \A k \in Nat : k \in M
  BY <1>1, <1>3, Successors
<1>5. SUFFICES ASSUME j <= i PROVE FALSE
  OBVIOUS
<1>6. PICK k \in Nat : i = j + k
  <2>1. i - j \in Nat /\ i = j + (i - j)
    BY <1>5
  <2> QED
    BY <2>1
<1>7. Tens[j] <= Tens[i]
  BY <1>4, <1>6 DEF M
<1>8. PICK a \in Nat : a = Tens[i]
  BY TensFacts
<1>9. PICK b \in Nat : b = Tens[j]
  BY TensFacts
<1> QED
  BY <1>7, <1>8, <1>9

\* Digits without a leading zero stand for as much as their number says, at least.
LEMMA ValueAtLeast ==
  ASSUME NEW s, Decimal(s), s # <<>>
  PROVE  Len(s) - 1 \in Nat /\ Tens[Len(s) - 1] <= Value(s)
<1>1. s \in Seq(0..9) /\ s[1] # 0
  BY DEF Decimal
<1>2. s \in Seq(Nat)
  BY DecimalDigits
<1>3. PICK n \in Nat : n = Len(s)
  BY <1>1
<1>4. n # 0 /\ \A i \in 1..n : s[i] \in 0..9
  BY <1>1, <1>3
<1>5. PICK g : Partials(s, n, g) /\ Value(s) = g[n]
  BY <1>2, <1>3, ValueOfPrefixes
<1>6. g[0] = 0 /\ \A i \in 1..n : g[i] = g[i - 1] * 10 + s[i]
  BY <1>5 DEF Partials
<1> DEFINE M == {i \in Nat : i + 1 <= n => g[i + 1] \in Nat /\ Tens[i] <= g[i + 1]}
<1>7. 0 \in M
  <2>1. 1 \in 1..n /\ 1 - 1 = 0
    BY <1>4
  <2>2. g[1] = g[0] * 10 + s[1]
    BY <1>6, <2>1
  <2>3. s[1] \in 1..9
    BY <1>1, <1>4, <2>1
  <2>4. g[1] = s[1]
    BY <1>6, <2>2, <2>3
  <2>5. g[1] \in Nat /\ Tens[0] <= g[1]
    <3>1. PICK first \in 1..9 : first = s[1]
      BY <2>3
    <3>2. Tens[0] = 1
      BY TensFacts
    <3>3. g[1] = first
      BY <2>4, <3>1
    <3> QED
      BY <3>2, <3>3
  <2> QED
    BY <2>5
<1>8. ASSUME NEW i \in M PROVE i + 1 \in M
  <2>1. i \in Nat /\ i + 1 \in Nat /\ ((i + 1) + 1) - 1 = i + 1
    OBVIOUS
  <2>2. ASSUME (i + 1) + 1 <= n
        PROVE  g[(i + 1) + 1] \in Nat /\ Tens[i + 1] <= g[(i + 1) + 1]
    <3>1. (i + 1) + 1 \in 1..n /\ i + 1 <= n
      BY <2>1, <2>2
    <3>2. PICK a \in Nat : a = g[i + 1] /\ Tens[i] <= a
      BY <3>1
    <3>3. PICK b \in 0..9 : b = s[(i + 1) + 1]
      BY <1>4, <3>1
    <3>4. g[(i + 1) + 1] = a * 10 + b
      BY <1>6, <2>1, <3>1, <3>2, <3>3
    <3>5. PICK c \in Nat : c = Tens[i] /\ Tens[i + 1] = 10 * c
      BY <2>1, TensFacts
    <3>6. c <= a
      BY <3>2, <3>5
    <3>7. 10 * c <= a * 10 + b /\ a * 10 + b \in Nat
      BY <3>6
    <3> QED
      BY <3>4, <3>5, <3>7
  <2> QED
    BY <2>1, <2>2
<1>9. M \in SUBSET Nat /\ \A i \in M : i + 1 \in M
  BY <1>8
<1> HIDE DEF M
<1>10. PICK m \in Nat : n = m + 1
  <2>1. n - 1 \in Nat /\ n = (n - 1) + 1
    BY <1>4
  <2> QED
    BY <2>1
<1>11. m \in M
  BY <1>7, <1>9, Successors
<1>12. Tens[m] <= g[m + 1]
  BY <1>10, <1>11 DEF M
<1>13. Len(s) - 1 = m
  BY <1>3, <1>10
<1> QED
  BY <1>5, <1>10, <1>12, <1>13

\* How many digits the width of the interval allows. upper is less than 10^16 times the width
\* of what surrounds a double (53 bits, narrowed a little by grisu2()), so that there are 17
\* digits at most, and the digits[18] of fpconv_dtoa() are enough.
THEOREM FewDigits ==
  ASSUME NEW upper \in Nat, NEW lower \in Nat \ {0}, lower < upper, upper < Tens[Kappa] * One,
         NEW w \in Nat, w <= upper, NEW p \in Nat, upper <= Tens[p] * (upper - lower)
  PROVE  Len(GenerateDigits(w, upper, lower).digits) <= p + 1
<1>1. PICK after : after = Generated(upper)
  OBVIOUS
<1>2. PICK n : n = LastRound(after, upper - lower)
  OBVIOUS
<1>3. PICK m \in Nat : n = m + 1 /\ StopsAfter(m, after[m], after[n], w, upper, lower)
  BY <1>1, <1>2, LastRoundStops
<1>4. PICK s : s = after[m].digits
  OBVIOUS
<1>5. PICK q : q = after[n].digits
  OBVIOUS
<1>6. PICK kappa : kappa = Kappa - n
  OBVIOUS
<1>7. PICK digit, unit, a, b, c, rem :
        /\ Stopped(q, s, digit, unit, a, b, c, rem)
        /\ a = Scaled(lower, kappa) /\ b = Scaled(upper, kappa)
  BY <1>3, <1>4, <1>5, <1>6 DEF StopsAfter
<1>8. /\ digit \in 0..9 /\ unit \in Nat \ {0} /\ a \in Nat /\ b \in Nat /\ rem \in Nat
      /\ Decimal(s) /\ q = Pushed(s, digit) /\ a < b
      /\ rem < unit /\ b = Value(q) * unit + rem /\ b - a <= rem + digit * unit
  BY <1>7 DEF Stopped
<1>9. PICK ten \in Nat \ {0} : ten = Tens[p]
  BY TensFacts
<1>10. b <= ten * (b - a)
  <2>1. PICK delta \in Nat \ {0} : delta = upper - lower
    OBVIOUS
  <2>2. upper <= ten * delta
    BY <1>9, <2>1
  <2>3. \E f \in Nat : a = lower * f /\ b = upper * f
    <3>1. kappa \in Int
      BY <1>3, <1>6, GrisuConstants
    <3>2. CASE kappa >= 0
      BY <1>7, <3>2 DEF Scaled
    <3>3. CASE ~(kappa >= 0)
      <4>1. -kappa \in Nat
        BY <3>1, <3>3
      <4>2. PICK f \in Nat : f = Tens[-kappa]
        BY <4>1, TensFacts
      <4> QED
        BY <1>7, <3>3, <4>2 DEF Scaled
    <3> QED
      BY <3>2, <3>3
  <2>4. PICK f \in Nat : a = lower * f /\ b = upper * f
    BY <2>3
  <2>5. b - a = delta * f
    BY <2>1, <2>4
  <2>6. PICK e \in Nat : ten * delta = upper + e
    <3>1. PICK x \in Nat : x = ten * delta
      OBVIOUS
    <3>2. x - upper \in Nat /\ x = upper + (x - upper)
      BY <2>2, <3>1
    <3> QED
      BY <3>1, <3>2
  <2>7. ten * (delta * f) = (ten * delta) * f
    OBVIOUS
  <2>8. (upper + e) * f = upper * f + e * f
    OBVIOUS
  <2>9. e * f \in Nat
    OBVIOUS
  <2> QED
    BY <1>8, <2>4, <2>5, <2>6, <2>7, <2>8, <2>9
<1>11. ASSUME s # <<>> PROVE Len(s) \in Nat /\ Len(s) <= p
  <2>1. Len(s) - 1 \in Nat /\ Tens[Len(s) - 1] <= Value(s)
    BY <1>8, <1>11, ValueAtLeast
  <2>2. PICK i \in Nat : i = Len(s) - 1
    BY <2>1
  <2>3. PICK least \in Nat \ {0} : least = Tens[i]
    BY TensFacts
  <2>4. PICK v \in Nat : v = Value(s)
    BY <1>8, DecimalDigits, ValueIsNumber
  <2>5. least <= v
    BY <2>1, <2>2, <2>3, <2>4
  <2>6. Value(q) = v * 10 + digit
    BY <1>8, <2>4, PushedDecimal
  <2>7. least * (10 * unit) <= b
    <3>1. PICK e \in Nat : v = least + e
      <4>1. v - least \in Nat /\ v = least + (v - least)
        BY <2>5
      <4> QED
        BY <4>1
    <3>2. (v * 10 + digit) * unit = least * (10 * unit) + (e * 10 + digit) * unit
      BY <1>8, <3>1
    <3>3. (e * 10 + digit) * unit \in Nat /\ least * (10 * unit) \in Nat
      BY <1>8
    <3> QED
      BY <1>8, <2>6, <3>2, <3>3
  <2>8. b - a < 10 * unit
    <3>1. 10 * unit = digit * unit + (10 - digit) * unit
      BY <1>8
    <3>2. PICK e \in Nat : 10 - digit = 1 + e
      <4>1. 9 - digit \in Nat /\ 10 - digit = 1 + (9 - digit)
        BY <1>8
      <4> QED
        BY <4>1
    <3>3. (1 + e) * unit = unit + e * unit /\ e * unit \in Nat /\ digit * unit \in Nat
      BY <1>8
    <3> QED
      BY <1>8, <3>1, <3>2, <3>3
  <2>9. least * (10 * unit) < ten * (10 * unit)
    <3>1. PICK d \in Nat : d = b - a
      BY <1>8
    <3>2. PICK e \in Nat : 10 * unit = d + 1 + e
      <4>1. PICK x \in Nat : x = 10 * unit
        BY <1>8
      <4>2. x - d - 1 \in Nat /\ x = d + 1 + (x - d - 1)
        BY <2>8, <3>1, <4>1
      <4> QED
        BY <4>1, <4>2
    <3>3. ten * (d + 1 + e) = ten * d + ten + ten * e
      OBVIOUS
    <3>4. ten * d \in Nat /\ ten * e \in Nat
      OBVIOUS
    <3>5. ten * d < ten * (10 * unit)
      BY <3>2, <3>3, <3>4
    <3>6. b <= ten * d
      BY <1>10, <3>1
    <3>7. PICK x \in Nat : x = least * (10 * unit)
      BY <1>8
    <3>8. PICK y \in Nat : y = ten * (10 * unit)
      BY <1>8
    <3> QED
      BY <1>8, <2>7, <3>4, <3>5, <3>6, <3>7, <3>8
  <2>10. PICK x \in Nat \ {0} : x = 10 * unit
    BY <1>8
  <2>11. least < ten
    BY <2>9, <2>10, MultiplesStrictlyOrdered
  <2>12. i < p
    BY <1>9, <2>3, <2>11, TensOrdered
  <2>13. Len(s) \in Nat
    BY <1>8 DEF Decimal
  <2> QED
    BY <2>2, <2>12, <2>13
<1>12. Len(q) \in Nat /\ Len(q) <= p + 1
  <2>1. s \in Seq(0..9)
    BY <1>8 DEF Decimal
  <2>2. CASE q = <<>>
    BY <2>2
  <2>3. CASE q # <<>>
    <3>1. q = Append(s, digit)
      BY <1>8, <2>3, PushedDecimal
    <3>2. Len(q) = Len(s) + 1
      BY <1>8, <2>1, <3>1, AppendProperties
    <3>3. s = <<>> => Len(s) = 0
      OBVIOUS
    <3> QED
      BY <1>11, <3>2, <3>3
  <2> QED
    BY <2>2, <2>3
<1>13. GenerateDigits(w, upper, lower).digits = [q EXCEPT ![Len(q)] =
         @ - IF n <= Kappa
             THEN Decrements(upper - lower, Left(after[n]), Tens[Kappa - n] * One, upper - w)
             ELSE Decrements((upper - lower) * Tens[n - Kappa], after[n].part2, One,
                             (upper - w) * Tens[n - Kappa])]
  BY <1>1, <1>2, <1>5 DEF GenerateDigits, Finished
<1>14. PICK d : GenerateDigits(w, upper, lower).digits = [q EXCEPT ![Len(q)] = d]
  BY <1>13
<1>15. Len([q EXCEPT ![Len(q)] = d]) = Len(q)
  <2>1. PICK k \in Nat : k = Len(q)
    BY <1>12
  <2>2. PICK r : r = [q EXCEPT ![k] = d]
    OBVIOUS
  <2>3. q \in Seq(0..9)
    BY <1>8, PushedDecimal DEF Decimal
  <2>4. DOMAIN r = 1..k
    BY <2>1, <2>2, <2>3
  <2>5. Len(r) = k
    BY <2>1, <2>2, <2>3, <2>4, LenProperties
  <2> QED
    BY <2>1, <2>2, <2>5
<1> QED
  BY <1>12, <1>14, <1>15

\* generate_digits() stays within the table of the powers of ten, where unit moves from 10
\* towards 10^19, and within 64 bits when it multiplies by ten what is left of the fraction
\* and the width of the interval: One is at most 2^60, so that there are 19 rounds of the
\* second loop at most, and both products are less than 10 * One.
THEOREM UnitsInTable ==
  ASSUME NEW upper \in Nat, NEW lower \in Nat \ {0}, lower < upper, upper < Tens[Kappa] * One,
         NEW p \in Nat, One <= Tens[p]
  PROVE  LET after == Generated(upper)
             n == LastRound(after, upper - lower) IN
         /\ n <= Kappa + p
         /\ \A k \in (Kappa + 1)..n : /\ after[k - 1].part2 * 10 < 10 * One
                                     /\ (upper - lower) * Tens[k - Kappa] < 10 * One
<1>1. PICK after : after = Generated(upper)
  OBVIOUS
<1>2. PICK delta \in Nat \ {0} : delta = upper - lower
  OBVIOUS
<1>3. PICK n : n = LastRound(after, delta)
  OBVIOUS
<1>4. n \in 1..(Kappa + One) /\ \A k \in 1..(n - 1) : ~Stops(after[k], k, delta)
  BY <1>1, <1>3, LastRoundExists
<1>5. ASSUME NEW k \in (Kappa + 1)..n
      PROVE  \E rest \in 0..(One - 1), ten \in Nat \ {0} :
               /\ rest = after[k - 1].part2 /\ ten = Tens[(k - 1) - Kappa]
               /\ delta * ten <= rest
  <2>1. PICK m \in Nat : m = k - 1
    BY GrisuConstants
  <2>2. m >= Kappa /\ m \in 1..(n - 1) /\ m - Kappa \in Nat
    BY <1>4, <2>1, GrisuConstants
  <2>3. PICK prev : prev = after[m]
    OBVIOUS
  <2>4. prev \in Rounding /\ InRound(prev, m, upper) /\ ~Stops(prev, m, delta)
    BY <1>1, <1>4, <2>2, <2>3, RoundsKeep
  <2>5. delta * Tens[m - Kappa] <= prev.part2
    BY <2>2, <2>4, DeltaWithinRest
  <2>6. prev.part2 \in 0..(One - 1)
    BY <2>4 DEF Rounding
  <2>7. Tens[m - Kappa] \in Nat \ {0}
    BY <2>2, TensFacts
  <2> QED
    BY <2>1, <2>3, <2>5, <2>6, <2>7
<1>6. ASSUME NEW k \in (Kappa + 1)..n
      PROVE  after[k - 1].part2 * 10 < 10 * One /\ delta * Tens[k - Kappa] < 10 * One
  <2>1. PICK rest \in 0..(One - 1), ten \in Nat \ {0} :
          /\ rest = after[k - 1].part2 /\ ten = Tens[(k - 1) - Kappa]
          /\ delta * ten <= rest
    BY <1>5
  <2>2. PICK j \in Nat : j = (k - 1) - Kappa /\ k - Kappa = j + 1
    <3>1. (k - 1) - Kappa \in Nat /\ k - Kappa = ((k - 1) - Kappa) + 1
      BY GrisuConstants
    <3> QED
      BY <3>1
  <2>3. Tens[k - Kappa] = 10 * ten
    BY <2>1, <2>2, TensFacts
  <2>4. delta * (10 * ten) = 10 * (delta * ten)
    OBVIOUS
  <2>5. PICK x \in Nat : x = delta * ten
    OBVIOUS
  <2> QED
    BY <2>1, <2>3, <2>4, <2>5, GrisuConstants
<1>7. n <= Kappa + p
  <2>1. SUFFICES ASSUME ~(n <= Kappa + p) PROVE FALSE
    OBVIOUS
  <2>2. n \in (Kappa + 1)..n
    BY <1>4, <2>1, GrisuConstants
  <2>3. PICK rest \in 0..(One - 1), ten \in Nat \ {0} :
          /\ rest = after[n - 1].part2 /\ ten = Tens[(n - 1) - Kappa]
          /\ delta * ten <= rest
    BY <1>5, <2>2
  <2>4. PICK j \in Nat : j = (n - 1) - Kappa
    BY <2>2, GrisuConstants
  <2>5. ten <= delta * ten
    <3>1. PICK e \in Nat : delta = 1 + e
      <4>1. delta - 1 \in Nat /\ delta = 1 + (delta - 1)
        OBVIOUS
      <4> QED
        BY <4>1
    <3>2. (1 + e) * ten = ten + e * ten /\ e * ten \in Nat
      OBVIOUS
    <3> QED
      BY <3>1, <3>2
  <2>6. PICK reach \in Nat : reach = Tens[p]
    BY TensFacts
  <2>7. ten < reach
    <3>1. PICK x \in Nat : x = delta * ten
      OBVIOUS
    <3> QED
      BY <2>3, <2>5, <2>6, <3>1, GrisuConstants
  <2>8. j < p
    BY <2>3, <2>4, <2>6, <2>7, TensOrdered
  <2> QED
    BY <1>4, <2>1, <2>4, <2>8, GrisuConstants
<1> QED
  BY <1>1, <1>2, <1>3, <1>6, <1>7

-----------------------------------------------------------------------------
(* The numbers of the runs. *)

\* The invariant: the numbers chosen are in order, within what the powers of ten reach.
NumberChosen ==
  kind = "number" =>
    /\ input.upper \in Nat /\ input.lower \in Nat \ {0} /\ input.w \in Nat
    /\ input.lower < input.upper /\ input.w <= input.upper /\ input.upper < Tens[Kappa] * One

\* Every number of the runs is generated as the shortest.
THEOREM DigitsAlwaysShortest == Spec => []ShortestDigits
<1>1. Init => NumberChosen
  BY DEF Init, NumberChosen
<1>2. NumberChosen /\ [Next]_vars => NumberChosen'
  <2> SUFFICES ASSUME NumberChosen, [Next]_vars PROVE NumberChosen'
    OBVIOUS
  <2>1. CASE ChooseNumber
    <3>1. PICK upper \in 2..(Tens[Kappa] * One - 1), width \in 2..MaxWidth :
            /\ width < upper
            /\ \E w \in {upper - width + 1, upper - width \div 2, upper - 1} :
                 input' = [w |-> w, upper |-> upper, lower |-> upper - width]
      BY <2>1, Zenon DEF ChooseNumber
    <3>2. PICK w \in {upper - width + 1, upper - width \div 2, upper - 1} :
            input' = [w |-> w, upper |-> upper, lower |-> upper - width]
      BY <3>1
    <3>3. Tens[Kappa] * One \in Nat
      <4>1. PICK ten \in Nat : ten = Tens[Kappa]
        BY TensFacts, GrisuConstants
      <4> QED
        BY <4>1, GrisuConstants
    <3>4. PICK reach \in Nat : reach = Tens[Kappa] * One
      BY <3>3
    <3>5. width \in Nat /\ width >= 2 /\ upper \in Nat /\ upper < reach
      BY <3>1, <3>4, BoundsAssumption
    <3>6. width \div 2 \in Nat /\ width \div 2 < width
      BY <3>5
    <3>7. w \in Nat /\ w <= upper /\ upper - width \in Nat \ {0} /\ upper - width < upper
      BY <3>1, <3>2, <3>5, <3>6
    <3>8. input'.w = w /\ input'.upper = upper /\ input'.lower = upper - width
      BY <3>2
    <3> QED
      BY <3>4, <3>5, <3>7, <3>8 DEF NumberChosen
  <2>2. CASE ~ ChooseNumber
    <3>1. ChooseAddress \/ ChooseDigits \/ ChooseFeatures \/ UNCHANGED vars
      BY <2>2 DEF Next
    <3>2. kind' # "number" \/ (kind' = kind /\ input' = input)
      BY <3>1 DEF ChooseAddress, ChooseDigits, ChooseFeatures, vars
    <3> QED
      BY <3>2 DEF NumberChosen
  <2> QED
    BY <2>1, <2>2
<1>3. NumberChosen => ShortestDigits
  <2> SUFFICES ASSUME NumberChosen, kind = "number" PROVE ShortestDigits
    BY DEF ShortestDigits
  <2>1. PICK upper : upper = input.upper
    OBVIOUS
  <2>2. PICK lower : lower = input.lower
    OBVIOUS
  <2>3. PICK w : w = input.w
    OBVIOUS
  <2>4. /\ upper \in Nat /\ lower \in Nat \ {0} /\ w \in Nat
        /\ lower < upper /\ w <= upper /\ upper < Tens[Kappa] * One
    BY <2>1, <2>2, <2>3 DEF NumberChosen
  <2>5. PICK r : r = GenerateDigits(w, upper, lower)
    OBVIOUS
  <2>6. /\ \A i \in DOMAIN r.digits : r.digits[i] \in 0..9
        /\ r.digits # <<>> /\ Head(r.digits) # 0
        /\ IsShortest(Value(r.digits), r.kappa, w, upper, lower)
    BY <2>4, <2>5, GeneratesShortest
  <2> QED
    BY <2>1, <2>2, <2>3, <2>5, <2>6, Zenon DEF ShortestDigits
<1> QED
  BY <1>1, <1>2, <1>3, PTL DEF Spec

-----------------------------------------------------------------------------
(* emit_digits(). *)

\* What numbers are written with.
Digits == {"0", "1", "2", "3", "4", "5", "6", "7", "8", "9"}
Symbol == Digits \union {".", "e", "-", "+"}

\* What memset(dest, '0', n) writes.
LEMMA ZerosFacts ==
  ASSUME NEW n \in Nat
  PROVE  Zeros(n) \in Seq(Symbol) /\ Len(Zeros(n)) = n
<1>1. Zeros(n) \in [1..n -> Symbol]
  BY DEF Zeros, Symbol, Digits
<1> QED
  BY <1>1

\* One character.
LEMMA OneCharacter ==
  ASSUME NEW c \in Symbol
  PROVE  <<c>> \in Seq(Symbol) /\ Len(<<c>>) = 1
OBVIOUS

\* Two parts one after the other, as long as both.
LEMMA PartsLength ==
  ASSUME NEW s \in Seq(Symbol), NEW t \in Seq(Symbol)
  PROVE  s \o t \in Seq(Symbol) /\ Len(s \o t) = Len(s) + Len(t)
BY ConcatProperties

\* A part of the digits.
LEMMA PartLength ==
  ASSUME NEW s \in Seq(Symbol), NEW i \in 1..(Len(s) + 1), NEW j \in Int, i - 1 <= j, j <= Len(s)
  PROVE  SubSeq(s, i, j) \in Seq(Symbol) /\ Len(SubSeq(s, i, j)) = j - i + 1
<1>1. \A k \in i..j : s[k] \in Symbol
  OBVIOUS
<1>2. i \in Int /\ j \in Int
  BY LenProperties
<1>3. /\ SubSeq(s, i, j) \in Seq(Symbol)
      /\ Len(SubSeq(s, i, j)) = IF i <= j THEN j - i + 1 ELSE 0
  BY <1>1, <1>2, SubSeqProperties
<1>4. ~ (i <= j) => j - i + 1 = 0
  BY <1>2
<1> QED
  BY <1>3, <1>4

\* A decimal digit is one character.
LEMMA DigitIsCharacter ==
  ASSUME NEW n \in 0..9
  PROVE  Digit(n) \in Symbol
<1>1. n + 1 \in 1..10
  OBVIOUS
<1>2. Char \in [1..10 -> Symbol]
  <2>1. DOMAIN Char = 1..10
    BY DEF Char
  <2>2. \A i \in 1..10 : Char[i] \in Digits
    BY DEF Char, Digits
  <2> QED
    BY <2>1, <2>2 DEF Char, Symbol
<1> QED
  BY <1>1, <1>2 DEF Digit

\* The exponent takes one to three characters.
LEMMA ExponentFacts ==
  ASSUME NEW e \in 0..999
  PROVE  Exponent(e) \in Seq(Symbol) /\ Len(Exponent(e)) \in 1..3
<1> DEFINE h == IF e > 99 THEN <<Digit(e \div 100)>> ELSE <<>>
           t == IF e > 9 THEN <<Digit((e % 100) \div 10)>> ELSE <<>>
           u == <<Digit(e % 10)>>
<1>1. e > 99 => e \div 100 \in 0..9
  OBVIOUS
<1>2. (e % 100) \div 10 \in 0..9
  OBVIOUS
<1>3. e % 10 \in 0..9
  OBVIOUS
<1>4. h \in Seq(Symbol) /\ Len(h) \in 0..1
  <2>1. CASE e > 99
    BY <1>1, <2>1, DigitIsCharacter, OneCharacter
  <2>2. CASE ~ (e > 99)
    BY <2>2
  <2> QED
    BY <2>1, <2>2
<1>5. t \in Seq(Symbol) /\ Len(t) \in 0..1
  <2>1. CASE e > 9
    BY <1>2, <2>1, DigitIsCharacter, OneCharacter
  <2>2. CASE ~ (e > 9)
    BY <2>2
  <2> QED
    BY <2>1, <2>2
<1>6. u \in Seq(Symbol) /\ Len(u) = 1
  BY <1>3, DigitIsCharacter, OneCharacter
<1>7. Exponent(e) = (h \o t) \o u
  BY DEF Exponent
<1> HIDE DEF h, t, u
<1>8. h \o t \in Seq(Symbol) /\ Len(h \o t) = Len(h) + Len(t)
  BY <1>4, <1>5, PartsLength
<1>9. PICK ht : ht = h \o t
  OBVIOUS
<1>10. ht \o u \in Seq(Symbol) /\ Len(ht \o u) = Len(ht) + Len(u)
  BY <1>6, <1>8, <1>9, PartsLength
<1>11. \A i \in 0..1, j \in 0..1 : i + j + 1 \in 1..3
  OBVIOUS
<1>12. Len(h) + Len(t) + 1 \in 1..3
  BY <1>4, <1>5, <1>11
<1> QED
  BY <1>6, <1>7, <1>8, <1>9, <1>10, <1>12

\* How long the text of n digits is, in each of its forms.
LengthInForm(len, n, K, exp) ==
  IF K >= 0 /\ exp < n + 7 THEN len = n + K
  ELSE IF K < 0 /\ (K > -7 \/ exp < 4)
  THEN len = IF n + K <= 0 THEN 2 - K ELSE n + 1
  ELSE len \in 4..(n + 6)

\* The text has this length.
LEMMA TextLength ==
  ASSUME NEW digits \in Seq(Symbol), Len(digits) \in 1..17, NEW K \in Int,
         Abs(K + Len(digits) - 1) \in 0..999, NEW neg
  PROVE  LengthInForm(Len(emit_digits(digits, K, neg)), Len(digits), K,
                      Abs(K + Len(digits) - 1))
<1>1. PICK n \in 1..17 : n = Len(digits)
  OBVIOUS
<1>2. PICK exp \in 0..999 : exp = Abs(K + n - 1)
  BY <1>1, ZenonT(60)
<1> SUFFICES LengthInForm(Len(emit_digits(digits, K, neg)), n, K, exp)
  BY <1>1, <1>2
<1> USE <1>1, <1>2
<1> DEFINE point == <<".">>
           offset == n - Abs(K)
           limit == IF neg THEN 17 ELSE 18
           kept == IF n > limit THEN limit ELSE n
<1>3. PICK text : text = emit_digits(digits, K, neg)
  OBVIOUS
<1>4. text = IF K >= 0 /\ exp < n + 7 THEN digits \o Zeros(K)
             ELSE IF K < 0 /\ (K > -7 \/ exp < 4)
             THEN IF offset <= 0 THEN <<"0", ".">> \o Zeros(-offset) \o digits
                  ELSE First(digits, offset) \o <<".">> \o Rest(digits, offset)
             ELSE <<digits[1]>> \o (IF kept > 1 THEN <<".">> \o SubSeq(digits, 2, kept) ELSE <<>>)
                    \o <<"e", IF K + kept - 1 < 0 THEN "-" ELSE "+">> \o Exponent(exp)
  BY <1>3, Zenon DEF emit_digits
<1>5. kept = n
  <2>1. (IF neg THEN 17 ELSE 18) \in {17, 18}
    OBVIOUS
  <2>2. \A k \in 1..17, m \in {17, 18} : ~ (k > m)
    OBVIOUS
  <2> QED
    BY <2>1, <2>2
<1> HIDE DEF kept
<1>6. point \in Seq(Symbol) /\ Len(point) = 1
  BY OneCharacter DEF Symbol
<1>7. CASE K >= 0 /\ exp < n + 7
  <2>1. text = digits \o Zeros(K)
    BY <1>7, <1>4
  <2>2. PICK z : z = Zeros(K)
    OBVIOUS
  <2>3. z \in Seq(Symbol) /\ Len(z) = K
    BY <1>7, <2>2, ZerosFacts
  <2>4. Len(text) = n + K
    BY <2>1, <2>2, <2>3, PartsLength
  <2> QED
    BY <1>3, <1>7, <2>4 DEF LengthInForm
<1>8. CASE K < 0 /\ (K > -7 \/ exp < 4)
  <2>1. Abs(K) = -K /\ n - Abs(K) = n + K
    BY <1>8 DEF Abs
  <2>2. CASE n + K <= 0
    <3>1. text = <<"0", ".">> \o Zeros(-(n + K)) \o digits
      <4>1. offset = n + K
        BY <2>1
      <4>2. ~ (K >= 0 /\ exp < n + 7)
        BY <1>8
      <4> HIDE DEF offset
      <4>3. text = <<"0", ".">> \o Zeros(-offset) \o digits
        BY <1>8, <1>4, <2>2, <4>1, <4>2
      <4> QED
        BY <4>1, <4>3
    <3>2. PICK m \in Nat : m = -(n + K)
      BY <2>2
    <3>3. PICK z : z = Zeros(m)
      OBVIOUS
    <3>4. z \in Seq(Symbol) /\ Len(z) = m
      BY <3>3, ZerosFacts
    <3>5. PICK s : s = <<"0", ".">>
      OBVIOUS
    <3>6. s \in Seq(Symbol) /\ Len(s) = 2
      BY <3>5 DEF Symbol, Digits
    <3>7. PICK sz : sz = s \o z
      OBVIOUS
    <3>8. sz \in Seq(Symbol) /\ Len(sz) = 2 + m
      BY <3>4, <3>6, <3>7, PartsLength
    <3>9. text = sz \o digits
      BY <3>1, <3>2, <3>3, <3>5, <3>7
    <3>10. Len(text) = 2 + m + n
      BY <3>8, <3>9, PartsLength
    <3>11. Len(text) = 2 - K
      BY <3>2, <3>10
    <3> QED
      BY <1>3, <1>8, <2>2, <3>11 DEF LengthInForm
  <2>3. CASE n + K > 0
    <3>1. PICK m \in 1..n : m = n + K
      BY <1>8, <2>3
    <3>2. text = First(digits, m) \o point \o Rest(digits, m)
      <4>1. offset = m
        BY <2>1, <3>1
      <4>2. ~ (K >= 0 /\ exp < n + 7) /\ ~ (m <= 0)
        BY <1>8
      <4> HIDE DEF offset
      <4>3. text = First(digits, offset) \o <<".">> \o Rest(digits, offset)
        BY <1>8, <1>4, <4>1, <4>2
      <4> QED
        BY <4>1, <4>3
    <3>3. PICK a : a = First(digits, m)
      OBVIOUS
    <3>4. PICK b : b = Rest(digits, m)
      OBVIOUS
    <3>5. a \in Seq(Symbol) /\ Len(a) = m
      <4>1. 1 \in 1..(Len(digits) + 1) /\ m \in Int /\ 1 - 1 <= m /\ m <= Len(digits)
        OBVIOUS
      <4> QED
        BY <3>3, <4>1, PartLength DEF First
    <3>6. b \in Seq(Symbol) /\ Len(b) = n - m
      <4>1. m + 1 \in 1..(n + 1) /\ n \in Int /\ (m + 1) - 1 <= n /\ n <= n
        OBVIOUS
      <4>2. b = SubSeq(digits, m + 1, n)
        BY <3>4 DEF Rest
      <4>3. b \in Seq(Symbol) /\ Len(b) = n - (m + 1) + 1
        BY <4>1, <4>2, PartLength
      <4> QED
        BY <4>3
    <3>7. PICK ap : ap = a \o point
      OBVIOUS
    <3>8. ap \in Seq(Symbol) /\ Len(ap) = m + 1
      BY <1>6, <3>5, <3>7, PartsLength
    <3>9. text = ap \o b
      BY <3>2, <3>3, <3>4, <3>7
    <3>10. Len(text) = (m + 1) + (n - m)
      BY <3>6, <3>8, <3>9, PartsLength
    <3> QED
      BY <1>3, <1>8, <2>3, <3>10 DEF LengthInForm
  <2> QED
    BY <2>2, <2>3
<1>9. CASE /\ ~ (K >= 0 /\ exp < n + 7)
           /\ ~ (K < 0 /\ (K > -7 \/ exp < 4))
  <2> DEFINE d == <<digits[1]>>
             f == IF n > 1 THEN point \o SubSeq(digits, 2, n) ELSE <<>>
             e == <<"e", IF K + n - 1 < 0 THEN "-" ELSE "+">>
             x == Exponent(exp)
  <2>1. text = d \o f \o e \o x
    BY <1>9, <1>4, <1>5
  <2>2. d \in Seq(Symbol) /\ Len(d) = 1
    <3>1. 1 \in 1..Len(digits)
      OBVIOUS
    <3>2. digits[1] \in Symbol
      BY <3>1, ElementOfSeq
    <3> QED
      BY <3>2, OneCharacter
  <2>3. f \in Seq(Symbol) /\ Len(f) \in 0..n
    <3>1. CASE n > 1
      <4>1. PICK r : r = SubSeq(digits, 2, n)
        OBVIOUS
      <4>2. 2 \in 1..(n + 1) /\ n \in Int /\ 2 - 1 <= n /\ n <= n
        BY <3>1
      <4>3. r \in Seq(Symbol) /\ Len(r) = n - 2 + 1
        BY <4>1, <4>2, PartLength
      <4>4. point \o r \in Seq(Symbol) /\ Len(point \o r) = 1 + (n - 2 + 1)
        BY <1>6, <4>3, PartsLength
      <4> QED
        BY <3>1, <4>1, <4>4
    <3>2. CASE ~ (n > 1)
      BY <3>2
    <3> QED
      BY <3>1, <3>2
  <2>4. e \in Seq(Symbol) /\ Len(e) = 2
    <3>1. "e" \in Symbol /\ (IF K + n - 1 < 0 THEN "-" ELSE "+") \in Symbol
      BY DEF Symbol
    <3> QED
      BY <3>1
  <2>5. x \in Seq(Symbol) /\ Len(x) \in 1..3
    BY ExponentFacts, ZenonT(60)
  <2> HIDE DEF d, f, e, x
  <2>6. PICK df : df = d \o f
    OBVIOUS
  <2>7. df \in Seq(Symbol) /\ Len(df) = 1 + Len(f)
    BY <2>2, <2>3, <2>6, PartsLength
  <2>8. PICK dfe : dfe = df \o e
    OBVIOUS
  <2>9. dfe \in Seq(Symbol) /\ Len(dfe) = 1 + Len(f) + 2
    BY <2>4, <2>7, <2>8, PartsLength
  <2>10. Len(text) = 1 + Len(f) + 2 + Len(x)
    BY <2>1, <2>5, <2>6, <2>8, <2>9, PartsLength, ZenonT(60)
  <2>11. \A i \in 0..n, j \in 1..3 : 1 + i + 2 + j \in 4..(n + 6)
    OBVIOUS
  <2>12. 1 + Len(f) + 2 + Len(x) \in 4..(n + 6)
    BY <2>3, <2>5, <2>11
  <2>13. Len(text) \in 4..(n + 6)
    BY <2>10, <2>12
  <2> QED
    BY <1>3, <1>9, <2>13 DEF LengthInForm
<1> QED
  BY <1>7, <1>8, <1>9

\* Whether the text fits the 24 characters with its sign: a negative integer of 17 digits
\* and seven zeros takes one more.
Fits(digits, K, neg) ==
  \/ Len(emit_digits(digits, K, neg)) + (IF neg THEN 1 ELSE 0) <= 24
  \/ neg /\ Len(digits) = 17 /\ K = 7

\* It fits, whatever stands for the sign.
LEMMA TextFitsForSign ==
  ASSUME NEW digits \in Seq(Symbol), Len(digits) \in 1..17, NEW K \in Int,
         Abs(K + Len(digits) - 1) <= 999, NEW neg
  PROVE  Fits(digits, K, neg)
<1>1. PICK n \in 1..17 : n = Len(digits)
  OBVIOUS
<1>2. PICK exp \in 0..999 : exp = Abs(K + n - 1)
  <2>1. PICK m \in Int : m = K + n - 1
    OBVIOUS
  <2>2. Abs(m) <= 999
    BY <1>1, <2>1
  <2>3. Abs(m) \in 0..999
    BY <2>2 DEF Abs
  <2> QED
    BY <2>1, <2>3, ZenonT(60)
<1>3. PICK len : len = Len(emit_digits(digits, K, neg))
  BY ZenonT(60)
<1>4. PICK sign \in 0..1 : sign = (IF neg THEN 1 ELSE 0) /\ (sign = 1 => neg)
  OBVIOUS
<1>5. exp = K + n - 1 \/ exp = -(K + n - 1)
  BY <1>2 DEF Abs
<1>6. LengthInForm(len, n, K, exp)
  <2>1. LengthInForm(Len(emit_digits(digits, K, neg)), n, K, exp)
    <3>1. Abs(K + Len(digits) - 1) \in 0..999
      BY <1>1, <1>2
    <3>2. LengthInForm(Len(emit_digits(digits, K, neg)), Len(digits), K,
                       Abs(K + Len(digits) - 1))
      BY <3>1, TextLength, ZenonT(60)
    <3> QED
      BY <1>1, <1>2, <3>2
  <2> QED
    BY <1>3, <2>1
<1>7. CASE K >= 0 /\ exp < n + 7
  <2>1. len = n + K /\ K <= 7
    BY <1>5, <1>6, <1>7 DEF LengthInForm
  <2>2. len + sign <= 24 \/ (sign = 1 /\ n = 17 /\ K = 7)
    BY <2>1
  <2> QED
    BY <1>1, <1>3, <1>4, <2>2 DEF Fits
<1>8. CASE K < 0 /\ (K > -7 \/ exp < 4)
  <2>1. len = (IF n + K <= 0 THEN 2 - K ELSE n + 1) /\ -K <= 19
    BY <1>5, <1>6, <1>8 DEF LengthInForm
  <2>2. len + sign <= 24
    BY <2>1
  <2> QED
    BY <1>1, <1>3, <1>4, <2>2 DEF Fits
<1>9. CASE ~ (K >= 0 /\ exp < n + 7) /\ ~ (K < 0 /\ (K > -7 \/ exp < 4))
  <2>1. len \in 4..(n + 6)
    BY <1>6, <1>9 DEF LengthInForm
  <2>2. len + sign <= 24
    BY <2>1
  <2> QED
    BY <1>1, <1>3, <1>4, <2>2 DEF Fits
<1> QED
  BY <1>7, <1>8, <1>9

\* What emit_digits() writes fits the 24 characters of fpconv_dtoa(), except that a negative
\* integer of 17 digits and seven zeros takes one more (TextReadsBack checks this on
\* patterns of digits): for all digits grisu2() can yield, at most 17, and all exponents
\* of up to three digits.
THEOREM TextFits ==
  ASSUME NEW digits \in Seq(Symbol), Len(digits) \in 1..17, NEW K \in Int,
         Abs(K + Len(digits) - 1) <= 999
  PROVE  \A neg \in BOOLEAN :
           \/ Len(emit_digits(digits, K, neg)) + (IF neg THEN 1 ELSE 0) <= 24
           \/ neg /\ Len(digits) = 17 /\ K = 7
<1>1. \A neg : Fits(digits, K, neg)
  BY TextFitsForSign
<1>2. \A neg \in BOOLEAN : Fits(digits, K, neg)
  BY <1>1, Zenon
<1> QED
  BY <1>2, Zenon DEF Fits

-----------------------------------------------------------------------------
(* Reading a number: where its parts are. *)

\* A part of a text.
LEMMA CutOut ==
  ASSUME NEW S, NEW t \in Seq(S), NEW b \in Seq(S), NEW k \in Nat, k + Len(b) <= Len(t),
         \A i \in 1..Len(b) : t[k + i] = b[i]
  PROVE  SubSeq(t, k + 1, k + Len(b)) = b
<1> DEFINE m == Len(b)
           p == k + 1
           q == k + m
<1>1. m \in Nat /\ Len(t) \in Nat
  BY LenProperties
<1>2. ASSUME NEW i \in p..q PROVE t[i] \in S
  <2>1. i \in 1..Len(t)
    BY <1>1
  <2> QED
    BY <2>1, ElementOfSeq
<1> HIDE DEF m
<1>3. p \in Int /\ q \in Int /\ q - p + 1 = m /\ (~(p <= q) => m = 0)
  BY <1>1
<1>4. \A i \in 1..m : p + i - 1 = k + i
  BY <1>1
<1> HIDE DEF p, q
<1>5. /\ SubSeq(t, p, q) \in Seq(S)
      /\ Len(SubSeq(t, p, q)) = IF p <= q THEN q - p + 1 ELSE 0
      /\ \A i \in 1..(q - p + 1) : SubSeq(t, p, q)[i] = t[p + i - 1]
  BY <1>2, <1>3, SubSeqProperties
<1>6. Len(SubSeq(t, p, q)) = m
  BY <1>3, <1>5
<1>7. \A i \in 1..m : SubSeq(t, p, q)[i] = b[i]
  BY <1>3, <1>4, <1>5 DEF m
<1> QED
  BY <1>5, <1>6, <1>7, SeqEqual DEF m, p, q

\* Two texts with a character between them.
Joins(t, a, c, b) == t = a \o <<c>> \o b

LEMMA Between ==
  ASSUME NEW S, NEW a \in Seq(S), NEW b \in Seq(S), NEW c \in S, NEW t, Joins(t, a, c, b)
  PROVE  /\ t \in Seq(S) /\ Len(t) = Len(a) + 1 + Len(b)
         /\ Len(a) \in Nat /\ Len(b) \in Nat
         /\ \A i \in 1..Len(a) : t[i] = a[i]
         /\ t[Len(a) + 1] = c
         /\ \A i \in 1..Len(b) : t[Len(a) + 1 + i] = b[i]
         /\ First(t, Len(a)) = a /\ Rest(t, Len(a) + 1) = b
<1> DEFINE n == Len(a)
           m == Len(b)
           d == a \o <<c>>
<1>1. n \in Nat /\ m \in Nat
  BY LenProperties
<1>2. <<c>> \in Seq(S) /\ Len(<<c>>) = 1 /\ <<c>>[1] = c
  OBVIOUS
<1>3. /\ d \in Seq(S) /\ Len(d) = n + 1
      /\ \A i \in 1..(n + 1) : d[i] = IF i <= n THEN a[i] ELSE <<c>>[i - n]
  BY <1>2, ConcatProperties
<1>4. t = d \o b
  BY DEF Joins
<1> HIDE DEF d
<1>5. /\ t \in Seq(S) /\ Len(t) = Len(d) + m
      /\ \A i \in 1..(Len(d) + m) : t[i] = IF i <= Len(d) THEN d[i] ELSE b[i - Len(d)]
  BY <1>3, <1>4, ConcatProperties
<1> HIDE DEF n, m
<1>6. Len(t) = n + 1 + m /\ \A i \in 1..(n + 1 + m) : t[i] = IF i <= n + 1 THEN d[i] ELSE b[i - (n + 1)]
  BY <1>3, <1>5
<1>7. \A i \in 1..n : t[i] = a[i]
  <2>1. \A i \in 1..n : i \in 1..(n + 1) /\ i \in 1..(n + 1 + m) /\ i <= n /\ i <= n + 1
    BY <1>1
  <2> QED
    BY <1>3, <1>6, <2>1
<1>8. t[n + 1] = c
  <2>1. /\ n + 1 \in 1..(n + 1) /\ n + 1 \in 1..(n + 1 + m) /\ ~(n + 1 <= n)
        /\ (n + 1) - n = 1
    BY <1>1
  <2> QED
    BY <1>2, <1>3, <1>6, <2>1
<1>9. ASSUME NEW i \in 1..m PROVE t[n + 1 + i] = b[i]
  <2>1. n + 1 + i \in 1..(n + 1 + m) /\ ~(n + 1 + i <= n + 1) /\ (n + 1 + i) - (n + 1) = i
    BY <1>1
  <2> QED
    BY <1>6, <2>1
<1>10. SubSeq(t, 1, n) = a
  <2>1. /\ 0 + 1 = 1 /\ 0 + n = n /\ 0 + n <= n + 1 + m
        /\ \A i \in 1..n : 0 + i = i
    BY <1>1
  <2>2. /\ 0 + Len(a) <= Len(t) /\ \A i \in 1..Len(a) : t[0 + i] = a[i]
    BY <1>6, <1>7, <2>1 DEF n
  <2>3. SubSeq(t, 0 + 1, 0 + Len(a)) = a
    BY <1>5, <2>2, CutOut
  <2> QED
    BY <2>1, <2>3 DEF n
<1>11. SubSeq(t, n + 2, Len(t)) = b
  <2>1. /\ (n + 1) + 1 = n + 2 /\ n + 1 \in Nat /\ (n + 1) + m = Len(t)
        /\ (n + 1) + m <= Len(t)
    BY <1>1, <1>6
  <2>2. PICK k \in Nat : k = n + 1
    BY <2>1
  <2>3. k + Len(b) <= Len(t) /\ \A i \in 1..Len(b) : t[k + i] = b[i]
    BY <1>9, <2>1, <2>2 DEF m
  <2>4. SubSeq(t, k + 1, k + Len(b)) = b
    BY <1>5, <2>3, CutOut
  <2> QED
    BY <2>1, <2>2, <2>4 DEF m
<1>12. (n + 1) + 1 = n + 2
  BY <1>1
<1> QED
  BY <1>1, <1>5, <1>6, <1>7, <1>8, <1>9, <1>10, <1>11, <1>12 DEF n, m, First, Rest

\* A text as a whole, and what is behind its end.
LEMMA WholeText ==
  ASSUME NEW S, NEW t \in Seq(S)
  PROVE  First(t, Len(t)) = t /\ Rest(t, Len(t) + 1) = <<>> /\ Rest(t, Len(t)) = <<>>
<1> DEFINE n == Len(t)
<1>1. n \in Nat /\ \A i \in 1..n : t[i] \in S
  BY LenProperties, ElementOfSeq
<1>2. First(t, n) = t
  BY SubSeqFull DEF First
<1> HIDE DEF n
<1>3. ASSUME NEW k \in Nat, k > n PROVE SubSeq(t, k, n) = <<>>
  <2>1. \A i \in k..n : t[i] \in S
    BY <1>1, <1>3
  <2>2. SubSeq(t, k, n) \in Seq(S) /\ Len(SubSeq(t, k, n)) = IF k <= n THEN n - k + 1 ELSE 0
    BY <1>1, <2>1, SubSeqProperties
  <2>3. Len(SubSeq(t, k, n)) = 0
    BY <1>1, <1>3, <2>2
  <2> QED
    BY <2>2, <2>3, EmptySeq
<1>4. n + 1 \in Nat /\ n + 1 > n /\ (n + 1) + 1 \in Nat /\ (n + 1) + 1 > n
  BY <1>1
<1>5. SubSeq(t, n + 1, n) = <<>> /\ SubSeq(t, (n + 1) + 1, n) = <<>>
  BY <1>3, <1>4
<1> QED
  BY <1>2, <1>5 DEF Rest, n

\* Where a character is that is there once, or not at all.
LEMMA PositionOnce ==
  ASSUME NEW S, NEW t \in Seq(S), NEW c, NEW i \in 1..Len(t), t[i] = c,
         \A j \in 1..Len(t) : t[j] = c => j = i
  PROVE  Position(t, c) = i
<1>1. DOMAIN t = 1..Len(t) /\ Contains(t, c)
  BY LenProperties DEF Contains
<1>2. \A j \in DOMAIN t : t[j] = c => j = i
  BY <1>1
<1> QED
  BY <1>1, <1>2 DEF Position

LEMMA PositionNone ==
  ASSUME NEW t, NEW c, \A j \in 1..Len(t) : t[j] # c
  PROVE  Position(t, c) = Len(t) + 1
BY DEF Position, Contains
\* A number without an exponent: its digits before and behind the point, if it has one.
Splits(mant, w, f) ==
  /\ w \in Seq(Digits) /\ f \in Seq(Digits)
  /\ (mant = w /\ f = <<>>) \/ mant = w \o <<".">> \o f

LEMMA DigitsPlain ==
  ASSUME NEW s \in Seq(Digits)
  PROVE  /\ s \in Seq(Symbol) /\ Len(s) \in Nat
         /\ \A i \in 1..Len(s) : s[i] # "." /\ s[i] # "e"
<1>1. Digits \subseteq Symbol
  BY DEF Symbol
<1>2. \A i \in 1..Len(s) : s[i] \in Digits
  BY ElementOfSeq
<1>3. \A c \in Digits : c # "." /\ c # "e"
  BY DEF Digits
<1>4. s \in Seq(Symbol)
  BY <1>1, SeqMonotonic
<1> QED
  BY <1>2, <1>3, <1>4, LenProperties

LEMMA MantissaFacts ==
  ASSUME NEW mant, NEW w, NEW f, Splits(mant, w, f)
  PROVE  /\ mant \in Seq(Symbol) /\ \A i \in 1..Len(mant) : mant[i] # "e"
         /\ First(mant, Position(mant, ".") - 1) = w /\ Rest(mant, Position(mant, ".")) = f
<1>1. /\ w \in Seq(Symbol) /\ Len(w) \in Nat /\ f \in Seq(Symbol) /\ Len(f) \in Nat
      /\ \A i \in 1..Len(w) : w[i] # "." /\ w[i] # "e"
      /\ \A i \in 1..Len(f) : f[i] # "." /\ f[i] # "e"
  BY DigitsPlain DEF Splits
<1> DEFINE n == Len(w)
           m == Len(f)
<1>2. CASE mant = w /\ f = <<>>
  <2>1. Position(mant, ".") = n + 1
    BY <1>1, <1>2, PositionNone
  <2>2. First(mant, n) = w /\ Rest(mant, n + 1) = f
    BY <1>1, <1>2, WholeText
  <2>3. (n + 1) - 1 = n
    BY <1>1
  <2> QED
    BY <1>1, <1>2, <2>1, <2>2, <2>3
<1>3. CASE mant = w \o <<".">> \o f
  <2>1. "." \in Symbol
    BY DEF Symbol
  <2>9. Joins(mant, w, ".", f)
    BY <1>3 DEF Joins
  <2>2. /\ mant \in Seq(Symbol) /\ Len(mant) = n + 1 + m
        /\ (\A i \in 1..n : mant[i] = w[i]) /\ mant[n + 1] = "."
        /\ (\A i \in 1..m : mant[n + 1 + i] = f[i])
        /\ First(mant, n) = w /\ Rest(mant, n + 1) = f
    BY <1>1, <2>1, <2>9, Between
  <2>3. n \in Nat /\ m \in Nat
    BY <1>1
  <2> HIDE DEF n, m
  <2>4. ASSUME NEW i \in 1..Len(mant)
        PROVE  i \in 1..n \/ i = n + 1 \/ \E j \in 1..m : i = n + 1 + j
    <3>1. i \in 1..(n + 1 + m)
      BY <2>2
    <3>2. CASE i > n + 1
      <4>1. i - (n + 1) \in 1..m /\ i = n + 1 + (i - (n + 1))
        BY <2>3, <3>1, <3>2
      <4> QED
        BY <4>1
    <3>3. CASE ~(i > n + 1)
      BY <2>3, <3>1, <3>3
    <3> QED
      BY <3>2, <3>3
  <2>5. \A i \in 1..Len(mant) : mant[i] # "e" /\ (mant[i] = "." => i = n + 1)
    <3>1. \A i \in 1..n : mant[i] # "e" /\ mant[i] # "."
      BY <1>1, <2>2 DEF n
    <3>2. \A i \in 1..m : mant[n + 1 + i] # "e" /\ mant[n + 1 + i] # "."
      BY <1>1, <2>2 DEF m
    <3> QED
      BY <2>2, <2>4, <3>1, <3>2
  <2>6. n + 1 \in 1..Len(mant) /\ (n + 1) - 1 = n
    BY <2>2, <2>3
  <2>7. PICK k : k = n + 1
    OBVIOUS
  <2>8. Position(mant, ".") = k
    BY <2>2, <2>5, <2>6, <2>7, PositionOnce
  <2> QED
    BY <2>2, <2>5, <2>6, <2>7, <2>8
<1> QED
  BY <1>2, <1>3 DEF Splits

\* What is read behind the "e", and with it.
ExponentOf(tail) ==
  IF tail = <<>> THEN 0
  ELSE IF tail[1] = "-" THEN -Natural(Tail(tail)) ELSE Natural(Tail(tail))
ReadParts(mant, tail) ==
  LET point == Position(mant, ".")
      fraction == Rest(mant, point) IN
  Stripped(First(mant, point - 1) \o fraction, ExponentOf(tail) - Len(fraction))

LEMMA ReadIs ==
  ASSUME NEW text
  PROVE  LET e == Position(text, "e") IN Read(text) = ReadParts(First(text, e - 1), Rest(text, e))
BY DEF Read, ReadParts, ExponentOf

\* A number without an exponent.
LEMMA ReadPlain ==
  ASSUME NEW mant, NEW w, NEW f, Splits(mant, w, f)
  PROVE  Read(mant) = Stripped(w \o f, 0 - Len(f))
<1>1. /\ mant \in Seq(Symbol) /\ \A i \in 1..Len(mant) : mant[i] # "e"
      /\ First(mant, Position(mant, ".") - 1) = w /\ Rest(mant, Position(mant, ".")) = f
  BY MantissaFacts
<1>2. Position(mant, "e") = Len(mant) + 1
  BY <1>1, PositionNone
<1>3. First(mant, Len(mant)) = mant /\ Rest(mant, Len(mant) + 1) = <<>>
  BY <1>1, WholeText
<1>4. (Len(mant) + 1) - 1 = Len(mant)
  BY <1>1, LenProperties
<1>5. Read(mant) = ReadParts(mant, <<>>)
  BY <1>2, <1>3, <1>4, ReadIs
<1>6. ExponentOf(<<>>) = 0
  BY DEF ExponentOf
<1> QED
  BY <1>1, <1>5, <1>6 DEF ReadParts

\* A number with one.
Signed(sign, n) == IF sign = "-" THEN -n ELSE n

Scientific(text, mant, sign, x) ==
  sign \in {"-", "+"} /\ text = mant \o <<"e">> \o (<<sign>> \o x)

LEMMA ReadScientific ==
  ASSUME NEW mant, NEW w, NEW f, Splits(mant, w, f), NEW sign, NEW x \in Seq(Digits),
         NEW text, Scientific(text, mant, sign, x)
  PROVE  Read(text) = Stripped(w \o f, Signed(sign, Natural(x)) - Len(f))
<1>1. /\ mant \in Seq(Symbol) /\ \A i \in 1..Len(mant) : mant[i] # "e"
      /\ First(mant, Position(mant, ".") - 1) = w /\ Rest(mant, Position(mant, ".")) = f
  BY MantissaFacts
<1>2. PICK tail : tail = <<sign>> \o x
  OBVIOUS
<1>3. /\ tail \in Seq(Symbol) /\ tail[1] = sign /\ tail # <<>> /\ Tail(tail) = x
      /\ Len(tail) \in Nat /\ \A i \in 1..Len(tail) : tail[i] # "e"
  <2> DEFINE m == Len(x)
  <2>1. x \in Seq(Symbol) /\ m \in Nat /\ \A i \in 1..m : x[i] # "e"
    BY DigitsPlain
  <2>2. PICK h : h = <<sign>>
    OBVIOUS
  <2>3. h \in Seq(Symbol) /\ Len(h) = 1 /\ h[1] = sign /\ sign # "e"
    BY <2>2 DEF Symbol, Scientific
  <2>4. /\ tail \in Seq(Symbol) /\ Len(tail) = 1 + m
        /\ \A i \in 1..(1 + m) : tail[i] = IF i <= 1 THEN h[i] ELSE x[i - 1]
    BY <1>2, <2>1, <2>2, <2>3, ConcatProperties
  <2> HIDE DEF m
  <2>5. tail[1] = sign /\ \A i \in 1..m : tail[i + 1] = x[i]
    <3>1. 1 \in 1..(1 + m) /\ \A i \in 1..m : i + 1 \in 1..(1 + m) /\ ~(i + 1 <= 1) /\ (i + 1) - 1 = i
      BY <2>1
    <3> QED
      BY <2>3, <2>4, <3>1
  <2>6. \A i \in 1..Len(tail) : tail[i] # "e"
    <3>1. \A i \in 1..(1 + m) : i <= 1 => i = 1
      OBVIOUS
    <3>2. \A i \in 1..(1 + m) : ~(i <= 1) => i - 1 \in 1..m
      BY <2>1
    <3> QED
      BY <2>1, <2>3, <2>4, <3>1, <3>2
  <2>7. tail # <<>>
    <3>1. 1 + m # 0
      BY <2>1
    <3> QED
      BY <2>4, <3>1, EmptySeq
  <2>8. Tail(tail) = x
    <3>1. /\ Tail(tail) \in Seq(Symbol) /\ Len(Tail(tail)) = Len(tail) - 1
          /\ \A i \in 1..(Len(tail) - 1) : Tail(tail)[i] = tail[i + 1]
      BY <2>4, <2>7, TailFacts
    <3>2. Len(tail) - 1 = m
      BY <2>1, <2>4
    <3> QED
      BY <2>1, <2>5, <3>1, <3>2, SeqEqual DEF m
  <2>9. Len(tail) \in Nat
    BY <2>1, <2>4
  <2> QED
    BY <2>4, <2>5, <2>6, <2>7, <2>8, <2>9
<1>4. text = mant \o <<"e">> \o tail
  BY <1>2 DEF Scientific
<1> DEFINE n == Len(mant)
           m == Len(tail)
<1>5. "e" \in Symbol
  BY DEF Symbol
<1>6. /\ text \in Seq(Symbol) /\ Len(text) = n + 1 + m /\ n \in Nat /\ m \in Nat
      /\ (\A i \in 1..n : text[i] = mant[i]) /\ text[n + 1] = "e"
      /\ (\A i \in 1..m : text[n + 1 + i] = tail[i])
      /\ First(text, n) = mant /\ Rest(text, n + 1) = tail
  <2>1. Joins(text, mant, "e", tail)
    BY <1>4 DEF Joins
  <2> QED
    BY <1>1, <1>3, <1>5, <2>1, Between
<1>7. (\A i \in 1..n : mant[i] # "e") /\ \A i \in 1..m : tail[i] # "e"
  BY <1>1, <1>3
<1> HIDE DEF n, m
<1>8. ASSUME NEW i \in 1..Len(text), text[i] = "e" PROVE i = n + 1
  <2>1. i \in 1..(n + 1 + m)
    BY <1>6
  <2>2. CASE i > n + 1
    <3>1. PICK j \in 1..m : i = n + 1 + j
      <4>1. i - (n + 1) \in 1..m /\ i = n + 1 + (i - (n + 1))
        BY <1>6, <2>1, <2>2
      <4> QED
        BY <4>1
    <3>2. text[n + 1 + j] = tail[j] /\ tail[j] # "e"
      BY <1>6, <1>7
    <3> QED
      BY <1>8, <3>1, <3>2
  <2>3. CASE i < n + 1
    <3>1. i \in 1..n
      BY <1>6, <2>1, <2>3
    <3> QED
      BY <1>6, <1>7, <1>8, <3>1
  <2> QED
    BY <1>6, <2>1, <2>2, <2>3
<1>9. n + 1 \in 1..Len(text) /\ (n + 1) - 1 = n
  BY <1>6
<1>10. PICK k : k = n + 1
  OBVIOUS
<1>11. Position(text, "e") = k
  BY <1>6, <1>8, <1>9, <1>10, PositionOnce
<1>12. Read(text) = ReadParts(mant, tail)
  BY <1>6, <1>9, <1>10, <1>11, ReadIs
<1>13. ExponentOf(tail) = Signed(sign, Natural(x))
  BY <1>3 DEF ExponentOf, Signed
<1> QED
  BY <1>1, <1>2, <1>4, <1>12, <1>13 DEF ReadParts

-----------------------------------------------------------------------------
(* The exponent reads back. *)

\* What a character stands for.
Worth(c) == CHOOSE d \in 0..9 : Digit(d) = c

LEMMA WorthOfDigit ==
  ASSUME NEW d \in 0..9
  PROVE  Digit(d) \in Digits /\ Worth(Digit(d)) = d
<1>1. /\ Digit(0) = "0" /\ Digit(1) = "1" /\ Digit(2) = "2" /\ Digit(3) = "3" /\ Digit(4) = "4"
      /\ Digit(5) = "5" /\ Digit(6) = "6" /\ Digit(7) = "7" /\ Digit(8) = "8" /\ Digit(9) = "9"
  BY DEF Digit, Char
<1>2. \A a \in 0..9 : a \in {0, 1, 2, 3, 4, 5, 6, 7, 8, 9}
  OBVIOUS
<1>3. \A a \in 0..9, b \in 0..9 : Digit(a) = Digit(b) => a = b
  BY <1>1, <1>2
<1>4. Digit(d) \in Digits
  BY <1>1, <1>2 DEF Digits
<1> QED
  BY <1>3, <1>4 DEF Worth

LEMMA WorthOfCharacter ==
  ASSUME NEW c \in Digits
  PROVE  Worth(c) \in 0..9
<1>1. /\ Digit(0) = "0" /\ Digit(1) = "1" /\ Digit(2) = "2" /\ Digit(3) = "3" /\ Digit(4) = "4"
      /\ Digit(5) = "5" /\ Digit(6) = "6" /\ Digit(7) = "7" /\ Digit(8) = "8" /\ Digit(9) = "9"
  BY DEF Digit, Char
<1>2. \E d \in 0..9 : Digit(d) = c
  BY <1>1 DEF Digits
<1> QED
  BY <1>2 DEF Worth

\* Natural() reads the digits from the left.
ReadsTo(g, q, n, last) ==
  g[0] = 0 /\ g[n] = last /\ \A k \in 1..n : g[k] = g[k - 1] * 10 + Worth(q[k])

LEMMA NaturalSteps ==
  ASSUME NEW n \in Nat, NEW q \in [1..n -> Digits]
  PROVE  \E g : ReadsTo(g, q, n, Natural(q))
<1> DEFINE T == [i \in 1..n |-> [x \in Nat |-> x * 10 + Worth(q[i])]]
           Step(f, s) == IF s = {} THEN 0 ELSE f[s \ {Max(s)}] * 10 + Worth(q[Max(s)])
           Solves(f) == f = [s \in SUBSET (1..n) |-> Step(f, s)]
           iter == CHOOSE f : Solves(f)
<1>1. Natural(q) = iter[1..n]
  <2>1. DOMAIN q = 1..n
    OBVIOUS
  <2> QED
    BY <2>1 DEF Natural, FoldLeft, MapThenFoldSet, Worth
<1>2. T \in [1..n -> [Nat -> Nat]]
  <2>1. \A i \in 1..n : Worth(q[i]) \in 0..9
    BY WorthOfCharacter
  <2> QED
    BY <2>1
<1>3. ASSUME NEW i \in 1..n, NEW x \in Nat PROVE T[i][x] = x * 10 + Worth(q[i])
  OBVIOUS
<1> HIDE DEF T
<1>4. PICK f : Iterates(f, Nat, 0, n, T)
  BY <1>2, IterationExists
<1>5. Solves(f)
  <2>1. ASSUME NEW s \in SUBSET (1..n) PROVE f[s] = Step(f, s)
    <3>1. CASE s = {}
      BY <1>4, <3>1 DEF Iterates
    <3>2. CASE s # {}
      <4>1. Max(s) \in 1..n /\ s \ {Max(s)} \in SUBSET (1..n)
        BY <3>2, GreatestPosition
      <4>2. f[s \ {Max(s)}] \in Nat
        BY <1>4, <4>1 DEF Iterates
      <4>3. f[s] = T[Max(s)][f[s \ {Max(s)}]]
        BY <1>4, <3>2 DEF Iterates
      <4> QED
        BY <1>3, <3>2, <4>1, <4>2, <4>3
    <3> QED
      BY <3>1, <3>2
  <2>2. f = [s \in SUBSET (1..n) |-> f[s]]
    BY <1>4 DEF Iterates
  <2> HIDE DEF Step
  <2> QED
    BY <2>1, <2>2
<1>6. Solves(iter)
  <2> HIDE DEF Solves
  <2> QED
    BY <1>5
<1> HIDE DEF iter
<1>7. iter[{}] = 0
  BY <1>6
<1>8. ASSUME NEW s \in SUBSET (1..n), s # {}, iter[s \ {Max(s)}] \in Nat
      PROVE  iter[s] = T[Max(s)][iter[s \ {Max(s)}]]
  <2>1. Max(s) \in 1..n
    BY <1>8, GreatestPosition
  <2> QED
    BY <1>3, <1>6, <1>8, <2>1
<1>9. PICK g : Reaches(g, Nat, 0, n, T, iter[1..n])
  <2>1. Follows(iter, Nat, 0, n, T)
    BY <1>7, <1>8 DEF Follows
  <2> QED
    BY <1>2, <2>1, FoldSteps
<1>10. /\ g \in [0..n -> Nat] /\ g[0] = 0 /\ g[n] = iter[1..n]
       /\ \A k \in 1..n : g[k] = T[k][g[k - 1]]
  BY <1>9 DEF Reaches
<1>11. ASSUME NEW k \in 1..n PROVE g[k] = g[k - 1] * 10 + Worth(q[k])
  <2>1. k - 1 \in 0..n
    OBVIOUS
  <2>2. g[k - 1] \in Nat
    BY <1>10, <2>1
  <2> QED
    BY <1>3, <1>10, <2>2
<1> QED
  BY <1>1, <1>10, <1>11 DEF ReadsTo

\* One to three digits.
LEMMA NaturalOf ==
  ASSUME NEW q \in Seq(Digits)
  PROVE  /\ Len(q) = 1 => Natural(q) = Worth(q[1])
         /\ Len(q) = 2 => Natural(q) = Worth(q[1]) * 10 + Worth(q[2])
         /\ Len(q) = 3 => Natural(q) = Worth(q[1]) * 100 + Worth(q[2]) * 10 + Worth(q[3])
<1> DEFINE n == Len(q)
<1>1. n \in Nat /\ q \in [1..n -> Digits] /\ \A i \in 1..n : Worth(q[i]) \in 0..9
  BY LenProperties, ElementOfSeq, WorthOfCharacter
<1> HIDE DEF n
<1>2. PICK g : ReadsTo(g, q, n, Natural(q))
  BY <1>1, NaturalSteps
<1>3. ASSUME n \in 1..3 PROVE g[1] = Worth(q[1]) /\ Worth(q[1]) \in 0..9
  <2>1. 1 \in 1..n /\ 1 - 1 = 0
    BY <1>1, <1>3
  <2>2. g[1] = g[1 - 1] * 10 + Worth(q[1])
    BY <1>2, <2>1 DEF ReadsTo
  <2> QED
    BY <1>1, <1>2, <2>1, <2>2 DEF ReadsTo
<1>4. ASSUME n \in 2..3 PROVE g[2] = Worth(q[1]) * 10 + Worth(q[2]) /\ Worth(q[2]) \in 0..9
  <2>1. 2 \in 1..n /\ 2 - 1 = 1 /\ n \in 1..3
    BY <1>1, <1>4
  <2>2. g[2] = g[2 - 1] * 10 + Worth(q[2])
    BY <1>2, <2>1 DEF ReadsTo
  <2> QED
    BY <1>1, <1>3, <2>1, <2>2
<1>5. ASSUME n = 3 PROVE g[3] = Worth(q[1]) * 100 + Worth(q[2]) * 10 + Worth(q[3])
  <2>1. 3 \in 1..n /\ 3 - 1 = 2 /\ n \in 2..3 /\ n \in 1..3
    BY <1>1, <1>5
  <2>2. g[3] = g[3 - 1] * 10 + Worth(q[3]) /\ Worth(q[3]) \in 0..9
    BY <1>1, <1>2, <2>1 DEF ReadsTo
  <2>3. g[2] = Worth(q[1]) * 10 + Worth(q[2]) /\ Worth(q[1]) \in 0..9 /\ Worth(q[2]) \in 0..9
    BY <1>3, <1>4, <2>1
  <2>4. g[3] = (Worth(q[1]) * 10 + Worth(q[2])) * 10 + Worth(q[3])
    BY <2>1, <2>2, <2>3
  <2>5. \A x, y, z \in 0..9 : (x * 10 + y) * 10 + z = x * 100 + y * 10 + z
    OBVIOUS
  <2> QED
    BY <2>2, <2>3, <2>4, <2>5, ZenonT(60)
<1>6. g[n] = Natural(q)
  BY <1>2 DEF ReadsTo
<1> QED
  BY <1>1, <1>3, <1>4, <1>5, <1>6 DEF n

\* Three characters one after the other.
LEMMA CharacterAdded ==
  ASSUME NEW S, NEW s \in Seq(S), NEW c \in S, NEW t \in Seq(S), Len(t) = Len(s) + 1,
         t[Len(s) + 1] = c, \A i \in 1..Len(s) : t[i] = s[i]
  PROVE  s \o <<c>> = t
<1> DEFINE n == Len(s)
<1>1. n \in Nat /\ <<c>> \in Seq(S) /\ Len(<<c>>) = 1 /\ <<c>>[1] = c
  BY LenProperties
<1>2. PICK r : r = s \o <<c>>
  OBVIOUS
<1>3. PICK d : d = <<c>>
  OBVIOUS
<1>4. /\ r \in Seq(S) /\ Len(r) = n + 1
      /\ \A i \in 1..(n + 1) : r[i] = IF i <= n THEN s[i] ELSE d[i - n]
  BY <1>1, <1>2, <1>3, ConcatProperties
<1>5. Len(t) = n + 1 /\ t[n + 1] = c /\ \A i \in 1..n : t[i] = s[i]
  OBVIOUS
<1> HIDE DEF n
<1>6. \A i \in 1..(n + 1) : (i <= n /\ i \in 1..n) \/ (~(i <= n) /\ i = n + 1 /\ i - n = 1)
  BY <1>1
<1>7. \A i \in 1..(n + 1) : r[i] = t[i]
  BY <1>1, <1>3, <1>4, <1>5, <1>6
<1>8. r = t
  BY <1>4, <1>5, <1>7, SeqEqual
<1> QED
  BY <1>2, <1>8

LEMMA CharactersJoined ==
  ASSUME NEW a, NEW b, NEW c
  PROVE  /\ <<a>> \o <<b>> \o <<c>> = <<a, b, c>>
         /\ <<>> \o <<b>> \o <<c>> = <<b, c>>
         /\ <<>> \o <<>> \o <<c>> = <<c>>
<1>1. <<>> \o <<>> = <<>> /\ <<>> \o <<c>> = <<c>> /\ <<>> \o <<b>> = <<b>>
  OBVIOUS
<1>2. ASSUME NEW x, NEW y PROVE <<x>> \o <<y>> = <<x, y>>
  <2>1. PICK s : s = <<x>>
    OBVIOUS
  <2>2. PICK t : t = <<x, y>>
    OBVIOUS
  <2>3. PICK S : S = {x, y}
    OBVIOUS
  <2>4. /\ s \in Seq(S) /\ Len(s) = 1 /\ y \in S /\ t \in Seq(S) /\ Len(t) = Len(s) + 1
        /\ t[Len(s) + 1] = y /\ \A i \in 1..Len(s) : t[i] = s[i]
    BY <2>1, <2>2, <2>3
  <2> QED
    BY <2>1, <2>2, <2>4, CharacterAdded
<1>3. <<a, b>> \o <<c>> = <<a, b, c>>
  <2>1. PICK s : s = <<a, b>>
    OBVIOUS
  <2>2. PICK t : t = <<a, b, c>>
    OBVIOUS
  <2>3. PICK S : S = {a, b, c}
    OBVIOUS
  <2>4. /\ s \in Seq(S) /\ Len(s) = 2 /\ c \in S /\ t \in Seq(S) /\ Len(t) = Len(s) + 1
        /\ t[Len(s) + 1] = c /\ \A i \in 1..Len(s) : t[i] = s[i]
    BY <2>1, <2>2, <2>3
  <2> QED
    BY <2>1, <2>2, <2>4, CharacterAdded
<1> QED
  BY <1>1, <1>2, <1>3

\* The exponent is digits, and reads back.
LEMMA ExponentReads ==
  ASSUME NEW e \in 0..999
  PROVE  Exponent(e) \in Seq(Digits) /\ Natural(Exponent(e)) = e
<1> DEFINE a == e \div 100
           b == (e % 100) \div 10
           c == e % 10
<1>1. a \in 0..9 /\ b \in 0..9 /\ c \in 0..9 /\ e = a * 100 + b * 10 + c
  BY SMTT(40)
<1>2. (~(e > 99) => a = 0) /\ (~(e > 9) => b = 0) /\ (e > 99 => e > 9)
  OBVIOUS
<1>3. PICK x : x = Exponent(e)
  OBVIOUS
<1>4. x = (IF e > 99 THEN <<Digit(a)>> ELSE <<>>)
            \o (IF e > 9 THEN <<Digit(b)>> ELSE <<>>) \o <<Digit(c)>>
  BY <1>3 DEF Exponent
<1> HIDE DEF a, b, c
<1>5. /\ Digit(a) \in Digits /\ Worth(Digit(a)) = a
      /\ Digit(b) \in Digits /\ Worth(Digit(b)) = b
      /\ Digit(c) \in Digits /\ Worth(Digit(c)) = c
  BY <1>1, WorthOfDigit
<1>6. CASE e > 99
  <2>1. x = <<Digit(a), Digit(b), Digit(c)>>
    BY <1>2, <1>4, <1>6, CharactersJoined
  <2>2. x \in Seq(Digits) /\ Len(x) = 3 /\ x[1] = Digit(a) /\ x[2] = Digit(b) /\ x[3] = Digit(c)
    BY <1>5, <2>1
  <2>3. Natural(x) = a * 100 + b * 10 + c
    BY <1>5, <2>2, NaturalOf
  <2> QED
    BY <1>1, <1>3, <2>2, <2>3
<1>7. CASE ~(e > 99) /\ e > 9
  <2>1. x = <<Digit(b), Digit(c)>>
    BY <1>4, <1>7, CharactersJoined
  <2>2. x \in Seq(Digits) /\ Len(x) = 2 /\ x[1] = Digit(b) /\ x[2] = Digit(c)
    BY <1>5, <2>1
  <2>3. Natural(x) = b * 10 + c
    BY <1>5, <2>2, NaturalOf
  <2>4. e = b * 10 + c
    BY <1>1, <1>2, <1>7
  <2> QED
    BY <1>3, <2>2, <2>3, <2>4
<1>8. CASE ~(e > 99) /\ ~(e > 9)
  <2>1. x = <<Digit(c)>>
    BY <1>4, <1>8, CharactersJoined
  <2>2. x \in Seq(Digits) /\ Len(x) = 1 /\ x[1] = Digit(c)
    BY <1>5, <2>1
  <2>3. Natural(x) = c
    BY <1>5, <2>2, NaturalOf
  <2>4. e = c
    BY <1>1, <1>2, <1>8
  <2> QED
    BY <1>3, <2>2, <2>3, <2>4
<1> QED
  BY <1>6, <1>7, <1>8

-----------------------------------------------------------------------------
(* Zeros at the ends of a number. *)

\* The first and the last digit that is not a zero.
Ends(s, from, to) ==
  /\ from \in 1..Len(s) /\ to \in 1..Len(s) /\ s[from] # "0" /\ s[to] # "0"
  /\ \A i \in 1..Len(s) : s[i] # "0" => from <= i /\ i <= to

LEMMA EndsExist ==
  ASSUME NEW s, NEW n \in Nat, Len(s) = n, \E i \in 1..n : s[i] # "0"
  PROVE  \E from, to : Ends(s, from, to)
<1> DEFINE nonzero == {i \in 1..n : s[i] # "0"}
           mirror == {n - i : i \in nonzero}
<1>1. nonzero \in SUBSET Nat /\ nonzero # {}
  OBVIOUS
<1>2. mirror \in SUBSET Nat /\ mirror # {}
  OBVIOUS
<1>3. PICK from \in nonzero : \A i \in nonzero : from <= i
  <2> HIDE DEF nonzero
  <2> QED
    BY <1>1, LeastNumber
<1>4. PICK m \in mirror : \A i \in mirror : m <= i
  <2> HIDE DEF mirror
  <2> QED
    BY <1>2, LeastNumber
<1>5. PICK to \in nonzero : m = n - to
  OBVIOUS
<1>6. ASSUME NEW i \in nonzero PROVE i <= to
  <2>1. n - i \in mirror
    OBVIOUS
  <2>2. n - to <= n - i
    BY <1>4, <1>5, <2>1
  <2>3. i \in Nat /\ to \in Nat
    BY <1>1
  <2> QED
    BY <2>2, <2>3
<1>7. Ends(s, from, to)
  BY <1>3, <1>6 DEF Ends
<1> QED
  BY <1>7

\* Stripped() cuts the digits there.
Cut(s, from, to, exponent) ==
  [digits |-> SubSeq(s, from, to), exponent |-> exponent + Len(s) - to]

LEMMA StrippedIsCut ==
  ASSUME NEW S, NEW s \in Seq(S), NEW from, NEW to, Ends(s, from, to), NEW exponent
  PROVE  Stripped(s, exponent) = Cut(s, from, to, exponent)
<1> DEFINE nonzero == {i \in DOMAIN s : s[i] # "0"}
           first == CHOOSE i \in nonzero : \A j \in nonzero : i <= j
           last == CHOOSE i \in nonzero : \A j \in nonzero : j <= i
<1>1. DOMAIN s = 1..Len(s) /\ Len(s) \in Nat
  BY LenProperties
<1>2. /\ from \in nonzero /\ to \in nonzero /\ nonzero \in SUBSET Nat
      /\ \A i \in nonzero : from <= i /\ i <= to
  BY <1>1 DEF Ends
<1>3. Stripped(s, exponent) = Cut(s, first, last, exponent)
  BY DEF Stripped, Cut
<1> HIDE DEF nonzero
<1>4. \A i \in nonzero : i \in Nat
  BY <1>2
<1>5. first = from
  <2>1. first \in nonzero /\ \A j \in nonzero : first <= j
    BY <1>2
  <2>2. first <= from /\ from <= first /\ first \in Nat /\ from \in Nat
    BY <1>2, <1>4, <2>1
  <2> HIDE DEF first
  <2> QED
    BY <2>2
<1>6. last = to
  <2>1. last \in nonzero /\ \A j \in nonzero : j <= last
    BY <1>2
  <2>2. last <= to /\ to <= last /\ last \in Nat /\ to \in Nat
    BY <1>2, <1>4, <2>1
  <2> HIDE DEF last
  <2> QED
    BY <2>2
<1> HIDE DEF first, last
<1> QED
  BY <1>3, <1>5, <1>6

\* t is s with p zeros before it and q behind it.
Padded(t, p, s, q) ==
  /\ Len(t) = p + Len(s) + q
  /\ \A i \in 1..Len(s) : t[p + i] = s[i]
  /\ \A i \in 1..Len(t) : i <= p \/ p + Len(s) < i => t[i] = "0"

LEMMA PaddedStripped ==
  ASSUME NEW S, NEW s \in Seq(S), NEW t \in Seq(S), NEW p \in Nat, NEW q \in Nat,
         Padded(t, p, s, q), \E i \in 1..Len(s) : s[i] # "0", NEW exponent \in Int
  PROVE  Stripped(t, exponent) = Stripped(s, exponent + q)
<1> DEFINE n == Len(s)
<1>1. n \in Nat
  BY LenProperties
<1>2. PICK from, to : Ends(s, from, to)
  BY <1>1, EndsExist
<1>3. PICK a : a = p + from
  OBVIOUS
<1>4. PICK b : b = p + to
  OBVIOUS
<1>5. /\ from \in 1..n /\ to \in 1..n /\ s[from] # "0" /\ s[to] # "0"
      /\ \A i \in 1..n : s[i] # "0" => from <= i /\ i <= to
  BY <1>2 DEF Ends
<1>6. /\ Len(t) = p + n + q /\ \A i \in 1..n : t[p + i] = s[i]
      /\ \A i \in 1..(p + n + q) : i <= p \/ p + n < i => t[i] = "0"
  BY DEF Padded
<1>7. \A i \in 1..n : s[i] \in S
  BY ElementOfSeq
<1> HIDE DEF n
<1>8. from <= to
  BY <1>5
<1>9. a \in 1..(p + n + q) /\ b \in 1..(p + n + q) /\ t[a] # "0" /\ t[b] # "0"
  BY <1>1, <1>3, <1>4, <1>5, <1>6
<1>10. ASSUME NEW i \in 1..(p + n + q), t[i] # "0" PROVE a <= i /\ i <= b
  <2>1. ~(i <= p) /\ ~(p + n < i)
    BY <1>6, <1>10
  <2>2. i - p \in 1..n /\ p + (i - p) = i
    BY <1>1, <2>1
  <2>3. s[i - p] # "0"
    BY <1>6, <1>10, <2>2
  <2>4. from <= i - p /\ i - p <= to
    BY <1>5, <2>2, <2>3
  <2> QED
    BY <1>1, <1>3, <1>4, <1>5, <2>4
<1>11. Ends(t, a, b)
  BY <1>6, <1>9, <1>10 DEF Ends
<1>12. Stripped(t, exponent) = Cut(t, a, b, exponent)
  BY <1>11, StrippedIsCut
<1>13. PICK lower : lower = exponent + q
  OBVIOUS
<1>14. Stripped(s, lower) = Cut(s, from, to, lower)
  BY <1>2, StrippedIsCut
<1>15. exponent + Len(t) - b = lower + n - to
  BY <1>1, <1>4, <1>5, <1>6, <1>13
<1>16. SubSeq(t, a, b) = SubSeq(s, from, to)
  <2>1. PICK u : u = SubSeq(s, from, to)
    OBVIOUS
  <2>2. from \in Int /\ to \in Int /\ \A i \in from..to : s[i] \in S
    BY <1>1, <1>5, <1>7
  <2>3. /\ u \in Seq(S) /\ Len(u) = to - from + 1
        /\ \A i \in 1..(to - from + 1) : u[i] = s[from + i - 1]
    BY <1>8, <2>1, <2>2, SubSeqProperties
  <2>4. PICK k \in Nat : k = p + from - 1
    BY <1>1, <1>5
  <2>5. k + 1 = a /\ k + (to - from + 1) = b /\ k + (to - from + 1) <= p + n + q
    BY <1>1, <1>3, <1>4, <1>5, <2>4
  <2>6. ASSUME NEW i \in 1..(to - from + 1) PROVE t[k + i] = u[i]
    <3>1. from + i - 1 \in 1..n /\ p + (from + i - 1) = k + i
      BY <1>1, <1>5, <2>4
    <3> QED
      BY <1>6, <2>3, <3>1
  <2>7. SubSeq(t, k + 1, k + Len(u)) = u
    <3>1. k + Len(u) <= Len(t) /\ \A i \in 1..Len(u) : t[k + i] = u[i]
      BY <1>6, <2>3, <2>5, <2>6
    <3> QED
      BY <2>3, <3>1, CutOut
  <2> QED
    BY <2>1, <2>3, <2>5, <2>7
<1> QED
  BY <1>12, <1>13, <1>14, <1>15, <1>16 DEF Cut, n

-----------------------------------------------------------------------------
(* The three forms of a number read back. *)

\* One part after the other.
Adjoins(t, a, b) ==
  /\ Len(t) = Len(a) + Len(b) /\ Len(a) \in Nat /\ Len(b) \in Nat
  /\ \A i \in 1..Len(a) : t[i] = a[i]
  /\ \A i \in 1..Len(b) : t[Len(a) + i] = b[i]

LEMMA TwoParts ==
  ASSUME NEW S, NEW a \in Seq(S), NEW b \in Seq(S)
  PROVE  a \o b \in Seq(S) /\ Adjoins(a \o b, a, b)
<1> DEFINE n == Len(a)
           m == Len(b)
           t == a \o b
<1>1. n \in Nat /\ m \in Nat
  BY LenProperties
<1>2. /\ t \in Seq(S) /\ Len(t) = n + m
      /\ \A i \in 1..(n + m) : t[i] = IF i <= n THEN a[i] ELSE b[i - n]
  BY ConcatProperties
<1> HIDE DEF n, m, t
<1>3. \A i \in 1..n : i \in 1..(n + m) /\ i <= n
  BY <1>1
<1>4. \A i \in 1..m : n + i \in 1..(n + m) /\ ~(n + i <= n) /\ (n + i) - n = i
  BY <1>1
<1>5. (\A i \in 1..n : t[i] = a[i]) /\ \A i \in 1..m : t[n + i] = b[i]
  BY <1>2, <1>3, <1>4
<1>6. t \in Seq(S) /\ Adjoins(t, a, b)
  BY <1>1, <1>2, <1>5 DEF Adjoins, n, m
<1> QED
  BY <1>6 DEF t

\* A text is its beginning and what is behind it.
LEMMA TwoPieces ==
  ASSUME NEW S, NEW s \in Seq(S), NEW m \in Nat, m <= Len(s)
  PROVE  /\ First(s, m) \in Seq(S) /\ Rest(s, m) \in Seq(S)
         /\ Len(First(s, m)) = m /\ Len(Rest(s, m)) = Len(s) - m
         /\ First(s, m) \o Rest(s, m) = s
<1> DEFINE n == Len(s)
<1>1. n \in Nat /\ m <= n /\ \A i \in 1..n : s[i] \in S
  BY LenProperties, ElementOfSeq
<1>2. PICK a : a = First(s, m)
  OBVIOUS
<1>3. PICK b : b = Rest(s, m)
  OBVIOUS
<1>4. a = SubSeq(s, 1, m) /\ b = SubSeq(s, m + 1, n)
  BY <1>2, <1>3 DEF First, Rest
<1> HIDE DEF n
<1>5. /\ (IF 1 <= m THEN m - 1 + 1 ELSE 0) = m /\ m - 1 + 1 = m
      /\ (IF m + 1 <= n THEN n - (m + 1) + 1 ELSE 0) = n - m /\ n - (m + 1) + 1 = n - m
      /\ n - m \in Nat
      /\ m + 1 \in Int /\ (\A i \in 1..m : i \in 1..n /\ 1 + i - 1 = i)
      /\ (\A i \in (m + 1)..n : i \in 1..n)
      /\ (\A i \in 1..(n - m) : (m + 1) + i - 1 = m + i)
  BY <1>1
<1>6. a \in Seq(S) /\ Len(a) = m /\ \A i \in 1..m : a[i] = s[i]
  <2>1. \A i \in 1..m : s[i] \in S
    BY <1>1, <1>5
  <2>2. /\ a \in Seq(S) /\ Len(a) = (IF 1 <= m THEN m - 1 + 1 ELSE 0)
        /\ \A i \in 1..(m - 1 + 1) : a[i] = s[1 + i - 1]
    BY <1>4, <2>1, SubSeqProperties
  <2> QED
    BY <1>5, <2>2
<1>7. b \in Seq(S) /\ Len(b) = n - m /\ \A i \in 1..(n - m) : b[i] = s[m + i]
  <2>1. \A i \in (m + 1)..n : s[i] \in S
    BY <1>1, <1>5
  <2>2. /\ b \in Seq(S) /\ Len(b) = (IF m + 1 <= n THEN n - (m + 1) + 1 ELSE 0)
        /\ \A i \in 1..(n - (m + 1) + 1) : b[i] = s[(m + 1) + i - 1]
    BY <1>1, <1>4, <1>5, <2>1, SubSeqProperties
  <2> QED
    BY <1>5, <2>2
<1>8. PICK t : t = a \o b
  OBVIOUS
<1>9. /\ t \in Seq(S) /\ Len(t) = n
      /\ (\A i \in 1..m : t[i] = s[i]) /\ \A i \in 1..(n - m) : t[m + i] = s[m + i]
  <2>1. /\ t \in Seq(S) /\ Len(t) = Len(a) + Len(b)
        /\ \A i \in 1..Len(a) : t[i] = a[i]
        /\ \A i \in 1..Len(b) : t[Len(a) + i] = b[i]
    <3>1. t \in Seq(S) /\ Adjoins(t, a, b)
      BY <1>6, <1>7, <1>8, TwoParts
    <3> QED
      BY <3>1 DEF Adjoins
  <2>2. m + (n - m) = n
    BY <1>1
  <2> QED
    BY <1>6, <1>7, <2>1, <2>2
<1>10. ASSUME NEW i \in 1..n PROVE t[i] = s[i]
  <2>1. CASE i <= m
    <3>1. i \in 1..m
      BY <2>1
    <3> QED
      BY <1>9, <3>1
  <2>2. CASE ~(i <= m)
    <3>1. i - m \in 1..(n - m) /\ m + (i - m) = i
      BY <1>1, <2>2
    <3>2. t[m + (i - m)] = s[m + (i - m)]
      BY <1>9, <3>1
    <3> QED
      BY <3>1, <3>2
  <2> QED
    BY <2>1, <2>2
<1>11. t = s
  BY <1>9, <1>10, SeqEqual DEF n
<1> QED
  BY <1>2, <1>3, <1>6, <1>7, <1>8, <1>11 DEF n

\* Zeros are digits.
LEMMA ZeroDigits ==
  ASSUME NEW n \in Nat
  PROVE  Zeros(n) \in Seq(Digits) /\ Len(Zeros(n)) = n /\ \A i \in 1..n : Zeros(n)[i] = "0"
<1>1. Zeros(n) \in [1..n -> Digits] /\ \A i \in 1..n : Zeros(n)[i] = "0"
  BY DEF Zeros, Digits
<1> QED
  BY <1>1

\* Digits with one at least that is not a zero.
Nonzero(digits) == digits \in Seq(Digits) /\ \E i \in 1..Len(digits) : digits[i] # "0"

\* Digits and zeros.
LEMMA WholeReads ==
  ASSUME NEW digits, Nonzero(digits), NEW K \in Nat
  PROVE  Read(digits \o Zeros(K)) = Stripped(digits, K)
<1>1. PICK z : z = Zeros(K)
  OBVIOUS
<1>2. PICK t : t = digits \o z
  OBVIOUS
<1>3. z \in Seq(Digits) /\ Len(z) = K /\ \A i \in 1..K : z[i] = "0"
  BY <1>1, ZeroDigits
<1>4. digits \in Seq(Digits) /\ \E i \in 1..Len(digits) : digits[i] # "0"
  BY DEF Nonzero
<1> DEFINE n == Len(digits)
<1>5. /\ t \in Seq(Digits) /\ Len(t) = n + K /\ n \in Nat
      /\ \A i \in 1..n : t[i] = digits[i]
      /\ \A i \in 1..K : t[n + i] = "0"
  <2>1. t \in Seq(Digits) /\ Adjoins(t, digits, z)
    BY <1>2, <1>3, <1>4, TwoParts
  <2>2. /\ t \in Seq(Digits) /\ Len(t) = n + Len(z) /\ n \in Nat
        /\ \A i \in 1..n : t[i] = digits[i]
        /\ \A i \in 1..Len(z) : t[n + i] = z[i]
    BY <2>1 DEF Adjoins
  <2> QED
    BY <1>3, <2>2
<1> HIDE DEF n
<1>6. ASSUME NEW i \in 1..(n + K), i <= 0 \/ 0 + n < i PROVE t[i] = "0"
  <2>1. i - n \in 1..K /\ n + (i - n) = i
    BY <1>5, <1>6
  <2> QED
    BY <1>5, <2>1
<1>7. /\ n + K = 0 + n + K /\ \A i \in 1..n : 0 + i = i
  BY <1>5
<1>8. Padded(t, 0, digits, K)
  BY <1>5, <1>6, <1>7 DEF Padded, n
<1>9. Stripped(t, 0) = Stripped(digits, 0 + K)
  BY <1>4, <1>5, <1>8, PaddedStripped
<1>10. PICK f : f = <<>>
  OBVIOUS
<1>11. f \in Seq(Digits) /\ Len(f) = 0 /\ t \o f = t
  BY <1>5, <1>10, ConcatEmptySeq
<1>12. Splits(t, t, f)
  BY <1>5, <1>10, <1>11 DEF Splits
<1>13. Read(t) = Stripped(t \o f, 0 - Len(f))
  BY <1>12, ReadPlain
<1>14. 0 - 0 = 0 /\ 0 + K = K
  OBVIOUS
<1> QED
  BY <1>1, <1>2, <1>9, <1>11, <1>13, <1>14

\* A zero, the point, zeros and the digits.
LEMMA SmallReads ==
  ASSUME NEW digits, Nonzero(digits), NEW m \in Nat
  PROVE  Read(<<"0", ".">> \o Zeros(m) \o digits) = Stripped(digits, 0 - (m + Len(digits)))
<1> DEFINE n == Len(digits)
<1>1. digits \in Seq(Digits) /\ n \in Nat /\ \E i \in 1..n : digits[i] # "0"
  BY LenProperties DEF Nonzero
<1>2. PICK z : z = Zeros(m)
  OBVIOUS
<1>3. z \in Seq(Digits) /\ Len(z) = m /\ \A i \in 1..m : z[i] = "0"
  BY <1>2, ZeroDigits
<1>4. PICK f : f = z \o digits
  OBVIOUS
<1>5. /\ f \in Seq(Digits) /\ Len(f) = m + n
      /\ (\A i \in 1..m : f[i] = "0") /\ \A i \in 1..n : f[m + i] = digits[i]
  <2>1. f \in Seq(Digits) /\ Adjoins(f, z, digits)
    BY <1>1, <1>3, <1>4, TwoParts
  <2>2. /\ f \in Seq(Digits) /\ Len(f) = Len(z) + n
        /\ \A i \in 1..Len(z) : f[i] = z[i]
        /\ \A i \in 1..n : f[Len(z) + i] = digits[i]
    BY <2>1 DEF Adjoins
  <2> QED
    BY <1>3, <2>2
<1>6. PICK w : w = <<"0">>
  OBVIOUS
<1>7. w \in Seq(Digits) /\ Len(w) = 1 /\ w[1] = "0"
  BY <1>6 DEF Digits
<1>8. PICK t : t = w \o f
  OBVIOUS
<1>9. /\ t \in Seq(Digits) /\ Len(t) = 1 + (m + n)
      /\ t[1] = "0" /\ \A i \in 1..(m + n) : t[1 + i] = f[i]
  <2>1. t \in Seq(Digits) /\ Adjoins(t, w, f)
    BY <1>5, <1>7, <1>8, TwoParts
  <2>2. /\ t \in Seq(Digits) /\ Len(t) = Len(w) + Len(f)
        /\ \A i \in 1..Len(w) : t[i] = w[i]
        /\ \A i \in 1..Len(f) : t[Len(w) + i] = f[i]
    BY <2>1 DEF Adjoins
  <2>3. 1 \in 1..1
    OBVIOUS
  <2> HIDE DEF n
  <2> QED
    BY <1>5, <1>7, <2>2, <2>3
<1>10. PICK p \in Nat : p = m + 1
  OBVIOUS
<1>11. Padded(t, p, digits, 0)
  <2> HIDE DEF n
  <2>1. 1 + (m + n) = p + n + 0
    BY <1>1, <1>10
  <2>2. ASSUME NEW i \in 1..n PROVE t[p + i] = digits[i]
    <3>1. m + i \in 1..(m + n) /\ 1 + (m + i) = p + i
      BY <1>1, <1>10
    <3> QED
      BY <1>5, <1>9, <3>1
  <2>3. ASSUME NEW i \in 1..(p + n + 0), i <= p \/ p + n < i PROVE t[i] = "0"
    <3>1. i <= p
      BY <1>1, <2>3
    <3>2. CASE i = 1
      BY <1>9, <3>2
    <3>3. CASE i # 1
      <4>1. i - 1 \in 1..m /\ i - 1 \in 1..(m + n) /\ 1 + (i - 1) = i
        BY <1>1, <1>10, <3>1, <3>3
      <4>2. t[1 + (i - 1)] = f[i - 1] /\ f[i - 1] = "0"
        BY <1>5, <1>9, <4>1
      <4> QED
        BY <4>1, <4>2
    <3> QED
      BY <3>2, <3>3
  <2> QED
    BY <1>9, <2>1, <2>2, <2>3 DEF Padded, n
<1>12. PICK k \in Int : k = 0 - (m + n)
  BY <1>1
<1>13. Stripped(t, k) = Stripped(digits, k + 0)
  BY <1>1, <1>9, <1>11, PaddedStripped
<1>14. PICK mant : mant = w \o <<".">> \o f
  OBVIOUS
<1>15. Read(mant) = Stripped(t, 0 - Len(f))
  <2>1. Splits(mant, w, f)
    BY <1>5, <1>7, <1>14 DEF Splits
  <2> QED
    BY <1>8, <2>1, ReadPlain
<1>16. <<"0", ".">> \o z \o digits = mant
  <2>1. PICK c : c = <<"0", ".">>
    OBVIOUS
  <2>2. c \in Seq(Symbol) /\ c = w \o <<".">>
    <3>1. PICK x : x = "0"
      OBVIOUS
    <3>2. PICK y : y = "."
      OBVIOUS
    <3>3. <<>> \o <<x>> \o <<y>> = <<x, y>> /\ <<>> \o <<x>> = <<x>>
      BY CharactersJoined
    <3> QED
      BY <1>6, <2>1, <3>1, <3>2, <3>3 DEF Symbol, Digits
  <2>3. z \in Seq(Symbol) /\ digits \in Seq(Symbol)
    BY <1>1, <1>3, DigitsPlain
  <2>4. (c \o z) \o digits = c \o (z \o digits)
    BY <2>2, <2>3, ConcatAssociative, SMTT(40)
  <2> QED
    BY <1>4, <1>14, <2>1, <2>2, <2>4
<1>17. k + 0 = k
  OBVIOUS
<1> QED
  BY <1>2, <1>5, <1>12, <1>13, <1>15, <1>16, <1>17

\* The point between the digits.
LEMMA PointReads ==
  ASSUME NEW digits, Nonzero(digits), NEW m \in 1..Len(digits)
  PROVE  Read(First(digits, m) \o <<".">> \o Rest(digits, m)) = Stripped(digits, m - Len(digits))
<1> DEFINE n == Len(digits)
<1>1. digits \in Seq(Digits) /\ n \in Nat /\ m \in Nat /\ m <= n
  BY LenProperties DEF Nonzero
<1>2. PICK w : w = First(digits, m)
  OBVIOUS
<1>3. PICK f : f = Rest(digits, m)
  OBVIOUS
<1>4. w \in Seq(Digits) /\ f \in Seq(Digits) /\ Len(f) = n - m /\ w \o f = digits
  BY <1>1, <1>2, <1>3, TwoPieces
<1>5. PICK mant : mant = w \o <<".">> \o f
  OBVIOUS
<1>6. Read(mant) = Stripped(w \o f, 0 - Len(f))
  <2>1. Splits(mant, w, f)
    BY <1>4, <1>5 DEF Splits
  <2> QED
    BY <2>1, ReadPlain
<1> HIDE DEF n
<1>7. 0 - (n - m) = m - n
  BY <1>1
<1> QED
  BY <1>2, <1>3, <1>4, <1>5, <1>6, <1>7 DEF n

\* One digit, the point and the others, and the exponent.
LEMMA FirstDigit ==
  ASSUME NEW s \in Seq(Digits), Len(s) # 0
  PROVE  <<s[1]>> = First(s, 1) /\ s[1] \in Digits
<1>1. Len(s) \in Nat /\ 1 \in 1..Len(s)
  BY LenProperties
<1>2. s[1] \in Digits
  BY <1>1, ElementOfSeq
<1>3. PICK b : b = <<s[1]>>
  OBVIOUS
<1>4. b \in Seq(Digits) /\ Len(b) = 1 /\ b[1] = s[1]
  BY <1>2, <1>3
<1>5. 0 + Len(b) <= Len(s) /\ \A i \in 1..Len(b) : s[0 + i] = b[i]
  <2>1. 0 + 1 <= Len(s) /\ \A i \in 1..1 : i = 1 /\ 0 + i = 1
    BY <1>1
  <2> QED
    BY <1>4, <2>1
<1>6. SubSeq(s, 0 + 1, 0 + Len(b)) = b
  BY <1>4, <1>5, CutOut
<1>7. 0 + 1 = 1
  OBVIOUS
<1> QED
  BY <1>2, <1>3, <1>4, <1>6, <1>7 DEF First

Pointed(digits, n) ==
  <<digits[1]>> \o (IF n > 1 THEN <<".">> \o SubSeq(digits, 2, n) ELSE <<>>)

LEMMA PointedSplits ==
  ASSUME NEW digits \in Seq(Digits), NEW n \in Nat \ {0}, n = Len(digits)
  PROVE  \E f : /\ Splits(Pointed(digits, n), <<digits[1]>>, f)
                /\ <<digits[1]>> \o f = digits /\ Len(f) = n - 1
<1>1. PICK w : w = <<digits[1]>>
  OBVIOUS
<1>2. PICK f : f = Rest(digits, 1)
  OBVIOUS
<1>3. Len(digits) # 0 /\ 1 <= Len(digits) /\ 1 \in Nat
  OBVIOUS
<1>4. w = First(digits, 1)
  BY <1>1, <1>3, FirstDigit
<1>5. w \in Seq(Digits) /\ f \in Seq(Digits) /\ Len(f) = n - 1 /\ w \o f = digits
  BY <1>2, <1>3, <1>4, TwoPieces
<1>6. PICK mant : mant = Pointed(digits, n)
  OBVIOUS
<1>7. CASE n > 1
  <2>1. f = SubSeq(digits, 2, n)
    <3>1. 1 + 1 = 2
      OBVIOUS
    <3> QED
      BY <1>2, <3>1 DEF Rest
  <2>2. mant = w \o (<<".">> \o f)
    BY <1>1, <1>6, <1>7, <2>1 DEF Pointed
  <2>3. <<".">> \in Seq(Symbol)
    BY DEF Symbol
  <2>4. w \in Seq(Symbol) /\ f \in Seq(Symbol)
    BY <1>5, DigitsPlain
  <2>5. mant = (w \o <<".">>) \o f
    BY <2>2, <2>3, <2>4, ConcatAssociative, SMTT(40)
  <2> QED
    BY <1>1, <1>5, <1>6, <2>5 DEF Splits
<1>8. CASE ~(n > 1)
  <2>1. Len(f) = 0
    BY <1>5, <1>8
  <2>2. f = <<>>
    BY <1>5, <2>1, EmptySeq
  <2>3. mant = w \o <<>>
    BY <1>1, <1>6, <1>8 DEF Pointed
  <2>4. mant = w
    BY <1>5, <2>3, ConcatEmptySeq
  <2> QED
    BY <1>1, <1>5, <1>6, <2>2, <2>4 DEF Splits
<1> QED
  BY <1>7, <1>8

LEMMA Regrouped ==
  ASSUME NEW a \in Seq(Symbol), NEW b \in Seq(Symbol), NEW c \in Seq(Symbol)
  PROVE  (a \o b) \o c = a \o (b \o c)
BY ConcatAssociative

WithExponent(text, digits, n, K, e, exp) ==
  /\ digits \in Seq(Digits) /\ n \in Nat \ {0} /\ n = Len(digits)
  /\ K \in Int /\ e \in Int /\ e = K + n - 1 /\ exp \in 0..999 /\ exp = Abs(e)
  /\ text = Pointed(digits, n) \o <<"e", IF e < 0 THEN "-" ELSE "+">> \o Exponent(exp)

LEMMA ScientificReads ==
  ASSUME NEW text, NEW digits, NEW n, NEW K, NEW e, NEW exp,
         WithExponent(text, digits, n, K, e, exp)
  PROVE  Read(text) = Stripped(digits, K)
<1>0. /\ digits \in Seq(Digits) /\ n \in Nat \ {0} /\ n = Len(digits)
      /\ K \in Int /\ e \in Int /\ e = K + n - 1 /\ exp \in 0..999 /\ exp = Abs(e)
  BY DEF WithExponent
<1>1. PICK sign \in {"-", "+"} : sign = (IF e < 0 THEN "-" ELSE "+")
  OBVIOUS
<1>2. PICK w : w = <<digits[1]>>
  OBVIOUS
<1>3. PICK mant : mant = Pointed(digits, n)
  OBVIOUS
<1>4. PICK f : Splits(mant, w, f) /\ w \o f = digits /\ Len(f) = n - 1
  BY <1>0, <1>2, <1>3, PointedSplits
<1>5. PICK x : x = Exponent(exp)
  OBVIOUS
<1>6. x \in Seq(Digits) /\ Natural(x) = exp
  <2>1. exp \in 0..999
    BY <1>0
  <2>2. Exponent(exp) \in Seq(Digits) /\ Natural(Exponent(exp)) = exp
    BY <2>1, ExponentReads
  <2> QED
    BY <1>5, <2>2, ZenonT(60)
<1>8. Signed(sign, Natural(x)) - Len(f) = K
  <2>1. Signed(sign, exp) = e
    BY <1>0, <1>1 DEF Signed, Abs
  <2> QED
    BY <1>0, <1>4, <1>6, <2>1
<1>9. mant \o <<"e">> \o (<<sign>> \o x) = mant \o <<"e", sign>> \o x
  <2>1. mant \in Seq(Symbol)
    BY <1>4, MantissaFacts
  <2>2. x \in Seq(Symbol)
    BY <1>6, DigitsPlain
  <2>3. PICK a : a = <<"e">>
    OBVIOUS
  <2>4. PICK b : b = <<sign>>
    OBVIOUS
  <2>5. a \in Seq(Symbol) /\ b \in Seq(Symbol)
    BY <2>3, <2>4 DEF Symbol
  <2>6. a \o b = <<"e", sign>>
    <3>1. PICK y : y = "e"
      OBVIOUS
    <3>2. <<>> \o <<y>> \o <<sign>> = <<y, sign>> /\ <<>> \o <<y>> = <<y>>
      BY CharactersJoined
    <3> QED
      BY <2>3, <2>4, <3>1, <3>2
  <2>7. PICK ma : ma = mant \o a
    OBVIOUS
  <2>8. ma \in Seq(Symbol)
    BY <2>1, <2>5, <2>7, ConcatProperties
  <2>9. ma \o (b \o x) = (ma \o b) \o x
    BY <2>2, <2>5, <2>8, Regrouped, ZenonT(60)
  <2>10. ma \o b = mant \o (a \o b)
    BY <2>1, <2>5, <2>7, Regrouped, ZenonT(60)
  <2> QED
    BY <2>3, <2>4, <2>6, <2>7, <2>9, <2>10
<1>10. text = mant \o <<"e", sign>> \o x
  BY <1>1, <1>3, <1>5 DEF WithExponent
<1>11. Scientific(text, mant, sign, x)
  BY <1>1, <1>9, <1>10 DEF Scientific
<1>12. Read(text) = Stripped(w \o f, Signed(sign, Natural(x)) - Len(f))
  <2>1. Splits(mant, w, f) /\ x \in Seq(Digits)
    BY <1>4, <1>6
  <2> QED
    BY <1>11, <2>1, ReadScientific
<1> QED
  BY <1>4, <1>8, <1>12

\* What emit_digits() writes is read back as the number its digits and K stand for
\* (TextReadsBack checks this on patterns of digits): for all digits grisu2() can yield,
\* at most 17 and not all of them zeros, all exponents of up to three digits, in all three
\* forms, whatever the sign.
THEOREM TextReads ==
  ASSUME NEW digits \in Seq(Digits), Len(digits) \in 1..17,
         \E i \in 1..Len(digits) : digits[i] # "0",
         NEW K \in Int, Abs(K + Len(digits) - 1) <= 999, NEW neg
  PROVE  Read(emit_digits(digits, K, neg)) = Stripped(digits, K)
<1>1. PICK n \in 1..17 : n = Len(digits)
  OBVIOUS
<1>2. PICK e \in Int : e = K + n - 1
  OBVIOUS
<1>3. PICK exp \in 0..999 : exp = Abs(e)
  <2>1. Abs(e) <= 999
    BY <1>1, <1>2
  <2> QED
    BY <2>1 DEF Abs
<1>4. Nonzero(digits)
  BY DEF Nonzero
<1> DEFINE offset == n - Abs(K)
           limit == IF neg THEN 17 ELSE 18
           kept == IF n > limit THEN limit ELSE n
<1>5. PICK text : text = emit_digits(digits, K, neg)
  OBVIOUS
<1>6. text = IF K >= 0 /\ exp < n + 7 THEN digits \o Zeros(K)
             ELSE IF K < 0 /\ (K > -7 \/ exp < 4)
             THEN IF offset <= 0 THEN <<"0", ".">> \o Zeros(-offset) \o digits
                  ELSE First(digits, offset) \o <<".">> \o Rest(digits, offset)
             ELSE Pointed(digits, kept)
                    \o <<"e", IF K + kept - 1 < 0 THEN "-" ELSE "+">> \o Exponent(exp)
  BY <1>1, <1>2, <1>3, <1>5, ZenonT(60) DEF emit_digits, Pointed
<1>7. kept = n
  <2>1. (IF neg THEN 17 ELSE 18) \in {17, 18}
    OBVIOUS
  <2>2. \A k \in 1..17, m \in {17, 18} : ~ (k > m)
    OBVIOUS
  <2> QED
    BY <2>1, <2>2
<1> HIDE DEF kept
<1>8. K < 0 => offset = n + K
  BY DEF Abs
<1> HIDE DEF offset
<1>9. CASE K >= 0 /\ exp < n + 7
  BY <1>4, <1>5, <1>6, <1>9, WholeReads
<1>10. CASE K < 0 /\ (K > -7 \/ exp < 4)
  <2>1. ~ (K >= 0 /\ exp < n + 7)
    BY <1>10
  <2>2. CASE n + K <= 0
    <3>1. PICK m \in Nat : m = -offset
      BY <1>8, <1>10, <2>2
    <3>2. text = <<"0", ".">> \o Zeros(m) \o digits
      BY <1>6, <1>8, <1>10, <2>1, <2>2, <3>1
    <3>3. Read(text) = Stripped(digits, 0 - (m + Len(digits)))
      BY <1>4, <3>2, SmallReads
    <3>4. 0 - (m + n) = K
      BY <1>8, <1>10, <3>1
    <3> QED
      BY <1>1, <1>5, <3>3, <3>4
  <2>3. CASE n + K > 0
    <3>1. PICK m \in 1..n : m = offset
      BY <1>8, <1>10, <2>3
    <3>2. text = First(digits, m) \o <<".">> \o Rest(digits, m)
      <4>1. ~(offset <= 0)
        BY <3>1
      <4> QED
        BY <1>6, <1>10, <2>1, <3>1, <4>1
    <3>3. Read(text) = Stripped(digits, m - Len(digits))
      BY <1>1, <1>4, <3>2, PointReads
    <3>4. m - n = K
      BY <1>8, <1>10, <3>1
    <3> QED
      BY <1>1, <1>5, <3>3, <3>4
  <2> QED
    BY <2>2, <2>3
<1>11. CASE /\ ~ (K >= 0 /\ exp < n + 7)
            /\ ~ (K < 0 /\ (K > -7 \/ exp < 4))
  <2>1. text = Pointed(digits, n) \o <<"e", IF e < 0 THEN "-" ELSE "+">> \o Exponent(exp)
    BY <1>2, <1>6, <1>7, <1>11
  <2> QED
    <3>1. digits \in Seq(Digits) /\ n \in Nat \ {0}
      OBVIOUS
    <3>2. Read(text) = Stripped(digits, K)
      <4>1. WithExponent(text, digits, n, K, e, exp)
        BY <1>1, <1>2, <1>3, <2>1, <3>1 DEF WithExponent
      <4> QED
        BY <4>1, ScientificReads
    <3> QED
      BY <1>5, <3>2
<1> QED
  BY <1>9, <1>10, <1>11

\* The digits and exponents that are chosen.
Writable(digits, K) ==
  /\ digits \in Seq(Digits) /\ Len(digits) \in 1..17
  /\ \E i \in 1..Len(digits) : digits[i] # "0"
  /\ K \in Int /\ Abs(K + Len(digits) - 1) <= 999

DigitsChosen == kind = "digits" => Writable(input.digits, input.K)

LEMMA ChosenWritable ==
  ASSUME NEW n \in {1, 2, 3, 8, 16, 17}, NEW zeros \in 0..2, zeros < n,
         NEW K \in -25..25 \union {-MaxExponent, -110, -100, -99, 90, 99, 100, 105, MaxExponent},
         NEW digits,
         digits = [i \in 1..n |-> IF i > n - zeros THEN "0" ELSE Digit((i % 9) + 1)]
  PROVE  Writable(digits, K)
<1>1. n \in 1..17 /\ 1 \in 1..n /\ ~(1 > n - zeros) /\ (1 % 9) + 1 = 2
  OBVIOUS
<1>2. ASSUME NEW i \in 1..n
      PROVE  (IF i > n - zeros THEN "0" ELSE Digit((i % 9) + 1)) \in Digits
  <2>1. (i % 9) + 1 \in 0..9
    BY <1>1
  <2>2. Digit((i % 9) + 1) \in Digits
    <3>1. PICK d \in 0..9 : d = (i % 9) + 1
      BY <2>1
    <3> QED
      BY <3>1, WorthOfDigit
  <2> QED
    BY <2>2 DEF Digits
<1>3. digits \in [1..n -> Digits]
  BY <1>2
<1>4. digits \in Seq(Digits) /\ Len(digits) = n
  BY <1>1, <1>3
<1>5. digits[1] # "0"
  <2>1. digits[1] = Digit(2)
    BY <1>1
  <2> QED
    BY <2>1 DEF Digit, Char
<1>6. MaxExponent \in 110..330
  BY BoundsAssumption
<1>7. K \in -330..330
  BY <1>6
<1>8. PICK e \in -999..999 : e = K + n - 1
  BY <1>1, <1>7
<1>9. Abs(e) <= 999
  BY DEF Abs
<1> QED
  BY <1>1, <1>4, <1>5, <1>7, <1>8, <1>9 DEF Writable

\* What holds of every text that can be written.
ReadsBack(digits, K, neg) ==
  LET text == emit_digits(digits, K, neg)
      sign == IF neg THEN 1 ELSE 0 IN
  /\ Read(text) = Stripped(digits, K)
  /\ Len(text) + sign <= 24 \/ (neg /\ Len(digits) = 17 /\ K = 7)

LEMMA WritableReadsBack ==
  ASSUME NEW digits, NEW K, NEW neg, Writable(digits, K)
  PROVE  ReadsBack(digits, K, neg)
<1>1. /\ digits \in Seq(Digits) /\ Len(digits) \in 1..17
      /\ \E i \in 1..Len(digits) : digits[i] # "0"
      /\ K \in Int /\ Abs(K + Len(digits) - 1) <= 999
  BY DEF Writable
<1>2. Read(emit_digits(digits, K, neg)) = Stripped(digits, K)
  BY <1>1, TextReads
<1>3. digits \in Seq(Symbol)
  BY <1>1, DigitsPlain
<1>4. Fits(digits, K, neg)
  BY <1>1, <1>3, TextFitsForSign
<1> QED
  BY <1>2, <1>4, Zenon DEF ReadsBack, Fits

\* In every run what emit_digits() writes of the chosen digits is read back as the same
\* number and fits.
THEOREM TextAlwaysReadsBack == Spec => []TextReadsBack
<1>1. Init => DigitsChosen
  BY DEF Init, DigitsChosen
<1>2. DigitsChosen /\ [Next]_vars => DigitsChosen'
  <2> SUFFICES ASSUME DigitsChosen, [Next]_vars, kind' = "digits"
               PROVE  Writable(input'.digits, input'.K)
    BY DEF DigitsChosen
  <2>1. CASE ChooseDigits
    <3>1. PICK n \in {1, 2, 3, 8, 16, 17}, zeros \in 0..2, neg \in BOOLEAN,
               K \in -25..25 \union {-MaxExponent, -110, -100, -99, 90, 99, 100, 105, MaxExponent} :
            /\ zeros < n
            /\ input' = [digits |-> [i \in 1..n |-> IF i > n - zeros THEN "0"
                                                    ELSE Digit((i % 9) + 1)],
                         K |-> K, neg |-> neg]
      BY <2>1, Zenon DEF ChooseDigits
    <3>2. PICK digits :
            digits = [i \in 1..n |-> IF i > n - zeros THEN "0" ELSE Digit((i % 9) + 1)]
      OBVIOUS
    <3>3. Writable(digits, K)
      BY <3>1, <3>2, ChosenWritable
    <3>4. input' = [digits |-> digits, K |-> K, neg |-> neg]
      BY <3>1, <3>2
    <3>5. input'.digits = digits /\ input'.K = K
      BY <3>4
    <3> QED
      BY <3>3, <3>5
  <2>2. CASE ~ ChooseDigits
    <3>1. ChooseAddress \/ ChooseNumber \/ ChooseFeatures \/ UNCHANGED vars
      BY <2>2 DEF Next
    <3>2. kind' = kind /\ input' = input
      BY <3>1 DEF ChooseAddress, ChooseNumber, ChooseFeatures, vars
    <3> QED
      BY <3>2 DEF DigitsChosen
  <2> QED
    BY <2>1, <2>2
<1>3. DigitsChosen => TextReadsBack
  <2> SUFFICES ASSUME DigitsChosen, kind = "digits" PROVE TextReadsBack
    BY DEF TextReadsBack
  <2>1. PICK digits : digits = input.digits
    OBVIOUS
  <2>2. PICK K : K = input.K
    OBVIOUS
  <2>3. PICK neg : neg = input.neg
    BY Zenon
  <2>4. Writable(digits, K)
    BY <2>1, <2>2 DEF DigitsChosen
  <2>5. ReadsBack(digits, K, neg)
    BY <2>4, WritableReadsBack
  <2>6. ReadsBack(input.digits, input.K, input.neg)
    BY <2>1, <2>2, <2>3, <2>5, Zenon
  <2> QED
    BY <2>6, Zenon DEF ReadsBack, TextReadsBack
<1> QED
  BY <1>1, <1>2, <1>3, PTL DEF Spec

-----------------------------------------------------------------------------
(* resolve(): one call. *)

\* What a manifest says of every feature are names.
Manifest(depends) == \A name \in Name : Deps(depends, name) \in Seq(Name)

\* A call that c makes, and what c returns after all of them.
Deeper(c, dep, st) == CallOf(dep, c.stack \union {c.name}, st)
VisitBy(c, deep) ==
  IF c.st.outcome = "cycle" \/ Resolved(c.st, c.name) THEN c.st
  ELSE IF c.name \in c.stack THEN [c.st EXCEPT !.outcome = "cycle"]
  ELSE IF deep.outcome = "cycle" THEN deep
  ELSE [deep EXCEPT !.resolved = Append(@, c.name)]

\* The states g[k] after the first k dependencies.
Descends(g, depends, f, c) ==
  LET deps == Deps(depends, c.name) IN
  /\ g \in [0..Len(deps) -> State] /\ g[0] = c.st
  /\ \A k \in 1..Len(deps) : g[k] = f[Deeper(c, deps[k], g[k - 1])]

Returns(f, c) == \A d \in Name, st \in State : f[Deeper(c, d, st)] \in State

\* The calls that c makes are calls.
LEMMA DeeperIsCall ==
  ASSUME NEW c \in Call, NEW d \in Name, NEW st \in State
  PROVE  /\ Deeper(c, d, st) \in Call
         /\ Deeper(c, d, st).name = d /\ Deeper(c, d, st).st = st
         /\ Deeper(c, d, st).stack = c.stack \union {c.name}
BY DEF Deeper, CallOf, Call

\* What c returns is a state.
LEMMA VisitByState ==
  ASSUME NEW c \in Call, NEW deep \in State
  PROVE  VisitBy(c, deep) \in State
<1>1. c.st \in State /\ c.name \in Name
  BY DEF Call
<1>2. [c.st EXCEPT !.outcome = "cycle"] \in State
  BY <1>1 DEF State
<1>3. [deep EXCEPT !.resolved = Append(@, c.name)] \in State
  <2>1. deep.resolved \in Seq(Name)
    BY DEF State
  <2>2. Append(deep.resolved, c.name) \in Seq(Name)
    BY <1>1, <2>1, AppendProperties
  <2> QED
    BY <2>2 DEF State
<1> QED
  BY <1>1, <1>2, <1>3 DEF VisitBy

\* A call is what is made of the states after its dependencies, one by one.
LEMMA VisitSteps ==
  ASSUME NEW depends, Manifest(depends), NEW f, NEW c \in Call, Returns(f, c)
  PROVE  \E g : /\ Descends(g, depends, f, c)
                /\ Visit(depends, f, c) = VisitBy(c, g[Len(Deps(depends, c.name))])
<1> DEFINE q == Deps(depends, c.name)
           n == Len(q)
           T == [i \in 1..n |-> [st \in State |-> f[Deeper(c, q[i], st)]]]
           Step(h, s) == IF s = {} THEN c.st ELSE f[Deeper(c, q[Max(s)], h[s \ {Max(s)}])]
           Solves(h) == h = [s \in SUBSET (1..n) |-> Step(h, s)]
           iter == CHOOSE h : Solves(h)
<1>1. q \in Seq(Name) /\ n \in Nat /\ DOMAIN q = 1..n /\ \A i \in 1..n : q[i] \in Name
  <2>1. c.name \in Name
    BY DEF Call
  <2>2. q \in Seq(Name)
    BY <2>1 DEF Manifest
  <2> HIDE DEF q
  <2>3. n \in Nat /\ DOMAIN q = 1..n /\ \A i \in 1..n : q[i] \in Name
    BY <2>2, LenProperties, ElementOfSeq
  <2> QED
    BY <2>2, <2>3
<1>2. Visit(depends, f, c) = VisitBy(c, iter[1..n])
  BY <1>1 DEF Visit, VisitBy, Deeper, FoldLeft, MapThenFoldSet
<1> HIDE DEF q, n
<1>3. T \in [1..n -> [State -> State]]
  BY <1>1 DEF Returns
<1>4. ASSUME NEW i \in 1..n, NEW st \in State PROVE T[i][st] = f[Deeper(c, q[i], st)]
  OBVIOUS
<1> HIDE DEF T
<1>5. c.st \in State
  BY DEF Call
<1>6. PICK h : Iterates(h, State, c.st, n, T)
  BY <1>1, <1>3, <1>5, IterationExists
<1>7. Solves(h)
  <2>1. ASSUME NEW s \in SUBSET (1..n) PROVE h[s] = Step(h, s)
    <3>1. CASE s = {}
      BY <1>6, <3>1 DEF Iterates
    <3>2. CASE s # {}
      <4>1. Max(s) \in 1..n /\ s \ {Max(s)} \in SUBSET (1..n)
        BY <1>1, <3>2, GreatestPosition
      <4>2. h[s \ {Max(s)}] \in State /\ h[s] = T[Max(s)][h[s \ {Max(s)}]]
        BY <1>6, <3>2, <4>1 DEF Iterates
      <4> QED
        BY <1>4, <3>2, <4>1, <4>2
    <3> QED
      BY <3>1, <3>2
  <2>2. h = [s \in SUBSET (1..n) |-> h[s]]
    BY <1>6 DEF Iterates
  <2> HIDE DEF Step
  <2> QED
    BY <2>1, <2>2
<1>8. Solves(iter)
  <2> HIDE DEF Solves
  <2> QED
    BY <1>7
<1> HIDE DEF iter
<1>9. Follows(iter, State, c.st, n, T)
  <2>1. iter[{}] = c.st
    BY <1>8
  <2>2. ASSUME NEW s \in SUBSET (1..n), s # {}, iter[s \ {Max(s)}] \in State
        PROVE  iter[s] = T[Max(s)][iter[s \ {Max(s)}]]
    <3>1. Max(s) \in 1..n
      BY <1>1, <2>2, GreatestPosition
    <3> QED
      BY <1>4, <1>8, <2>2, <3>1
  <2> QED
    BY <2>1, <2>2 DEF Follows
<1>10. PICK g : Reaches(g, State, c.st, n, T, iter[1..n])
  BY <1>1, <1>3, <1>5, <1>9, FoldSteps
<1>11. ASSUME NEW k \in 1..n PROVE g[k] = f[Deeper(c, q[k], g[k - 1])]
  <2>1. k - 1 \in 0..n
    BY <1>1
  <2>2. g[k - 1] \in State /\ g[k] = T[k][g[k - 1]]
    BY <1>10, <2>1 DEF Reaches
  <2> QED
    BY <1>4, <2>2
<1>12. Descends(g, depends, f, c)
  BY <1>10, <1>11 DEF Descends, Reaches, q, n
<1>13. g[n] = iter[1..n]
  BY <1>10 DEF Reaches
<1> QED
  BY <1>2, <1>12, <1>13 DEF q, n

-----------------------------------------------------------------------------
(* resolve(): the recursion ends, because the stack grows. *)

\* The names that are not on the stack.
Rank(c) == Cardinality(Name \ c.stack)

LEMMA RankFacts ==
  ASSUME NEW c \in Call
  PROVE  /\ Rank(c) \in 0..(Features + 1)
         /\ c.name \notin c.stack =>
              \A d \in Name, st \in State : Rank(Deeper(c, d, st)) < Rank(c)
<1>1. Features \in Nat \ {0}
  BY FeaturesAssumption
<1>2. IsFiniteSet(Name) /\ Cardinality(Name) = Features + 1
  <2>1. 0 \in Int /\ Features \in Int /\ ~(0 > Features) /\ Features - 0 + 1 = Features + 1
    BY <1>1
  <2> QED
    BY <2>1, FS_Interval DEF Name
<1>3. Name \ c.stack \in SUBSET Name
  OBVIOUS
<1>4. IsFiniteSet(Name \ c.stack) /\ Cardinality(Name \ c.stack) <= Features + 1
  BY <1>2, <1>3, FS_Subset
<1>5. Cardinality(Name \ c.stack) \in Nat
  BY <1>4, FS_CardinalityType
<1>6. ASSUME c.name \notin c.stack, NEW d \in Name, NEW st \in State
      PROVE  Rank(Deeper(c, d, st)) < Rank(c)
  <2>1. Deeper(c, d, st).stack = c.stack \union {c.name} /\ c.name \in Name \ c.stack
    BY <1>6, DeeperIsCall DEF Call
  <2>2. Name \ Deeper(c, d, st).stack = (Name \ c.stack) \ {c.name}
    BY <2>1
  <2>3. Cardinality((Name \ c.stack) \ {c.name}) = Cardinality(Name \ c.stack) - 1
    BY <1>4, <2>1, FS_RemoveElement
  <2>4. PICK m : m = Cardinality(Name \ c.stack)
    OBVIOUS
  <2>5. m \in Nat /\ Rank(c) = m /\ Rank(Deeper(c, d, st)) = m - 1
    BY <1>5, <2>2, <2>3, <2>4 DEF Rank
  <2> QED
    BY <2>5
<1>7. Rank(c) \in 0..(Features + 1)
  BY <1>1, <1>4, <1>5 DEF Rank
<1> QED
  BY <1>6, <1>7

\* What a call returns depends on what its own calls return, if it makes any.
LEMMA VisitAgrees ==
  ASSUME NEW depends, Manifest(depends), NEW f, NEW h, NEW c \in Call, Returns(f, c),
         \A d \in Name, st \in State : f[Deeper(c, d, st)] = h[Deeper(c, d, st)]
  PROVE  Visit(depends, f, c) = Visit(depends, h, c)
<1> DEFINE q == Deps(depends, c.name)
           n == Len(q)
<1>1. Returns(h, c)
  BY DEF Returns
<1>2. n \in Nat /\ \A i \in 1..n : q[i] \in Name
  <2>1. q \in Seq(Name)
    BY DEF Manifest, Call
  <2> HIDE DEF q
  <2> QED
    BY <2>1, LenProperties, ElementOfSeq
<1>3. PICK a : Descends(a, depends, f, c) /\ Visit(depends, f, c) = VisitBy(c, a[n])
  BY VisitSteps
<1>4. PICK b : Descends(b, depends, h, c) /\ Visit(depends, h, c) = VisitBy(c, b[n])
  BY <1>1, VisitSteps
<1>5. /\ a[0] = c.st /\ (\A k \in 0..n : a[k] \in State)
      /\ \A k \in 1..n : a[k] = f[Deeper(c, q[k], a[k - 1])]
  BY <1>3 DEF Descends
<1>6. b[0] = c.st /\ \A k \in 1..n : b[k] = h[Deeper(c, q[k], b[k - 1])]
  BY <1>4 DEF Descends
<1> HIDE DEF q, n
<1> DEFINE M == {k \in Nat : k <= n => a[k] = b[k]}
<1>7. 0 \in M
  BY <1>5, <1>6
<1>8. ASSUME NEW k \in M PROVE k + 1 \in M
  <2> SUFFICES ASSUME k + 1 <= n PROVE a[k + 1] = b[k + 1]
    OBVIOUS
  <2>1. k + 1 \in 1..n /\ (k + 1) - 1 = k /\ k \in 0..n /\ k <= n
    BY <1>2
  <2>2. a[k] = b[k] /\ a[k] \in State /\ q[k + 1] \in Name
    BY <1>2, <1>5, <2>1
  <2>3. a[k + 1] = f[Deeper(c, q[k + 1], a[k])] /\ b[k + 1] = h[Deeper(c, q[k + 1], b[k])]
    BY <1>5, <1>6, <2>1
  <2> QED
    BY <2>2, <2>3
<1>9. M \in SUBSET Nat /\ \A k \in M : k + 1 \in M
  BY <1>8
<1> HIDE DEF M
<1>10. n \in M
  BY <1>2, <1>7, <1>9, Successors
<1> QED
  BY <1>2, <1>3, <1>4, <1>10 DEF M, q, n

\* What a call returns is a state, if its calls return states or it makes none.
LEMMA VisitState ==
  ASSUME NEW depends, Manifest(depends), NEW f, NEW c \in Call,
         Returns(f, c) \/ c.name \in c.stack
  PROVE  Visit(depends, f, c) \in State
<1>1. CASE Returns(f, c)
  <2> DEFINE q == Deps(depends, c.name)
             n == Len(q)
  <2>1. q \in Seq(Name)
    BY DEF Manifest, Call
  <2>2. PICK g : Descends(g, depends, f, c) /\ Visit(depends, f, c) = VisitBy(c, g[n])
    BY <1>1, VisitSteps
  <2>3. g \in [0..n -> State]
    BY <2>2 DEF Descends
  <2> HIDE DEF q
  <2>4. n \in Nat
    BY <2>1, LenProperties
  <2> HIDE DEF n
  <2>5. g[n] \in State
    BY <2>3, <2>4
  <2> QED
    BY <2>2, <2>5, VisitByState
<1>2. CASE c.name \in c.stack
  <2>1. c.st \in State
    BY DEF Call
  <2>2. [c.st EXCEPT !.outcome = "cycle"] \in State
    BY <2>1 DEF State
  <2>3. Visit(depends, f, c) = c.st \/ Visit(depends, f, c) = [c.st EXCEPT !.outcome = "cycle"]
    BY <1>2 DEF Visit
  <2> QED
    BY <2>1, <2>2, <2>3
<1> QED
  BY <1>1, <1>2

IsResolve(depends, f) == f = [c \in Call |-> Visit(depends, f, c)]

\* Every call returns a state.
LEMMA ResolveReturns ==
  ASSUME NEW depends, Manifest(depends), NEW f, IsResolve(depends, f)
  PROVE  f \in [Call -> State]
<1> DEFINE M == {k \in Nat : \A c \in Call : Rank(c) < k => f[c] \in State}
<1>1. \A c \in Call : f[c] = Visit(depends, f, c)
  BY DEF IsResolve
<1>2. \A c \in Call : Rank(c) \in Nat /\ Rank(c) < Features + 2
  BY RankFacts, FeaturesAssumption
<1>3. 0 \in M
  BY <1>2
<1>4. ASSUME NEW k \in M PROVE k + 1 \in M
  <2> SUFFICES ASSUME NEW c \in Call, Rank(c) < k + 1 PROVE f[c] \in State
    OBVIOUS
  <2>1. Returns(f, c) \/ c.name \in c.stack
    <3> SUFFICES ASSUME c.name \notin c.stack, NEW d \in Name, NEW st \in State
                 PROVE  f[Deeper(c, d, st)] \in State
      BY DEF Returns
    <3>1. Deeper(c, d, st) \in Call /\ Rank(Deeper(c, d, st)) < Rank(c)
      BY DeeperIsCall, RankFacts
    <3>2. Rank(Deeper(c, d, st)) < k
      BY <1>2, <3>1
    <3> QED
      BY <3>1, <3>2
  <2>2. Visit(depends, f, c) \in State
    BY <2>1, VisitState
  <2> QED
    BY <1>1, <2>2
<1>5. M \in SUBSET Nat /\ \A k \in M : k + 1 \in M
  BY <1>4
<1> HIDE DEF M
<1>6. Features + 2 \in M
  BY <1>3, <1>5, Successors, FeaturesAssumption
<1>7. \A c \in Call : f[c] \in State
  BY <1>2, <1>6 DEF M
<1>8. f = [c \in Call |-> f[c]]
  BY <1>1 DEF IsResolve
<1> QED
  BY <1>7, <1>8

\* resolve() is well defined.
LEMMA ResolveExists ==
  ASSUME NEW depends, Manifest(depends)
  PROVE  \E f : IsResolve(depends, f)
<1> DEFINE Solves(f, k) == \A c \in Call : Rank(c) < k => f[c] = Visit(depends, f, c)
           M == {k \in Nat : \E f \in [Call -> State] : Solves(f, k)}
<1>1. \A c \in Call : Rank(c) \in Nat /\ Rank(c) < Features + 2
  BY RankFacts, FeaturesAssumption
<1>2. 0 \in M
  <2> DEFINE f == [c \in Call |-> c.st]
  <2>1. f \in [Call -> State]
    BY DEF Call
  <2>2. Solves(f, 0)
    BY <1>1
  <2> QED
    BY <2>1, <2>2
<1>3. ASSUME NEW k \in M PROVE k + 1 \in M
  <2>1. PICK f \in [Call -> State] : Solves(f, k)
    OBVIOUS
  <2> DEFINE h == [c \in Call |-> Visit(depends, f, c)]
  <2>2. ASSUME NEW c \in Call PROVE Returns(f, c)
    BY DeeperIsCall DEF Returns
  <2>3. h \in [Call -> State]
    BY <2>2, VisitState
  <2>4. ASSUME NEW c \in Call, Rank(c) < k + 1 PROVE h[c] = Visit(depends, h, c)
    <3>1. h[c] = Visit(depends, f, c)
      OBVIOUS
    <3>2. CASE c.name \notin c.stack
      <4>1. ASSUME NEW d \in Name, NEW st \in State
            PROVE  f[Deeper(c, d, st)] = h[Deeper(c, d, st)]
        <5>1. Deeper(c, d, st) \in Call /\ Rank(Deeper(c, d, st)) < Rank(c)
          BY <3>2, DeeperIsCall, RankFacts
        <5>2. Rank(Deeper(c, d, st)) < k
          BY <1>1, <2>4, <5>1
        <5> QED
          BY <2>1, <5>1, <5>2
      <4> HIDE DEF h
      <4>2. Visit(depends, f, c) = Visit(depends, h, c)
        BY <2>2, <4>1, VisitAgrees
      <4> QED
        BY <3>1, <4>2
    <3>3. CASE c.name \in c.stack
      <4> HIDE DEF h
      <4>1. Visit(depends, f, c) = Visit(depends, h, c)
        BY <3>3 DEF Visit
      <4> QED
        BY <3>1, <4>1
    <3> QED
      BY <3>2, <3>3
  <2> HIDE DEF h
  <2>5. Solves(h, k + 1) /\ k + 1 \in Nat
    BY <2>4
  <2> QED
    BY <2>3, <2>5
<1>4. M \in SUBSET Nat /\ \A k \in M : k + 1 \in M
  BY <1>3
<1> HIDE DEF M
<1>5. Features + 2 \in M
  BY <1>2, <1>4, Successors, FeaturesAssumption
<1>6. PICK f \in [Call -> State] : Solves(f, Features + 2)
  BY <1>5 DEF M
<1>7. \A c \in Call : f[c] = Visit(depends, f, c)
  BY <1>1, <1>6
<1>8. IsResolve(depends, f)
  BY <1>7 DEF IsResolve
<1> QED
  BY <1>8

-----------------------------------------------------------------------------
(* What is reachable. *)

\* What is reachable has the start, is closed, and is in every closed set with the start.
LEMMA ReachFacts ==
  ASSUME NEW depends, NEW S \in SUBSET Name
  PROVE  /\ Reachable(depends, S) \in SUBSET Name
         /\ S \subseteq Reachable(depends, S)
         /\ Closed(depends, Reachable(depends, S))
         /\ \A T \in SUBSET Name :
              S \subseteq T /\ Closed(depends, T) => Reachable(depends, S) \subseteq T
<1>1. Reachable(depends, S) \in SUBSET Name /\ S \subseteq Reachable(depends, S)
  BY DEF Reachable
<1>2. ASSUME NEW T \in SUBSET Name, S \subseteq T, Closed(depends, T)
      PROVE  Reachable(depends, S) \subseteq T
  BY <1>2 DEF Reachable
<1>3. ASSUME NEW e \in Edges(depends), e[1] \in Reachable(depends, S)
      PROVE  e[2] \in Reachable(depends, S)
  <2>1. e[2] \in Name
    BY DEF Edges
  <2>2. ASSUME NEW T \in SUBSET Name, S \subseteq T, Closed(depends, T)
        PROVE  e[2] \in T
    <3>1. e[1] \in T
      BY <1>2, <1>3, <2>2
    <3> QED
      BY <2>2, <3>1 DEF Closed
  <2> QED
    BY <2>1, <2>2 DEF Reachable
<1> QED
  BY <1>1, <1>2, <1>3 DEF Closed

\* An edge goes on from what is reachable.
LEMMA ReachStep ==
  ASSUME NEW depends, NEW S \in SUBSET Name, NEW a \in Reachable(depends, S), NEW b,
         <<a, b>> \in Edges(depends)
  PROVE  b \in Reachable(depends, S)
<1>1. PICK e \in Edges(depends) : e = <<a, b>>
  OBVIOUS
<1>2. e[1] = a /\ e[2] = b
  BY <1>1
<1> QED
  BY <1>2, ReachFacts DEF Closed

\* What is reachable from what is reachable is reachable.
LEMMA ReachAgain ==
  ASSUME NEW depends, NEW S \in SUBSET Name, NEW U \in SUBSET Name,
         U \subseteq Reachable(depends, S)
  PROVE  Reachable(depends, U) \subseteq Reachable(depends, S)
BY ReachFacts

\* The dependencies of a name are the ends of its edges.
LEMMA EdgeFacts ==
  ASSUME NEW depends, Manifest(depends), NEW a \in Name
  PROVE  /\ \A b : <<a, b>> \in Edges(depends)
                     <=> \E i \in 1..Len(Deps(depends, a)) : b = Deps(depends, a)[i]
         /\ After(depends, a) \in SUBSET Name
         /\ \A b : b \in After(depends, a) <=> <<a, b>> \in Edges(depends)
<1> DEFINE q == Deps(depends, a)
<1>1. q \in Seq(Name)
  BY DEF Manifest
<1>2. ASSUME NEW b
      PROVE  <<a, b>> \in Edges(depends) <=> \E i \in 1..Len(q) : b = q[i]
  <2>1. PICK e : e = <<a, b>>
    OBVIOUS
  <2>2. e[1] = a /\ e[2] = b /\ (e \in Name \X Name <=> b \in Name)
    BY <2>1
  <2>3. \A i \in 1..Len(q) : q[i] \in Name
    BY <1>1, ElementOfSeq
  <2>4. e \in Edges(depends) <=> e \in Name \X Name /\ \E i \in 1..Len(q) : q[i] = b
    BY <2>2 DEF Edges, Contains
  <2> QED
    BY <2>1, <2>2, <2>3, <2>4
<1>3. ASSUME NEW b PROVE b \in After(depends, a) <=> <<a, b>> \in Edges(depends)
  <2>1. <<a, b>> \in Edges(depends) => b \in Name
    BY DEF Edges
  <2> QED
    BY <2>1 DEF After
<1> QED
  BY <1>2, <1>3 DEF After

-----------------------------------------------------------------------------
(* resolve(): what it resolves, and when it finds a cycle. *)

\* Each name once, behind all that it depends on.
Ordered(depends, r) ==
  /\ r \in Seq(Name) /\ IsInjective(r)
  /\ \A i \in 1..Len(r), b \in Name :
       <<r[i], b>> \in Edges(depends) => \E j \in 1..(i - 1) : r[j] = b

Leads(depends, S) == \E a \in Reachable(depends, S) : OnCycle(depends, a)
Keeps(st, t) == \A x \in Name : Resolved(st, x) => Resolved(t, x)

\* What holds when resolve() is called, and what it answers then.
Asks(depends, c) ==
  /\ c.st.outcome = "ok" /\ Ordered(depends, c.st.resolved)
  /\ \A x \in c.stack :
       ~Resolved(c.st, x) /\ c.name \in Reachable(depends, After(depends, x))
Answers(depends, c, t) ==
  /\ t.outcome = "cycle" => Leads(depends, {c.name})
  /\ t.outcome = "ok" =>
       /\ Ordered(depends, t.resolved) /\ Resolved(t, c.name) /\ Keeps(c.st, t)
       /\ \A x \in c.stack : ~Resolved(t, x)

\* Nothing in a sequence of that kind is on a cycle.
LEMMA OrderedAcyclic ==
  ASSUME NEW depends, Manifest(depends), NEW r, Ordered(depends, r), NEW i \in 1..Len(r)
  PROVE  ~OnCycle(depends, r[i])
<1> DEFINE n == Len(r)
           T == {r[j] : j \in 1..(i - 1)}
<1>1. n \in Nat /\ DOMAIN r = 1..n /\ \A j \in 1..n : r[j] \in Name
  BY LenProperties, ElementOfSeq DEF Ordered
<1>2. i \in 1..n
  OBVIOUS
<1>3. ASSUME NEW j \in 1..n, NEW b \in Name, <<r[j], b>> \in Edges(depends)
      PROVE  \E k \in 1..(j - 1) : r[k] = b
  BY <1>3 DEF Ordered
<1>4. \A j, k \in 1..n : r[j] = r[k] => j = k
  BY <1>1 DEF Ordered, IsInjective
<1> HIDE DEF n
<1>5. T \in SUBSET Name
  BY <1>1, <1>2
<1>6. ASSUME NEW e \in Edges(depends), e[1] \in T PROVE e[2] \in T
  <2>1. PICK j \in 1..(i - 1) : e[1] = r[j]
    BY <1>6
  <2>2. j \in 1..n /\ e[2] \in Name /\ e = <<e[1], e[2]>>
    BY <1>1, <1>2 DEF Edges
  <2>3. PICK k \in 1..(j - 1) : r[k] = e[2]
    BY <1>3, <2>1, <2>2
  <2>4. k \in 1..(i - 1)
    BY <1>1, <1>2
  <2> QED
    BY <2>3, <2>4
<1>7. r[i] \in Name
  BY <1>1, <1>2
<1>8. After(depends, r[i]) \subseteq T
  <2> SUFFICES ASSUME NEW b \in Name, <<r[i], b>> \in Edges(depends) PROVE b \in T
    BY DEF After
  <2>1. PICK k \in 1..(i - 1) : r[k] = b
    BY <1>2, <1>3
  <2> QED
    BY <2>1
<1>9. r[i] \notin T
  <2>1. \A j \in 1..(i - 1) : j \in 1..n /\ j # i
    BY <1>1, <1>2
  <2> QED
    BY <1>2, <1>4, <2>1
<1> HIDE DEF T
<1>10. Closed(depends, T)
  BY <1>6 DEF Closed
<1>11. PICK A : A = After(depends, r[i])
  OBVIOUS
<1>12. A \in SUBSET Name
  BY <1>5, <1>8, <1>11
<1>13. Reachable(depends, A) \subseteq T
  BY <1>5, <1>8, <1>10, <1>11, <1>12, ReachFacts
<1> QED
  BY <1>9, <1>11, <1>13 DEF OnCycle

\* One more name.
LEMMA AppendOrdered ==
  ASSUME NEW depends, Manifest(depends), NEW r, Ordered(depends, r), NEW a \in Name,
         ~Contains(r, a), \A b \in Name : <<a, b>> \in Edges(depends) => Contains(r, b)
  PROVE  /\ Ordered(depends, Append(r, a))
         /\ \A x : Contains(Append(r, a), x) <=> Contains(r, x) \/ x = a
<1> DEFINE n == Len(r)
           s == Append(r, a)
<1>1. n \in Nat /\ DOMAIN r = 1..n /\ r \in Seq(Name)
  BY LenProperties DEF Ordered
<1>2. s \in Seq(Name) /\ Len(s) = n + 1 /\ s[n + 1] = a /\ \A i \in 1..n : s[i] = r[i]
  BY <1>1, AppendProperties
<1>3. DOMAIN s = 1..(n + 1)
  BY <1>2, LenProperties
<1>4. ASSUME NEW i \in 1..n, NEW b \in Name, <<r[i], b>> \in Edges(depends)
      PROVE  \E j \in 1..(i - 1) : r[j] = b
  BY <1>4 DEF Ordered
<1>5. \A i, j \in 1..n : r[i] = r[j] => i = j
  BY <1>1 DEF Ordered, IsInjective
<1>6. (\A i \in 1..n : r[i] # a)
      /\ \A b \in Name : <<a, b>> \in Edges(depends) => \E i \in 1..n : r[i] = b
  BY DEF Contains
<1>7. \A i \in 1..(n + 1) : i \in 1..n \/ i = n + 1
  BY <1>1
<1>8. ASSUME NEW x PROVE Contains(s, x) <=> Contains(r, x) \/ x = a
  <2>1. n + 1 \in 1..(n + 1) /\ 1..n \subseteq 1..(n + 1)
    BY <1>1
  <2>2. Contains(s, x) <=> \E i \in 1..(n + 1) : s[i] = x
    BY <1>2 DEF Contains
  <2>3. Contains(r, x) <=> \E i \in 1..n : r[i] = x
    BY DEF Contains
  <2> HIDE DEF s, n
  <2> QED
    BY <1>2, <1>7, <2>1, <2>2, <2>3
<1> HIDE DEF s
<1>9. IsInjective(s)
  <2> HIDE DEF n
  <2> SUFFICES ASSUME NEW i \in 1..(n + 1), NEW j \in 1..(n + 1), s[i] = s[j] PROVE i = j
    BY <1>3 DEF IsInjective
  <2> QED
    BY <1>2, <1>5, <1>6, <1>7
<1>10. ASSUME NEW i \in 1..(n + 1), NEW b \in Name, <<s[i], b>> \in Edges(depends)
       PROVE  \E j \in 1..(i - 1) : s[j] = b
  <2> HIDE DEF n
  <2>1. CASE i \in 1..n
    <3>1. PICK j \in 1..(i - 1) : r[j] = b
      BY <1>2, <1>4, <1>10, <2>1
    <3>2. j \in 1..n
      BY <1>1, <2>1
    <3> QED
      BY <1>2, <3>1, <3>2
  <2>2. CASE i = n + 1
    <3>1. PICK j \in 1..n : r[j] = b
      BY <1>2, <1>6, <1>10, <2>2
    <3>2. j \in 1..(i - 1)
      BY <1>1, <2>2
    <3> QED
      BY <1>2, <3>1, <3>2
  <2> QED
    BY <1>7, <2>1, <2>2
<1>11. Ordered(depends, s)
  BY <1>2, <1>9, <1>10 DEF Ordered
<1> QED
  BY <1>8, <1>11 DEF s

\* After a cycle nothing changes.
LEMMA CycleStays ==
  ASSUME NEW depends, NEW f, IsResolve(depends, f), NEW c \in Call, c.st.outcome = "cycle"
  PROVE  f[c] = c.st
BY DEF IsResolve, Visit

\* The states after each dependency, for a call that finds its name neither resolved nor on
\* the stack: the dependencies so far are resolved, nothing of the stack is.
Halfway(depends, c, st, k) ==
  /\ st.outcome = "cycle" => Leads(depends, {c.name})
  /\ st.outcome = "ok" =>
       /\ Ordered(depends, st.resolved) /\ Keeps(c.st, st)
       /\ \A i \in 1..k : Resolved(st, Deps(depends, c.name)[i])
       /\ \A x \in c.stack \union {c.name} : ~Resolved(st, x)

LEMMA OneDependency ==
  ASSUME NEW depends, Manifest(depends), NEW f, IsResolve(depends, f), NEW c \in Call,
         Asks(depends, c),
         NEW k \in Nat, k + 1 \in 1..Len(Deps(depends, c.name)), NEW st \in State,
         Halfway(depends, c, st, k),
         NEW e, e = Deeper(c, Deps(depends, c.name)[k + 1], st),
         Asks(depends, e) => Answers(depends, e, f[e])
  PROVE  Halfway(depends, c, f[e], k + 1)
<1> DEFINE d == Deps(depends, c.name)[k + 1]
<1>1. c.name \in Name /\ Deps(depends, c.name) \in Seq(Name) /\ d \in Name
  <2>1. c.name \in Name /\ Deps(depends, c.name) \in Seq(Name)
    BY DEF Call, Manifest
  <2> QED
    BY <2>1, ElementOfSeq
<1>2. /\ e \in Call /\ e.name = d /\ e.st = st /\ e.stack = c.stack \union {c.name}
  BY <1>1, DeeperIsCall
<1>3. <<c.name, d>> \in Edges(depends)
  BY <1>1, EdgeFacts
<1> HIDE DEF d
<1>4. \A i \in 1..(k + 1) : i \in 1..k \/ i = k + 1
  OBVIOUS
<1>5. CASE st.outcome = "cycle"
  <2>1. f[e] = st
    BY <1>2, <1>5, CycleStays
  <2> QED
    BY <1>5, <2>1 DEF Halfway
<1>6. CASE st.outcome = "ok"
  <2>1. ASSUME NEW x \in c.stack \union {c.name}
        PROVE  d \in Reachable(depends, After(depends, x))
    <3>1. PICK A : A = After(depends, x)
      OBVIOUS
    <3>2. x \in Name
      BY <1>1 DEF Call
    <3>3. A \in SUBSET Name
      BY <3>1, <3>2, EdgeFacts
    <3>4. CASE x \in c.stack
      <4>1. c.name \in Reachable(depends, A)
        BY <3>1, <3>4 DEF Asks
      <4> QED
        BY <1>3, <3>1, <3>3, <4>1, ReachStep
    <3>5. CASE x = c.name
      <4>1. d \in A
        BY <1>1, <1>3, <3>1, <3>5, EdgeFacts
      <4> QED
        BY <3>1, <3>3, <4>1, ReachFacts
    <3> QED
      BY <3>4, <3>5
  <2>2. Asks(depends, e)
    BY <1>2, <1>6, <2>1 DEF Asks, Halfway
  <2>3. Answers(depends, e, f[e])
    BY <2>2
  <2>4. ASSUME f[e].outcome = "cycle" PROVE Leads(depends, {c.name})
    <3>1. PICK N : N = {c.name}
      OBVIOUS
    <3>2. PICK D : D = {d}
      OBVIOUS
    <3>3. N \in SUBSET Name /\ D \in SUBSET Name /\ c.name \in Reachable(depends, N)
      BY <1>1, <3>1, <3>2, ReachFacts
    <3>4. d \in Reachable(depends, N)
      BY <1>3, <3>3, ReachStep
    <3>5. Reachable(depends, D) \subseteq Reachable(depends, N)
      BY <3>2, <3>3, <3>4, ReachAgain
    <3>6. Leads(depends, D)
      BY <1>2, <2>3, <2>4, <3>2 DEF Answers
    <3> QED
      BY <3>1, <3>5, <3>6 DEF Leads
  <2>5. ASSUME f[e].outcome = "ok"
        PROVE  /\ Ordered(depends, f[e].resolved) /\ Keeps(c.st, f[e])
               /\ \A i \in 1..(k + 1) : Resolved(f[e], Deps(depends, c.name)[i])
               /\ \A x \in c.stack \union {c.name} : ~Resolved(f[e], x)
    <3>1. /\ Ordered(depends, f[e].resolved) /\ Resolved(f[e], d) /\ Keeps(st, f[e])
          /\ \A x \in c.stack \union {c.name} : ~Resolved(f[e], x)
      BY <1>2, <2>3, <2>5 DEF Answers
    <3>2. Keeps(c.st, st) /\ \A i \in 1..k : Resolved(st, Deps(depends, c.name)[i])
      BY <1>6 DEF Halfway
    <3>3. Keeps(c.st, f[e])
      BY <3>1, <3>2 DEF Keeps
    <3>4. \A i \in 1..k : Resolved(f[e], Deps(depends, c.name)[i])
      <4>1. \A i \in 1..k : Deps(depends, c.name)[i] \in Name
        <5>1. PICK q : q = Deps(depends, c.name)
          OBVIOUS
        <5>2. q \in Seq(Name) /\ k + 1 \in 1..Len(q) /\ Len(q) \in Nat
          BY <1>1, <5>1, LenProperties
        <5>3. \A i \in 1..k : i \in 1..Len(q)
          BY <5>2
        <5> QED
          BY <5>1, <5>2, <5>3, ElementOfSeq
      <4> QED
        BY <3>1, <3>2, <4>1 DEF Keeps
    <3> QED
      BY <1>4, <3>1, <3>3, <3>4 DEF d
  <2> QED
    BY <2>4, <2>5 DEF Halfway
<1>7. st.outcome \in {"ok", "cycle"}
  BY DEF State
<1> QED
  BY <1>5, <1>6, <1>7

\* A call answers what it should, if the calls it makes do.
LEMMA OneCall ==
  ASSUME NEW depends, Manifest(depends), NEW f, IsResolve(depends, f), NEW c \in Call,
         Asks(depends, c),
         c.name \notin c.stack =>
           \A d \in Name, st \in State :
             Asks(depends, Deeper(c, d, st))
               => Answers(depends, Deeper(c, d, st), f[Deeper(c, d, st)])
  PROVE  Answers(depends, c, f[c])
<1> DEFINE q == Deps(depends, c.name)
           n == Len(q)
<1>1. /\ c.name \in Name /\ c.stack \in SUBSET Name /\ c.st \in State
      /\ c.st.resolved \in Seq(Name)
  BY DEF Call, State
<1>2. q \in Seq(Name)
  BY <1>1 DEF Manifest
<1>3. f \in [Call -> State] /\ f[c] = Visit(depends, f, c)
  BY ResolveReturns DEF IsResolve
<1>4. Returns(f, c)
  BY <1>3, DeeperIsCall DEF Returns
<1>5. PICK g : Descends(g, depends, f, c) /\ Visit(depends, f, c) = VisitBy(c, g[n])
  BY <1>4, VisitSteps
<1>6. /\ g[0] = c.st /\ (\A k \in 0..n : g[k] \in State)
      /\ \A k \in 1..n : g[k] = f[Deeper(c, q[k], g[k - 1])]
  BY <1>5 DEF Descends
<1>7. n \in Nat /\ \A i \in 1..n : q[i] \in Name
  <2> HIDE DEF q
  <2> QED
    BY <1>2, LenProperties, ElementOfSeq
<1>8. c.st.outcome = "ok" /\ Ordered(depends, c.st.resolved)
  BY DEF Asks
<1>9. CASE Resolved(c.st, c.name)
  <2>1. f[c] = c.st
    BY <1>3, <1>5, <1>9 DEF VisitBy
  <2>2. Keeps(c.st, c.st)
    BY DEF Keeps
  <2> QED
    BY <1>8, <1>9, <2>1, <2>2 DEF Answers, Asks
<1>10. CASE ~Resolved(c.st, c.name) /\ c.name \in c.stack
  <2>1. f[c] = [c.st EXCEPT !.outcome = "cycle"]
    BY <1>3, <1>5, <1>8, <1>10 DEF VisitBy
  <2>2. f[c].outcome = "cycle"
    BY <1>1, <2>1 DEF State
  <2>3. OnCycle(depends, c.name)
    BY <1>10 DEF Asks, OnCycle
  <2>4. PICK N : N = {c.name}
    OBVIOUS
  <2>5. c.name \in Reachable(depends, N)
    BY <1>1, <2>4, ReachFacts
  <2>6. Leads(depends, N)
    BY <2>3, <2>5 DEF Leads
  <2> QED
    BY <2>2, <2>4, <2>6 DEF Answers
<1>11. CASE ~Resolved(c.st, c.name) /\ c.name \notin c.stack
  <2> DEFINE M == {k \in Nat : k <= n => Halfway(depends, c, g[k], k)}
  <2>1. 0 \in M
    <3>1. Keeps(c.st, c.st)
      BY DEF Keeps
    <3>2. \A x \in c.stack \union {c.name} : ~Resolved(c.st, x)
      BY <1>11 DEF Asks
    <3>3. Halfway(depends, c, c.st, 0)
      BY <1>8, <3>1, <3>2 DEF Halfway
    <3> QED
      BY <1>6, <3>3
  <2>2. ASSUME NEW k \in M PROVE k + 1 \in M
    <3> SUFFICES ASSUME k + 1 <= n PROVE Halfway(depends, c, g[k + 1], k + 1)
      OBVIOUS
    <3>1. k \in Nat /\ k + 1 \in 1..n /\ (k + 1) - 1 = k /\ k \in 0..n /\ k <= n
      BY <1>7
    <3>2. PICK e : e = Deeper(c, q[k + 1], g[k])
      OBVIOUS
    <3>3. g[k + 1] = f[e]
      BY <1>6, <3>1, <3>2
    <3>4. q[k + 1] \in Name /\ g[k] \in State
      BY <1>6, <1>7, <3>1
    <3>5. Asks(depends, e) => Answers(depends, e, f[e])
      BY <1>11, <3>2, <3>4
    <3>6. Halfway(depends, c, g[k], k)
      BY <3>1
    <3>7. PICK st : st = g[k]
      OBVIOUS
    <3>8. Halfway(depends, c, f[e], k + 1)
      BY <3>1, <3>2, <3>4, <3>5, <3>6, <3>7, OneDependency
    <3> QED
      BY <3>3, <3>8
  <2>3. M \in SUBSET Nat /\ \A k \in M : k + 1 \in M
    BY <2>2
  <2> HIDE DEF M
  <2>4. n \in M
    BY <1>7, <2>1, <2>3, Successors
  <2>5. Halfway(depends, c, g[n], n)
    BY <1>7, <2>4 DEF M
  <2>6. PICK t : t = g[n]
    OBVIOUS
  <2>7. t \in State /\ t.resolved \in Seq(Name) /\ t.outcome \in {"ok", "cycle"}
    BY <1>6, <1>7, <2>6 DEF State
  <2>8. CASE t.outcome = "cycle"
    <3>1. f[c] = t
      BY <1>3, <1>5, <1>8, <1>11, <2>6, <2>8 DEF VisitBy
    <3> QED
      BY <2>5, <2>6, <2>8, <3>1 DEF Answers, Halfway
  <2>9. CASE t.outcome = "ok"
    <3>1. f[c] = [t EXCEPT !.resolved = Append(@, c.name)]
      BY <1>3, <1>5, <1>8, <1>11, <2>6, <2>9 DEF VisitBy
    <3>2. f[c].outcome = "ok" /\ f[c].resolved = Append(t.resolved, c.name)
      BY <2>7, <2>9, <3>1 DEF State
    <3>3. /\ Ordered(depends, t.resolved) /\ Keeps(c.st, t)
          /\ (\A i \in 1..n : Resolved(t, q[i]))
          /\ \A x \in c.stack \union {c.name} : ~Resolved(t, x)
      BY <2>5, <2>6, <2>9 DEF Halfway
    <3>4. ASSUME NEW b \in Name, <<c.name, b>> \in Edges(depends)
          PROVE  Contains(t.resolved, b)
      <4>1. PICK i \in 1..n : b = q[i]
        BY <1>1, <3>4, EdgeFacts
      <4> QED
        BY <3>3, <4>1 DEF Resolved
    <3>5. PICK r : r = t.resolved
      OBVIOUS
    <3>6. /\ Ordered(depends, Append(r, c.name))
          /\ \A x : Contains(Append(r, c.name), x) <=> Contains(r, x) \/ x = c.name
      <4>1. Ordered(depends, r) /\ ~Contains(r, c.name)
        BY <3>3, <3>5 DEF Resolved
      <4> QED
        BY <1>1, <3>4, <3>5, <4>1, AppendOrdered
    <3>7. \A x : Resolved(f[c], x) <=> Resolved(t, x) \/ x = c.name
      BY <3>2, <3>5, <3>6 DEF Resolved
    <3>8. Keeps(c.st, f[c])
      BY <3>3, <3>7 DEF Keeps
    <3>9. \A x \in c.stack : ~Resolved(f[c], x)
      BY <1>11, <3>3, <3>7
    <3> QED
      BY <3>2, <3>5, <3>6, <3>7, <3>8, <3>9 DEF Answers
  <2> QED
    BY <2>7, <2>8, <2>9
<1> QED
  BY <1>9, <1>10, <1>11

\* Every call that is made answers what it should.
LEMMA EveryCall ==
  ASSUME NEW depends, Manifest(depends), NEW f, IsResolve(depends, f)
  PROVE  \A c \in Call : Asks(depends, c) => Answers(depends, c, f[c])
<1> DEFINE M == {k \in Nat : \A c \in Call :
                   Rank(c) < k /\ Asks(depends, c) => Answers(depends, c, f[c])}
<1>1. \A c \in Call : Rank(c) \in Nat /\ Rank(c) < Features + 2
  BY RankFacts, FeaturesAssumption
<1>2. 0 \in M
  BY <1>1
<1>3. ASSUME NEW k \in M PROVE k + 1 \in M
  <2> SUFFICES ASSUME NEW c \in Call, Rank(c) < k + 1, Asks(depends, c)
               PROVE  Answers(depends, c, f[c])
    OBVIOUS
  <2>1. ASSUME c.name \notin c.stack, NEW d \in Name, NEW st \in State,
               Asks(depends, Deeper(c, d, st))
        PROVE  Answers(depends, Deeper(c, d, st), f[Deeper(c, d, st)])
    <3>1. PICK e : e = Deeper(c, d, st)
      OBVIOUS
    <3>2. e \in Call /\ Rank(e) < Rank(c)
      BY <2>1, <3>1, DeeperIsCall, RankFacts
    <3>3. Rank(e) < k
      BY <1>1, <3>2
    <3> QED
      BY <2>1, <3>1, <3>2, <3>3
  <2> QED
    BY <2>1, OneCall
<1>4. M \in SUBSET Nat /\ \A k \in M : k + 1 \in M
  BY <1>3
<1> HIDE DEF M
<1>5. Features + 2 \in M
  BY <1>2, <1>4, Successors, FeaturesAssumption
<1> QED
  BY <1>1, <1>5 DEF M

\* A call from outside.
LEMMA ResolveAnswers ==
  ASSUME NEW depends, Manifest(depends), NEW a \in Name, NEW st \in State
  PROVE  /\ Resolve(depends, a, st) \in State
         /\ st.outcome = "cycle" => Resolve(depends, a, st) = st
         /\ st.outcome = "ok" /\ Ordered(depends, st.resolved) =>
              Answers(depends, CallOf(a, {}, st), Resolve(depends, a, st))
<1> DEFINE f == CHOOSE h : IsResolve(depends, h)
           c == CallOf(a, {}, st)
<1>1. Resolve(depends, a, st) = f[c]
  BY DEF Resolve, IsResolve
<1>2. IsResolve(depends, f)
  BY ResolveExists
<1>3. c \in Call /\ c.st = st /\ c.stack = {}
  BY DEF CallOf, Call
<1> HIDE DEF f, c
<1>4. f[c] \in State
  BY <1>2, <1>3, ResolveReturns
<1>5. ASSUME st.outcome = "cycle" PROVE f[c] = st
  BY <1>2, <1>3, <1>5, CycleStays
<1>6. ASSUME st.outcome = "ok", Ordered(depends, st.resolved)
      PROVE  Answers(depends, c, f[c])
  <2>1. Asks(depends, c)
    BY <1>3, <1>6 DEF Asks
  <2> QED
    BY <1>2, <1>3, <2>1, EveryCall
<1> QED
  BY <1>1, <1>4, <1>5, <1>6 DEF c

-----------------------------------------------------------------------------
(* The series. *)

TakeActive(depends, st, a) == IF a \in DOMAIN depends THEN Resolve(depends, a, st) ELSE st
Nothing == [resolved |-> <<>>, outcome |-> "ok"]

\* ResolveActive() takes the active features one by one.
LEMMA ActiveSteps ==
  ASSUME NEW depends, Manifest(depends), NEW active \in Seq(Name)
  PROVE  \E g : /\ g \in [0..Len(active) -> State] /\ g[0] = Nothing
                /\ g[Len(active)] = ResolveActive(depends, active)
                /\ \A k \in 1..Len(active) : g[k] = TakeActive(depends, g[k - 1], active[k])
<1> DEFINE n == Len(active)
           T == [i \in 1..n |-> [st \in State |-> TakeActive(depends, st, active[i])]]
           Step(h, s) == IF s = {} THEN Nothing
                         ELSE TakeActive(depends, h[s \ {Max(s)}], active[Max(s)])
           Solves(h) == h = [s \in SUBSET (1..n) |-> Step(h, s)]
           iter == CHOOSE h : Solves(h)
<1>1. n \in Nat /\ DOMAIN active = 1..n /\ \A i \in 1..n : active[i] \in Name
  BY LenProperties, ElementOfSeq
<1>2. ResolveActive(depends, active) = iter[1..n]
  BY <1>1 DEF ResolveActive, TakeActive, Nothing, FoldLeft, MapThenFoldSet
<1>3. ASSUME NEW st \in State, NEW a \in Name PROVE TakeActive(depends, st, a) \in State
  BY ResolveAnswers DEF TakeActive
<1> HIDE DEF n
<1>4. T \in [1..n -> [State -> State]]
  BY <1>1, <1>3
<1>5. ASSUME NEW i \in 1..n, NEW st \in State
      PROVE  T[i][st] = TakeActive(depends, st, active[i])
  OBVIOUS
<1> HIDE DEF T
<1>6. Nothing \in State
  <2>1. <<>> \in Seq(Name)
    OBVIOUS
  <2> QED
    BY <2>1 DEF Nothing, State
<1>7. PICK h : Iterates(h, State, Nothing, n, T)
  BY <1>1, <1>4, <1>6, IterationExists
<1>8. Solves(h)
  <2>1. ASSUME NEW s \in SUBSET (1..n) PROVE h[s] = Step(h, s)
    <3>1. CASE s = {}
      BY <1>7, <3>1 DEF Iterates
    <3>2. CASE s # {}
      <4>1. Max(s) \in 1..n /\ s \ {Max(s)} \in SUBSET (1..n)
        BY <1>1, <3>2, GreatestPosition
      <4>2. h[s \ {Max(s)}] \in State /\ h[s] = T[Max(s)][h[s \ {Max(s)}]]
        BY <1>7, <3>2, <4>1 DEF Iterates
      <4> QED
        BY <1>5, <3>2, <4>1, <4>2
    <3> QED
      BY <3>1, <3>2
  <2>2. h = [s \in SUBSET (1..n) |-> h[s]]
    BY <1>7 DEF Iterates
  <2> HIDE DEF Step
  <2> QED
    BY <2>1, <2>2
<1>9. Solves(iter)
  <2> HIDE DEF Solves
  <2> QED
    BY <1>8
<1> HIDE DEF iter
<1>10. Follows(iter, State, Nothing, n, T)
  <2>1. iter[{}] = Nothing
    BY <1>9
  <2>2. ASSUME NEW s \in SUBSET (1..n), s # {}, iter[s \ {Max(s)}] \in State
        PROVE  iter[s] = T[Max(s)][iter[s \ {Max(s)}]]
    <3>1. Max(s) \in 1..n
      BY <1>1, <2>2, GreatestPosition
    <3> QED
      BY <1>5, <1>9, <2>2, <3>1
  <2> QED
    BY <2>1, <2>2 DEF Follows
<1>11. PICK g : Reaches(g, State, Nothing, n, T, iter[1..n])
  BY <1>1, <1>4, <1>6, <1>10, FoldSteps
<1>12. ASSUME NEW k \in 1..n PROVE g[k] = TakeActive(depends, g[k - 1], active[k])
  <2>1. k - 1 \in 0..n
    BY <1>1
  <2>2. g[k - 1] \in State /\ g[k] = T[k][g[k - 1]]
    BY <1>11, <2>1 DEF Reaches
  <2> QED
    BY <1>5, <2>2
<1>13. g \in [0..n -> State] /\ g[0] = Nothing /\ g[n] = iter[1..n]
  BY <1>11 DEF Reaches
<1> QED
  BY <1>2, <1>12, <1>13 DEF n

\* After the first k active features.
Taken(depends, active, st, k) ==
  /\ st.outcome = "cycle" => Leads(depends, ToSet(active))
  /\ st.outcome = "ok" =>
       /\ Ordered(depends, st.resolved)
       /\ \A i \in 1..k : active[i] \in DOMAIN depends => Resolved(st, active[i])

LEMMA OneTaken ==
  ASSUME NEW depends, Manifest(depends), NEW active \in Seq(Name), NEW k \in Nat,
         k + 1 \in 1..Len(active), NEW st \in State, Taken(depends, active, st, k)
  PROVE  Taken(depends, active, TakeActive(depends, st, active[k + 1]), k + 1)
<1>1. /\ Len(active) \in Nat /\ DOMAIN active = 1..Len(active)
      /\ \A i \in 1..Len(active) : active[i] \in Name
  BY LenProperties, ElementOfSeq
<1>2. \A i \in 1..(k + 1) : i \in 1..k \/ i = k + 1
  OBVIOUS
<1>3. PICK a : a = active[k + 1]
  OBVIOUS
<1>4. a \in Name /\ a \in ToSet(active) /\ ToSet(active) \in SUBSET Name
  BY <1>1, <1>3 DEF ToSet
<1>5. PICK t : t = TakeActive(depends, st, a)
  OBVIOUS
<1>6. CASE a \notin DOMAIN depends
  <2>1. t = st
    BY <1>5, <1>6 DEF TakeActive
  <2> QED
    BY <1>2, <1>3, <1>5, <1>6, <2>1 DEF Taken
<1>7. CASE a \in DOMAIN depends
  <2>1. t = Resolve(depends, a, st) /\ t \in State
    BY <1>4, <1>5, <1>7, ResolveAnswers DEF TakeActive
  <2>2. CASE st.outcome = "cycle"
    <3>1. t = st
      BY <1>4, <2>1, <2>2, ResolveAnswers
    <3> QED
      BY <1>3, <1>5, <2>2, <3>1 DEF Taken
  <2>3. CASE st.outcome = "ok"
    <3>1. PICK c : c = CallOf(a, {}, st)
      OBVIOUS
    <3>2. Answers(depends, c, t) /\ c.name = a /\ c.st = st
      BY <1>4, <2>1, <2>3, <3>1, ResolveAnswers DEF Taken, CallOf
    <3>3. ASSUME t.outcome = "cycle" PROVE Leads(depends, ToSet(active))
      <4>1. PICK A, S : A = {a} /\ S = ToSet(active)
        OBVIOUS
      <4>2. A \in SUBSET Name /\ S \in SUBSET Name /\ A \subseteq S
        BY <1>4, <4>1
      <4>3. Reachable(depends, A) \subseteq Reachable(depends, S)
        BY <4>2, ReachFacts
      <4>4. Leads(depends, A)
        BY <3>2, <3>3, <4>1 DEF Answers
      <4> QED
        BY <4>1, <4>3, <4>4 DEF Leads
    <3>4. ASSUME t.outcome = "ok"
          PROVE  /\ Ordered(depends, t.resolved)
                 /\ \A i \in 1..(k + 1) : active[i] \in DOMAIN depends => Resolved(t, active[i])
      <4>1. Ordered(depends, t.resolved) /\ Resolved(t, a) /\ Keeps(st, t)
        BY <3>2, <3>4 DEF Answers
      <4>2. \A i \in 1..k : active[i] \in DOMAIN depends => Resolved(st, active[i])
        BY <2>3 DEF Taken
      <4>3. \A i \in 1..k : active[i] \in Name
        BY <1>1
      <4> QED
        BY <1>2, <1>3, <4>1, <4>2, <4>3 DEF Keeps
    <3> QED
      BY <1>3, <1>5, <3>3, <3>4 DEF Taken
  <2>4. st.outcome \in {"ok", "cycle"}
    BY DEF State
  <2> QED
    BY <2>2, <2>3, <2>4
<1> QED
  BY <1>6, <1>7

\* What is resolved after all of them.
LEMMA ActiveResolved ==
  ASSUME NEW depends, Manifest(depends), NEW active \in Seq(Name)
  PROVE  /\ ResolveActive(depends, active) \in State
         /\ Taken(depends, active, ResolveActive(depends, active), Len(active))
<1> DEFINE n == Len(active)
<1>1. n \in Nat
  BY LenProperties
<1>2. PICK g : /\ g \in [0..n -> State] /\ g[0] = Nothing
               /\ g[n] = ResolveActive(depends, active)
               /\ \A k \in 1..n : g[k] = TakeActive(depends, g[k - 1], active[k])
  BY ActiveSteps
<1> DEFINE M == {k \in Nat : k <= n => Taken(depends, active, g[k], k)}
<1> HIDE DEF n
<1>3. 0 \in M
  <2>1. Ordered(depends, <<>>)
    BY DEF Ordered, IsInjective
  <2>2. Taken(depends, active, Nothing, 0)
    BY <2>1 DEF Taken, Nothing
  <2> QED
    BY <1>2, <2>2
<1>4. ASSUME NEW k \in M PROVE k + 1 \in M
  <2> SUFFICES ASSUME k + 1 <= n PROVE Taken(depends, active, g[k + 1], k + 1)
    OBVIOUS
  <2>1. k \in Nat /\ k + 1 \in 1..n /\ (k + 1) - 1 = k /\ k \in 0..n /\ k <= n
    BY <1>1
  <2>2. PICK st : st = g[k]
    OBVIOUS
  <2>3. st \in State /\ Taken(depends, active, st, k)
    BY <1>2, <2>1, <2>2
  <2>4. g[k + 1] = TakeActive(depends, st, active[k + 1])
    BY <1>2, <2>1, <2>2
  <2> QED
    BY <2>1, <2>3, <2>4, OneTaken DEF n
<1>5. M \in SUBSET Nat /\ \A k \in M : k + 1 \in M
  BY <1>4
<1> HIDE DEF M
<1>6. n \in M
  BY <1>1, <1>3, <1>5, Successors
<1>7. Taken(depends, active, g[n], n) /\ g[n] \in State
  BY <1>1, <1>2, <1>6 DEF M
<1> QED
  BY <1>2, <1>7 DEF n

TakeOther(r, f) == IF Contains(r, f) THEN r ELSE Append(r, f)

\* WithOthers() takes the features one by one.
LEMMA OtherSteps ==
  ASSUME NEW r \in Seq(Name)
  PROVE  \E g : /\ g \in [0..Features -> Seq(Name)] /\ g[0] = r
                /\ g[Features] = WithOthers(r)
                /\ \A k \in Feature : g[k] = TakeOther(g[k - 1], k)
<1> DEFINE n == Features
           q == [f \in Feature |-> f]
           T == [i \in 1..n |-> [x \in Seq(Name) |-> TakeOther(x, i)]]
           Step(h, s) == IF s = {} THEN r ELSE TakeOther(h[s \ {Max(s)}], q[Max(s)])
           Solves(h) == h = [s \in SUBSET (1..n) |-> Step(h, s)]
           iter == CHOOSE h : Solves(h)
<1>1. n \in Nat /\ DOMAIN q = 1..n /\ (\A i \in 1..n : q[i] = i /\ i \in Name) /\ Feature = 1..n
  BY FeaturesAssumption DEF Feature, Name
<1>2. WithOthers(r) = iter[1..n]
  BY <1>1 DEF WithOthers, TakeOther, FoldLeft, MapThenFoldSet
<1> HIDE DEF n, q
<1>3. PICK V : V = Seq(Name)
  OBVIOUS
<1>4. T \in [1..n -> [V -> V]] /\ r \in V
  <2>1. ASSUME NEW x \in Seq(Name), NEW a \in Name PROVE TakeOther(x, a) \in Seq(Name)
    BY AppendProperties DEF TakeOther
  <2> QED
    BY <1>1, <1>3, <2>1
<1>5. ASSUME NEW i \in 1..n, NEW x \in V PROVE T[i][x] = TakeOther(x, i)
  BY <1>3
<1> HIDE DEF T
<1>6. PICK h : Iterates(h, V, r, n, T)
  BY <1>1, <1>4, IterationExists
<1>7. Solves(h)
  <2>1. ASSUME NEW s \in SUBSET (1..n) PROVE h[s] = Step(h, s)
    <3>1. CASE s = {}
      BY <1>6, <3>1 DEF Iterates
    <3>2. CASE s # {}
      <4>1. Max(s) \in 1..n /\ s \ {Max(s)} \in SUBSET (1..n)
        BY <1>1, <3>2, GreatestPosition
      <4>2. h[s \ {Max(s)}] \in V /\ h[s] = T[Max(s)][h[s \ {Max(s)}]]
        BY <1>6, <3>2, <4>1 DEF Iterates
      <4> QED
        BY <1>1, <1>5, <3>2, <4>1, <4>2
    <3> QED
      BY <3>1, <3>2
  <2>2. h = [s \in SUBSET (1..n) |-> h[s]]
    BY <1>6 DEF Iterates
  <2> HIDE DEF Step
  <2> QED
    BY <2>1, <2>2
<1>8. Solves(iter)
  <2> HIDE DEF Solves
  <2> QED
    BY <1>7
<1> HIDE DEF iter
<1>9. Follows(iter, V, r, n, T)
  <2>1. iter[{}] = r
    BY <1>8
  <2>2. ASSUME NEW s \in SUBSET (1..n), s # {}, iter[s \ {Max(s)}] \in V
        PROVE  iter[s] = T[Max(s)][iter[s \ {Max(s)}]]
    <3>1. Max(s) \in 1..n
      BY <1>1, <2>2, GreatestPosition
    <3>2. iter[s] = TakeOther(iter[s \ {Max(s)}], q[Max(s)])
      BY <1>8, <2>2
    <3>3. q[Max(s)] = Max(s)
      BY <1>1, <3>1
    <3> QED
      BY <1>5, <2>2, <3>1, <3>2, <3>3
  <2> QED
    BY <2>1, <2>2 DEF Follows
<1>10. PICK g : Reaches(g, V, r, n, T, iter[1..n])
  BY <1>1, <1>4, <1>9, FoldSteps
<1>11. ASSUME NEW k \in 1..n PROVE g[k] = TakeOther(g[k - 1], k)
  <2>1. k - 1 \in 0..n
    BY <1>1
  <2>2. g[k - 1] \in V /\ g[k] = T[k][g[k - 1]]
    BY <1>10, <2>1 DEF Reaches
  <2> QED
    BY <1>5, <2>2
<1>12. g \in [0..n -> V] /\ g[0] = r /\ g[n] = iter[1..n]
  BY <1>10 DEF Reaches
<1> QED
  BY <1>1, <1>2, <1>3, <1>11, <1>12 DEF n

\* One feature more or not, behind the others, and each once.
Begins(r, s) ==
  s \in Seq(Name) /\ IsInjective(s) /\ Len(r) <= Len(s) /\ \A i \in 1..Len(r) : s[i] = r[i]

LEMMA OneOther ==
  ASSUME NEW r \in Seq(Name), NEW s, Begins(r, s), NEW f \in Name
  PROVE  /\ Begins(r, TakeOther(s, f)) /\ Contains(TakeOther(s, f), f)
         /\ \A x : Contains(s, x) => Contains(TakeOther(s, f), x)
<1>1. CASE Contains(s, f)
  BY <1>1 DEF TakeOther
<1>2. CASE ~Contains(s, f)
  <2> DEFINE n == Len(s)
             t == Append(s, f)
             m == Len(r)
  <2>1. n \in Nat /\ m \in Nat /\ m <= n /\ s \in Seq(Name) /\ DOMAIN s = 1..n
    BY LenProperties DEF Begins
  <2>2. t \in Seq(Name) /\ Len(t) = n + 1 /\ t[n + 1] = f /\ \A i \in 1..n : t[i] = s[i]
    BY <2>1, AppendProperties
  <2>3. DOMAIN t = 1..(n + 1) /\ TakeOther(s, f) = t
    BY <1>2, <2>2, LenProperties DEF TakeOther
  <2>4. (\A i, j \in 1..n : s[i] = s[j] => i = j) /\ (\A i \in 1..n : s[i] # f)
        /\ \A i \in 1..m : s[i] = r[i]
    BY <1>2, <2>1 DEF Begins, IsInjective, Contains
  <2>5. \A x : (Contains(s, x) <=> \E i \in 1..n : s[i] = x)
               /\ (Contains(t, x) <=> \E i \in 1..(n + 1) : t[i] = x)
    BY <2>2 DEF Contains
  <2> HIDE DEF n, m, t
  <2>6. \A i \in 1..(n + 1) : i \in 1..n \/ i = n + 1
    BY <2>1
  <2>7. n + 1 \in 1..(n + 1) /\ 1..n \subseteq 1..(n + 1) /\ 1..m \subseteq 1..n /\ m <= n + 1
    BY <2>1
  <2>8. IsInjective(t)
    <3> SUFFICES ASSUME NEW i \in 1..(n + 1), NEW j \in 1..(n + 1), t[i] = t[j] PROVE i = j
      BY <2>3 DEF IsInjective
    <3> QED
      BY <2>2, <2>4, <2>6
  <2>9. Begins(r, t)
    BY <2>2, <2>4, <2>7, <2>8 DEF Begins, m
  <2>10. Contains(t, f) /\ \A x : Contains(s, x) => Contains(t, x)
    BY <2>2, <2>5, <2>7
  <2> QED
    BY <2>3, <2>9, <2>10
<1> QED
  BY <1>1, <1>2

\* The series of a manifest with depends starts with what is resolved and has every feature.
LEMMA OthersFollow ==
  ASSUME NEW r \in Seq(Name), IsInjective(r)
  PROVE  Begins(r, WithOthers(r)) /\ \A f \in Feature : Contains(WithOthers(r), f)
<1> DEFINE n == Features
<1>1. n \in Nat /\ Feature = 1..n /\ \A i \in 1..n : i \in Name
  BY FeaturesAssumption DEF Feature, Name
<1>2. PICK g : /\ g[0] = r /\ g[n] = WithOthers(r)
               /\ \A k \in Feature : g[k] = TakeOther(g[k - 1], k)
  BY OtherSteps
<1> DEFINE M == {k \in Nat : k <= n => Begins(r, g[k]) /\ \A f \in 1..k : Contains(g[k], f)}
<1> HIDE DEF n
<1>3. 0 \in M
  <2>1. Begins(r, r)
    <3>1. Len(r) \in Nat
      BY LenProperties
    <3> QED
      BY <3>1 DEF Begins
  <2> QED
    BY <1>2, <2>1
<1>4. ASSUME NEW k \in M PROVE k + 1 \in M
  <2> SUFFICES ASSUME k + 1 <= n
               PROVE  Begins(r, g[k + 1]) /\ \A f \in 1..(k + 1) : Contains(g[k + 1], f)
    OBVIOUS
  <2>1. k + 1 \in 1..n /\ (k + 1) - 1 = k /\ k <= n
    BY <1>1
  <2>2. PICK s : s = g[k]
    OBVIOUS
  <2>3. Begins(r, s) /\ \A f \in 1..k : Contains(s, f)
    BY <2>1, <2>2
  <2>4. g[k + 1] = TakeOther(s, k + 1)
    BY <1>1, <1>2, <2>1, <2>2
  <2>5. k + 1 \in Name
    BY <1>1, <2>1
  <2>6. /\ Begins(r, TakeOther(s, k + 1)) /\ Contains(TakeOther(s, k + 1), k + 1)
        /\ \A x : Contains(s, x) => Contains(TakeOther(s, k + 1), x)
    BY <2>3, <2>5, OneOther
  <2>7. \A f \in 1..(k + 1) : f \in 1..k \/ f = k + 1
    OBVIOUS
  <2> QED
    BY <2>3, <2>4, <2>6, <2>7
<1>5. M \in SUBSET Nat /\ \A k \in M : k + 1 \in M
  BY <1>4
<1> HIDE DEF M
<1>6. n \in M
  BY <1>1, <1>3, <1>5, Successors
<1> QED
  BY <1>1, <1>2, <1>6 DEF M

\* What is active are names.
LEMMA ActiveNames ==
  ASSUME NEW request \in Seq(Name)
  PROVE  /\ Active(request) \in Seq(Name) /\ ToSet(Active(request)) \in SUBSET Name
         /\ \A a : a \in ToSet(Active(request)) <=> Contains(Active(request), a)
         /\ ~Contains(request, 0) => 0 \notin ToSet(Active(request))
<1>1. [f \in Feature |-> f] \in Seq(Name)
  BY FeaturesAssumption DEF Feature, Name
<1>2. Active(request) \in Seq(Name)
  BY <1>1 DEF Active
<1>3. PICK s : s = Active(request)
  OBVIOUS
<1>4. DOMAIN s = 1..Len(s) /\ \A i \in 1..Len(s) : s[i] \in Name
  BY <1>2, <1>3, LenProperties, ElementOfSeq
<1>5. ToSet(s) \in SUBSET Name /\ \A a : a \in ToSet(s) <=> Contains(s, a)
  BY <1>4 DEF ToSet, Contains
<1>6. ASSUME ~Contains(request, 0) PROVE 0 \notin ToSet(s)
  <2>1. CASE request = <<>>
    <3>1. s = [f \in Feature |-> f]
      BY <1>3, <2>1 DEF Active
    <3> QED
      BY <3>1, FeaturesAssumption DEF ToSet, Feature
  <2>2. CASE request # <<>>
    BY <1>3, <1>5, <1>6, <2>2 DEF Active
  <2> QED
    BY <2>1, <2>2
<1> QED
  BY <1>2, <1>3, <1>5, <1>6

\* A name without dependencies is on no cycle.
LEMMA NoEdges ==
  ASSUME NEW depends, Manifest(depends), NEW a \in Name, a \notin DOMAIN depends
  PROVE  ~OnCycle(depends, a) /\ \A b : <<a, b>> \notin Edges(depends)
<1>1. Deps(depends, a) = <<>>
  BY DEF Deps
<1>2. \A b : <<a, b>> \notin Edges(depends)
  BY <1>1, EdgeFacts
<1>3. After(depends, a) = {}
  BY <1>2 DEF After
<1>4. PICK E : E = {}
  OBVIOUS
<1>5. E \in SUBSET Name /\ Closed(depends, E)
  BY <1>4 DEF Closed
<1>6. Reachable(depends, E) \subseteq E
  BY <1>5, ReachFacts
<1> QED
  BY <1>2, <1>3, <1>4, <1>6 DEF OnCycle

\* Where a name comes in a series that has it once.
LEMMA ComesAt ==
  ASSUME NEW s, s \in Seq(Name), IsInjective(s), NEW i \in 1..Len(s)
  PROVE  Comes(s, s[i]) = i
<1>1. DOMAIN s = 1..Len(s)
  BY LenProperties
<1>2. \A j \in DOMAIN s : s[j] = s[i] => j = i
  BY <1>1 DEF IsInjective
<1> QED
  BY <1>1, <1>2 DEF Comes

\* With depends, when no cycle is found: what is needed and has dependencies is resolved,
\* and nothing that is needed is on a cycle.
LEMMA NeededResolved ==
  ASSUME NEW depends, Manifest(depends), NEW active \in Seq(Name), NEW st \in State,
         st.outcome = "ok", Taken(depends, active, st, Len(active)),
         NEW a \in Reachable(depends, ToSet(active))
  PROVE  ~OnCycle(depends, a) /\ (a \in DOMAIN depends => Resolved(st, a))
<1> DEFINE S == ToSet(active)
           T == {x \in Name : Resolved(st, x) \/ x \in S \ DOMAIN depends}
<1>1. DOMAIN active = 1..Len(active) /\ \A i \in 1..Len(active) : active[i] \in Name
  BY LenProperties, ElementOfSeq
<1>2. S \in SUBSET Name /\ S \subseteq T
  <2>1. \A i \in 1..Len(active) : active[i] \in DOMAIN depends => Resolved(st, active[i])
    BY DEF Taken
  <2> QED
    BY <1>1, <2>1 DEF ToSet
<1>3. PICK r : r = st.resolved
  OBVIOUS
<1>4. /\ Ordered(depends, r) /\ Len(r) \in Nat /\ (\A i \in 1..Len(r) : r[i] \in Name)
      /\ \A x : Resolved(st, x) <=> \E i \in 1..Len(r) : r[i] = x
  <2>1. Ordered(depends, r) /\ r \in Seq(Name)
    BY <1>3 DEF Taken, Ordered
  <2>2. Len(r) \in Nat /\ \A i \in 1..Len(r) : r[i] \in Name
    BY <2>1, LenProperties, ElementOfSeq
  <2> QED
    BY <1>3, <2>1, <2>2 DEF Resolved, Contains
<1>5. ASSUME NEW e \in Edges(depends), e[1] \in T PROVE e[2] \in T
  <2>1. e[1] \in Name /\ e[2] \in Name /\ e = <<e[1], e[2]>>
    BY DEF Edges
  <2>2. e[1] \in DOMAIN depends
    BY <2>1, NoEdges
  <2>3. PICK i \in 1..Len(r) : r[i] = e[1]
    BY <1>4, <1>5, <2>2
  <2>4. PICK j \in 1..(i - 1) : r[j] = e[2]
    BY <1>4, <2>1, <2>3 DEF Ordered
  <2>5. j \in 1..Len(r)
    BY <1>4
  <2> QED
    BY <1>4, <2>1, <2>4, <2>5
<1>6. T \in SUBSET Name
  OBVIOUS
<1>7. PICK U : U = S
  OBVIOUS
<1> HIDE DEF T
<1>8. Closed(depends, T)
  BY <1>5 DEF Closed
<1>9. a \in T
  BY <1>2, <1>6, <1>7, <1>8, ReachFacts
<1>10. a \in DOMAIN depends => Resolved(st, a)
  BY <1>9 DEF T
<1>11. a \in Name
  BY <1>6, <1>9
<1>12. CASE Resolved(st, a)
  <2>1. PICK i \in 1..Len(r) : r[i] = a
    BY <1>4, <1>12
  <2> QED
    BY <1>4, <1>10, <2>1, OrderedAcyclic
<1>13. CASE a \notin DOMAIN depends
  BY <1>11, <1>13, NoEdges
<1> QED
  BY <1>10, <1>12, <1>13

\* The series is what it should be when the manifest has depends.
LEMMA SeriesWithDepends ==
  ASSUME NEW depends, Manifest(depends), NEW request \in Seq(Name), NEW conflicts,
         DOMAIN depends # {}
  PROVE  InOrder(depends, conflicts, request)
<1> DEFINE S == ToSet(Active(request))
<1>1. PICK active : active = Active(request)
  OBVIOUS
<1>2. active \in Seq(Name) /\ S = ToSet(active) /\ S \in SUBSET Name
  BY <1>1, ActiveNames
<1>3. PICK st : st = ResolveActive(depends, active)
  OBVIOUS
<1>4. st \in State /\ Taken(depends, active, st, Len(active))
  BY <1>2, <1>3, ActiveResolved
<1>5. PICK needed : needed = Reachable(depends, S)
  OBVIOUS
<1>6. needed \in SUBSET Name
  <2>1. PICK U : U = S
    OBVIOUS
  <2> QED
    BY <1>2, <1>5, <2>1, ReachFacts
<1>7. PICK s : s = Series(depends, conflicts, request)
  OBVIOUS
<1>8. CASE st.outcome = "cycle"
  <2>1. s = <<"cycle", <<>>>>
    BY <1>1, <1>3, <1>7, <1>8 DEF Series, WithDepends
  <2>2. s[1] = "cycle"
    BY <2>1
  <2>3. \E a \in needed : OnCycle(depends, a)
    BY <1>2, <1>4, <1>5, <1>8 DEF Taken, Leads
  <2> QED
    BY <1>5, <1>7, <2>2, <2>3 DEF InOrder
<1>9. CASE st.outcome = "ok"
  <2>1. PICK r : r = st.resolved
    OBVIOUS
  <2>2. PICK series : series = WithOthers(r)
    OBVIOUS
  <2>3. \/ s = <<"ok", series>> /\ ~Conflict(conflicts, series)
        \/ s = <<"conflict", <<>>>>
    BY <1>1, <1>3, <1>7, <1>9, <2>1, <2>2 DEF Series, WithDepends
  <2>4. \A a \in needed : ~OnCycle(depends, a) /\ (a \in DOMAIN depends => Resolved(st, a))
    BY <1>2, <1>4, <1>5, <1>9, NeededResolved
  <2>5. s[1] # "cycle"
    BY <2>3
  <2>6. ASSUME s[1] = "ok"
        PROVE  /\ IsInjective(s[2])
               /\ needed \subseteq ToSet(s[2]) \union {0}
               /\ \A a \in needed \intersect ToSet(s[2]), b \in ToSet(s[2]) :
                    <<a, b>> \in Edges(depends) => Comes(s[2], b) < Comes(s[2], a)
               /\ \A a, b \in ToSet(s[2]) : b \notin conflicts[a]
    <3>1. s[2] = series /\ ~Conflict(conflicts, series)
      BY <2>3, <2>6
    <3>2. Ordered(depends, r) /\ r \in Seq(Name) /\ IsInjective(r)
      BY <1>4, <1>9, <2>1 DEF Taken, Ordered
    <3>3. Begins(r, series) /\ \A f \in Feature : Contains(series, f)
      BY <2>2, <3>2, OthersFollow
    <3>4. series \in Seq(Name) /\ IsInjective(series)
      BY <3>3 DEF Begins
    <3>5. /\ DOMAIN series = 1..Len(series) /\ (\A i \in 1..Len(series) : series[i] \in Name)
          /\ Len(series) \in Nat /\ Len(r) \in Nat
      BY <3>2, <3>4, LenProperties, ElementOfSeq
    <3>6. \A a : a \in ToSet(series) <=> \E i \in 1..Len(series) : series[i] = a
      BY <3>5 DEF ToSet
    <3>7. Feature \subseteq ToSet(series) /\ ToSet(series) \subseteq Name
      BY <3>3, <3>5, <3>6 DEF Contains
    <3>8. Name = Feature \union {0} /\ 0 \notin Feature
      BY FeaturesAssumption DEF Name, Feature
    <3>9. ASSUME NEW a \in needed, NEW b, <<a, b>> \in Edges(depends)
          PROVE  Comes(series, b) < Comes(series, a)
      <4>1. a \in Name /\ a \in DOMAIN depends
        BY <1>6, <3>9, NoEdges
      <4>2. b \in Name
        BY <3>9 DEF Edges
      <4>3. PICK i \in 1..Len(r) : r[i] = a
        BY <2>1, <2>4, <4>1 DEF Resolved, Contains
      <4>4. PICK j \in 1..(i - 1) : r[j] = b
        BY <3>2, <3>9, <4>2, <4>3 DEF Ordered
      <4>5. Len(r) <= Len(series) /\ \A k \in 1..Len(r) : series[k] = r[k]
        BY <3>3 DEF Begins
      <4>6. PICK n, m : n = Len(r) /\ m = Len(series)
        OBVIOUS
      <4>7. /\ i \in 1..n /\ j \in 1..n /\ i \in 1..m /\ j \in 1..m /\ j < i
        BY <3>5, <4>5, <4>6
      <4>8. series[i] = a /\ series[j] = b
        BY <4>3, <4>4, <4>5, <4>6, <4>7
      <4>9. Comes(series, a) = i /\ Comes(series, b) = j
        BY <3>4, <4>6, <4>7, <4>8, ComesAt
      <4> QED
        BY <4>7, <4>9
    <3>10. \A a, b \in ToSet(series) : b \notin conflicts[a]
      BY <3>1, <3>5, <3>6 DEF Conflict
    <3> QED
      BY <1>6, <3>1, <3>4, <3>7, <3>8, <3>9, <3>10
  <2> QED
    BY <1>5, <1>7, <2>4, <2>5, <2>6 DEF InOrder
<1>10. st.outcome \in {"ok", "cycle"}
  BY <1>4 DEF State
<1> QED
  BY <1>8, <1>9, <1>10

\* And when it has not.
LEMMA SeriesWithoutDepends ==
  ASSUME NEW depends, Manifest(depends), NEW request \in Seq(Name), NEW conflicts,
         DOMAIN depends = {}
  PROVE  InOrder(depends, conflicts, request)
<1>1. PICK S : S = ToSet(Active(request))
  OBVIOUS
<1>2. S \in SUBSET Name /\ Active(request) \in Seq(Name)
  BY <1>1, ActiveNames
<1>3. PICK needed : needed = Reachable(depends, S)
  OBVIOUS
<1>4. \A a \in Name : ~OnCycle(depends, a) /\ \A b : <<a, b>> \notin Edges(depends)
  BY NoEdges
<1>5. needed = S
  <2>1. \A e \in Edges(depends) : FALSE
    <3>1. ASSUME NEW e \in Edges(depends) PROVE FALSE
      <4>1. e[1] \in Name /\ e = <<e[1], e[2]>>
        BY DEF Edges
      <4> QED
        BY <1>4, <4>1
    <3> QED
      BY <3>1
  <2>2. Closed(depends, S)
    BY <2>1 DEF Closed
  <2> QED
    BY <1>2, <1>3, <2>2, ReachFacts
<1>6. PICK s : s = Series(depends, conflicts, request)
  OBVIOUS
<1>7. PICK active : active = Active(request)
  OBVIOUS
<1>8. \/ s = <<"unknown", <<>>>>
      \/ s = <<"conflict", <<>>>>
      \/ s = <<"ok", active>> /\ ~Conflict(conflicts, active) /\ ~Contains(request, 0)
  BY <1>6, <1>7 DEF Series, WithoutDepends
<1>9. s[1] # "cycle"
  BY <1>8
<1>10. ASSUME s[1] = "ok"
       PROVE  /\ needed \subseteq ToSet(s[2]) \union {0}
              /\ ToSet(s[2]) = S
              /\ \A a, b \in ToSet(s[2]) : b \notin conflicts[a]
  <2>1. s[2] = active /\ ~Conflict(conflicts, active) /\ ~Contains(request, 0)
    BY <1>8, <1>10
  <2>2. DOMAIN active = 1..Len(active)
    BY <1>2, <1>7, LenProperties
  <2>3. \A a, b \in ToSet(active) : b \notin conflicts[a]
    BY <2>1 DEF Conflict, ToSet
  <2>4. 0 \notin S /\ ToSet(active) = S
    BY <1>1, <1>7, <2>1, ActiveNames
  <2> QED
    BY <1>5, <2>1, <2>3, <2>4
<1>11. needed \in SUBSET Name
  BY <1>2, <1>5
<1> QED
  BY <1>1, <1>3, <1>4, <1>6, <1>9, <1>10, <1>11 DEF InOrder

\* For every number of features, every manifest and every request: the series is refused
\* for a cycle exactly if a feature that is asked for leads into one; otherwise every
\* feature that is asked for comes behind all it depends on, directly or not, each feature
\* once, and no two of the series conflict.
THEOREM SeriesIsInOrder ==
  ASSUME NEW keys \in SUBSET Name, NEW depends \in [keys -> Seq(Name)],
         NEW request \in Seq(Name), NEW conflicts
  PROVE  InOrder(depends, conflicts, request)
<1>1. Manifest(depends)
  BY EmptySeq DEF Manifest, Deps
<1> QED
  BY <1>1, SeriesWithDepends, SeriesWithoutDepends

\* With depends, --features chooses nothing: whatever was asked for, a series that is
\* accepted holds every feature, and none is accepted if any two features conflict.  The
\* usage text says that only the given subset is applied (lines 11-12), and the message for
\* a conflict advises to choose with --features (line 138).
THEOREM EveryFeatureApplied ==
  ASSUME NEW keys \in SUBSET Name, keys # {}, NEW depends \in [keys -> Seq(Name)],
         NEW request \in Seq(Name), NEW conflicts, NEW s,
         s = Series(depends, conflicts, request), s[1] = "ok"
  PROVE  /\ Feature \subseteq ToSet(s[2])
         /\ \A a, b \in Feature : b \notin conflicts[a]
<1>1. Manifest(depends) /\ DOMAIN depends # {}
  BY EmptySeq DEF Manifest, Deps
<1>2. PICK active : active = Active(request)
  OBVIOUS
<1>3. PICK st : st = ResolveActive(depends, active)
  OBVIOUS
<1>4. st \in State /\ Taken(depends, active, st, Len(active))
  <2>1. active \in Seq(Name)
    BY <1>2, ActiveNames
  <2> QED
    BY <1>1, <1>3, <2>1, ActiveResolved
<1>5. PICK r : r = st.resolved
  OBVIOUS
<1>6. PICK series : series = WithOthers(r)
  OBVIOUS
<1>7. /\ st.outcome # "cycle"
      /\ s = <<"ok", series>> /\ ~Conflict(conflicts, series)
  <2>1. CASE st.outcome = "cycle"
    <3>1. s = <<"cycle", <<>>>>
      BY <1>1, <1>2, <1>3, <2>1 DEF Series, WithDepends
    <3> QED
      BY <3>1
  <2>2. CASE st.outcome # "cycle"
    <3>1. \/ s = <<"ok", series>> /\ ~Conflict(conflicts, series)
          \/ s = <<"conflict", <<>>>>
      BY <1>1, <1>2, <1>3, <1>5, <1>6, <2>2 DEF Series, WithDepends
    <3> QED
      BY <2>2, <3>1
  <2> QED
    BY <2>1, <2>2
<1>8. Ordered(depends, r) /\ r \in Seq(Name) /\ IsInjective(r)
  BY <1>4, <1>5, <1>7 DEF Taken, Ordered, State
<1>9. Begins(r, series) /\ \A f \in Feature : Contains(series, f)
  BY <1>6, <1>8, OthersFollow
<1>10. series \in Seq(Name)
  BY <1>9 DEF Begins
<1>11. DOMAIN series = 1..Len(series)
  BY <1>10, LenProperties
<1>12. \A f \in Feature : \E i \in DOMAIN series : series[i] = f
  BY <1>9, <1>11 DEF Contains
<1>13. Feature \subseteq ToSet(series)
  BY <1>12 DEF ToSet
<1>14. \A a, b \in Feature : b \notin conflicts[a]
  BY <1>7, <1>12 DEF Conflict
<1> QED
  BY <1>7, <1>13, <1>14

\* The manifests and requests that are chosen.
ManifestChosen ==
  kind = "features" => /\ \E keys \in SUBSET Name : input.depends \in [keys -> Seq(Name)]
                       /\ input.request \in Seq(Name)

\* In every run the series of the chosen manifests and requests are in order.
THEOREM SeriesAlwaysInOrder == Spec => []SeriesInOrder
<1>1. Init => ManifestChosen
  BY DEF Init, ManifestChosen
<1>2. ManifestChosen /\ [Next]_vars => ManifestChosen'
  <2> SUFFICES ASSUME ManifestChosen, [Next]_vars, kind' = "features"
               PROVE  /\ \E keys \in SUBSET Name : input'.depends \in [keys -> Seq(Name)]
                      /\ input'.request \in Seq(Name)
    BY DEF ManifestChosen
  <2>1. CASE ChooseFeatures
    <3>1. {0, 1, 2, 3} \subseteq Name /\ Feature \subseteq Name
      BY BoundsAssumption, FeaturesAssumption DEF Name, Feature
    <3>2. DependsTexts \subseteq Seq(Name)
      <4>1. \A a \in Name : <<a>> \in Seq(Name)
        OBVIOUS
      <4>2. \A a, b \in Name : <<a, b>> \in Seq(Name)
        OBVIOUS
      <4>3. <<2, 1>> \in Seq(Name) /\ <<1, 3>> \in Seq(Name) /\ <<2, 3>> \in Seq(Name)
        BY <3>1, <4>2
      <4> QED
        BY <4>1, <4>3, EmptySeq DEF DependsTexts
    <3>3. {<<>>, <<0>>, <<1>>, <<3>>, <<2, 1>>, <<1, 3>>, <<3, 0>>} \subseteq Seq(Name)
      <4>1. \A a \in Name : <<a>> \in Seq(Name)
        OBVIOUS
      <4>2. \A a, b \in Name : <<a, b>> \in Seq(Name)
        OBVIOUS
      <4>3. <<2, 1>> \in Seq(Name) /\ <<1, 3>> \in Seq(Name) /\ <<3, 0>> \in Seq(Name)
        BY <3>1, <4>2
      <4>4. <<0>> \in Seq(Name) /\ <<1>> \in Seq(Name) /\ <<3>> \in Seq(Name)
        BY <3>1, <4>1
      <4> QED
        BY <4>3, <4>4, EmptySeq
    <3>4. PICK keys \in SUBSET Feature : \E deps \in [keys -> DependsTexts],
               pair \in {<<1, 1>>, <<1, 2>>, <<3, 1>>},
               request \in {<<>>, <<0>>, <<1>>, <<3>>, <<2, 1>>, <<1, 3>>, <<3, 0>>} :
            input' = [depends |-> deps, request |-> request,
                      conflicts |-> [f \in Name |-> IF f = pair[1] THEN {pair[2]} \ {f}
                                                    ELSE {}]]
      BY <2>1, Zenon DEF ChooseFeatures
    <3>5. PICK deps \in [keys -> DependsTexts],
               pair \in {<<1, 1>>, <<1, 2>>, <<3, 1>>},
               request \in {<<>>, <<0>>, <<1>>, <<3>>, <<2, 1>>, <<1, 3>>, <<3, 0>>} :
            input' = [depends |-> deps, request |-> request,
                      conflicts |-> [f \in Name |-> IF f = pair[1] THEN {pair[2]} \ {f}
                                                    ELSE {}]]
      BY <3>4, Zenon
    <3>6. input'.depends = deps /\ input'.request = request
      BY <3>5
    <3>7. keys \in SUBSET Name /\ deps \in [keys -> Seq(Name)] /\ request \in Seq(Name)
      BY <3>1, <3>2, <3>3
    <3> QED
      BY <3>6, <3>7
  <2>2. CASE ~ ChooseFeatures
    BY <2>2 DEF Next, ChooseNumber, ChooseDigits, ChooseAddress, ManifestChosen, vars
  <2> QED
    BY <2>1, <2>2
<1>3. ManifestChosen => SeriesInOrder
  <2> SUFFICES ASSUME ManifestChosen, kind = "features"
               PROVE  InOrder(input.depends, input.conflicts, input.request)
    BY DEF SeriesInOrder
  <2>1. PICK keys \in SUBSET Name : input.depends \in [keys -> Seq(Name)]
    BY DEF ManifestChosen
  <2>2. PICK depends, conflicts, request :
          depends = input.depends /\ conflicts = input.conflicts /\ request = input.request
    OBVIOUS
  <2>3. depends \in [keys -> Seq(Name)] /\ request \in Seq(Name)
    BY <2>1, <2>2 DEF ManifestChosen
  <2>4. InOrder(depends, conflicts, request)
    BY <2>3, SeriesIsInOrder
  <2> QED
    BY <2>2, <2>4
<1> QED
  BY <1>1, <1>2, <1>3, PTL DEF Spec
=============================================================================

----------------------------- MODULE ReplyRuns -----------------------------
(***************************************************************************)
(* How the output buffers of a client lay out its reply, as lemmas about   *)
(* sequences that the proofs of the reply paths share.  Units are numbered *)
(* in the order of production, so what c->buf or a block holds is a run of *)
(* consecutive numbers, and each object continues where the one before it  *)
(* ends.                                                                   *)
(***************************************************************************)
EXTENDS Integers, Sequences, SequencesExt, SequenceTheorems, WellFoundedInduction, TLAPS

\* Units a + 1 to b.
Run(a, b) == [i \in 1..(b - a) |-> a + i]

\* The blocks r are runs, each behind the other: block i ends with unit e[i].
Chain(r, e) ==
  /\ r \in Seq(Seq(Nat)) /\ e \in [0..Len(r) -> Nat]
  /\ \A i, j \in 0..Len(r) : i < j => e[i] < e[j]
  /\ \A i \in 1..Len(r) : r[i] = Run(e[i - 1], e[i])

\* Buffer b and blocks r hold units a + 1 to top, of which b holds those up to m.
Split(b, r, a, m, top) ==
  /\ a \in Nat /\ m \in Nat /\ a <= m /\ b = Run(a, m)
  /\ \E e : Chain(r, e) /\ e[0] = m /\ e[Len(r)] = top

Laid(b, r, a, top) == \E m : Split(b, r, a, m, top)

-----------------------------------------------------------------------------
(* Induction over the numbers. *)

\* A set of numbers with 0 and with the successor of each of its members is Nat.
LEMMA SetInduction ==
  ASSUME NEW M \in SUBSET Nat, 0 \in M, \A n \in M : n + 1 \in M
  PROVE  M = Nat
<1> DEFINE Out == Nat \ M
<1>1. SUFFICES ASSUME Out # {} PROVE FALSE
  OBVIOUS
<1>2. IsWellFoundedOn(OpToRel(<, Nat), Nat)
  BY NatLessThanWellFounded
<1>3. PICK x \in Out : \A y \in Out : ~ (<<y, x>> \in OpToRel(<, Nat))
  BY <1>1, <1>2, WFMin
<1>4. x \in Nat /\ x \notin M /\ \A y \in Out : ~ (y < x)
  BY <1>3 DEF OpToRel
<1>5. x - 1 \in Nat /\ x - 1 < x
  BY <1>4
<1>6. x - 1 \in M
  BY <1>4, <1>5
<1> QED
  BY <1>4, <1>5, <1>6

-----------------------------------------------------------------------------
(* Runs. *)

\* A run is a sequence of numbers, one for each unit.
LEMMA RunFacts ==
  ASSUME NEW a \in Nat, NEW b \in Nat, a <= b
  PROVE  /\ Run(a, b) \in Seq(Nat) /\ Len(Run(a, b)) = b - a /\ b - a \in Nat
         /\ DOMAIN Run(a, b) = 1..(b - a)
         /\ \A i \in 1..(b - a) : Run(a, b)[i] = a + i
         /\ Run(a, b) = <<>> <=> a = b
<1>1. b - a \in Nat /\ \A i \in 1..(b - a) : a + i \in Nat
  OBVIOUS
<1>2. Run(a, b) \in Seq(Nat) /\ Len(Run(a, b)) = b - a /\ DOMAIN Run(a, b) = 1..(b - a)
  BY <1>1 DEF Run
<1>3. \A i \in 1..(b - a) : Run(a, b)[i] = a + i
  BY DEF Run
<1>4. Run(a, b) = <<>> <=> b - a = 0
  BY <1>1, <1>2, EmptySeq
<1> QED
  BY <1>1, <1>2, <1>3, <1>4

\* A sequence is a run when its length and its entries are.
LEMMA IsRun ==
  ASSUME NEW a \in Nat, NEW b \in Nat, a <= b, NEW s \in Seq(Nat), Len(s) = b - a,
         \A i \in 1..(b - a) : s[i] = a + i
  PROVE  s = Run(a, b)
<1>1. /\ Run(a, b) \in Seq(Nat) /\ Len(Run(a, b)) = b - a /\ b - a \in Nat
      /\ \A i \in 1..(b - a) : Run(a, b)[i] = a + i
  BY RunFacts
<1>2. \A i \in 1..Len(s) : s[i] = Run(a, b)[i]
  BY <1>1
<1> QED
  BY <1>1, <1>2, SeqEqual

\* A run behind the one it continues.
LEMMA RunConcat ==
  ASSUME NEW a \in Nat, NEW b \in Nat, NEW c \in Nat, a <= b, b <= c
  PROVE  Run(a, b) \o Run(b, c) = Run(a, c)
<1> DEFINE s == Run(a, b)
           t == Run(b, c)
<1>1. /\ s \in Seq(Nat) /\ Len(s) = b - a /\ \A i \in 1..(b - a) : s[i] = a + i
      /\ t \in Seq(Nat) /\ Len(t) = c - b /\ \A i \in 1..(c - b) : t[i] = b + i
  BY RunFacts
<1> HIDE DEF s, t
<1>2. /\ s \o t \in Seq(Nat) /\ Len(s \o t) = Len(s) + Len(t)
      /\ \A i \in 1..(Len(s) + Len(t)) :
           (s \o t)[i] = IF i <= Len(s) THEN s[i] ELSE t[i - Len(s)]
  BY <1>1, ConcatProperties
<1>3. Len(s \o t) = c - a
  BY <1>1, <1>2
<1>4. \A i \in 1..(c - a) : (s \o t)[i] = a + i
  <2> TAKE i \in 1..(c - a)
  <2>1. (s \o t)[i] = IF i <= b - a THEN s[i] ELSE t[i - (b - a)]
    BY <1>1, <1>2, SMTT(30)
  <2>2. CASE i <= b - a
    BY <1>1, <2>1, <2>2
  <2>3. CASE ~ (i <= b - a)
    <3>1. i - (b - a) \in 1..(c - b) /\ b + (i - (b - a)) = a + i
      BY <2>3
    <3> QED
      BY <1>1, <2>1, <2>3, <3>1
  <2> QED
    BY <2>2, <2>3
<1>5. s \o t = Run(a, c)
  <2>1. a <= c
    OBVIOUS
  <2> QED
    BY <1>2, <1>3, <1>4, <2>1, IsRun
<1> QED
  BY <1>5 DEF s, t

\* The part of a run from its k-th unit on, and the part up to it.
LEMMA RunSplit ==
  ASSUME NEW a \in Nat, NEW b \in Nat, a <= b, NEW k \in 0..(b - a)
  PROVE  /\ SubSeq(Run(a, b), k + 1, b - a) = Run(a + k, b)
         /\ SubSeq(Run(a, b), 1, k) = Run(a, a + k)
<1> DEFINE s == Run(a, b)
           t == SubSeq(s, k + 1, b - a)
           u == SubSeq(s, 1, k)
<1>1. s \in Seq(Nat) /\ Len(s) = b - a /\ \A i \in 1..(b - a) : s[i] = a + i
  BY RunFacts
<1> HIDE DEF s
<1>2. \A i \in 1..(b - a) : s[i] \in Nat
  BY <1>1
<1>3. /\ t \in Seq(Nat)
      /\ Len(t) = IF k + 1 <= b - a THEN (b - a) - (k + 1) + 1 ELSE 0
      /\ \A i \in 1..((b - a) - (k + 1) + 1) : t[i] = s[k + 1 + i - 1]
  <2>1. \A i \in (k + 1)..(b - a) : s[i] \in Nat
    BY <1>2
  <2> QED
    BY <2>1, SubSeqProperties
<1>4. /\ u \in Seq(Nat)
      /\ Len(u) = IF 1 <= k THEN k - 1 + 1 ELSE 0
      /\ \A i \in 1..(k - 1 + 1) : u[i] = s[1 + i - 1]
  <2>1. \A i \in 1..k : s[i] \in Nat
    BY <1>2
  <2> QED
    BY <2>1, SubSeqProperties
<1> HIDE DEF t, u
<1>5. t = Run(a + k, b)
  <2>1. a + k \in Nat /\ a + k <= b /\ Len(t) = b - (a + k)
    BY <1>3
  <2>2. ASSUME NEW i \in 1..(b - (a + k)) PROVE t[i] = (a + k) + i
    <3>1. i \in 1..((b - a) - (k + 1) + 1) /\ k + 1 + i - 1 = k + i /\ k + i \in 1..(b - a)
      BY <2>2
    <3>2. t[i] = s[k + i] /\ s[k + i] = a + (k + i)
      BY <1>1, <1>3, <3>1
    <3> QED
      BY <3>1, <3>2
  <2> QED
    BY <1>3, <2>1, <2>2, IsRun
<1>6. u = Run(a, a + k)
  <2>1. a + k \in Nat /\ a <= a + k /\ Len(u) = (a + k) - a
    BY <1>4
  <2>2. ASSUME NEW i \in 1..((a + k) - a) PROVE u[i] = a + i
    <3>1. i \in 1..(k - 1 + 1) /\ 1 + i - 1 = i /\ i \in 1..(b - a)
      BY <2>2
    <3> QED
      BY <1>1, <1>4, <3>1
  <2> QED
    BY <1>4, <2>1, <2>2, IsRun
<1> QED
  BY <1>5, <1>6 DEF t, u, s

\* One unit more.
LEMMA RunAppend ==
  ASSUME NEW a \in Nat, NEW b \in Nat, a <= b
  PROVE  Append(Run(a, b), b + 1) = Run(a, b + 1)
<1> DEFINE s == Run(a, b)
           t == Append(s, b + 1)
<1>1. s \in Seq(Nat) /\ Len(s) = b - a /\ \A i \in 1..(b - a) : s[i] = a + i
  BY RunFacts
<1> HIDE DEF s
<1>2. /\ t \in Seq(Nat) /\ Len(t) = Len(s) + 1
      /\ \A i \in 1..Len(s) : t[i] = s[i]
      /\ t[Len(s) + 1] = b + 1
  <2>1. b + 1 \in Nat
    OBVIOUS
  <2> QED
    BY <1>1, <2>1, AppendProperties
<1> HIDE DEF t
<1>3. Len(t) = (b + 1) - a
  BY <1>1, <1>2
<1>4. ASSUME NEW i \in 1..((b + 1) - a) PROVE t[i] = a + i
  <2>1. CASE i \in 1..(b - a)
    BY <1>1, <1>2, <2>1
  <2>2. CASE i = (b - a) + 1
    BY <1>1, <1>2, <2>2
  <2> QED
    BY <2>1, <2>2
<1>5. b + 1 \in Nat /\ a <= b + 1
  OBVIOUS
<1> QED
  BY <1>2, <1>3, <1>4, <1>5, IsRun DEF s, t

\* A run is a proper prefix of a longer one, in the terms of IsStrictPrefix().
LEMMA RunPrefix ==
  ASSUME NEW a \in Nat, NEW b \in Nat, NEW c \in Nat, a <= b, b < c
  PROVE  /\ Run(a, b) # Run(a, c) /\ Len(Run(a, b)) <= Len(Run(a, c))
         /\ SubSeq(Run(a, b), 1, Len(Run(a, b))) = SubSeq(Run(a, c), 1, Len(Run(a, b)))
         /\ \A i \in (Len(Run(a, b)) + 1)..Len(Run(a, c)) : Run(a, c)[i] \in (b + 1)..c
<1>1. /\ Len(Run(a, b)) = b - a /\ Len(Run(a, c)) = c - a
      /\ \A i \in 1..(c - a) : Run(a, c)[i] = a + i
  <2>1. a <= c
    OBVIOUS
  <2> QED
    BY <2>1, RunFacts
<1>2. b - a \in 0..(b - a) /\ b - a \in 0..(c - a) /\ a + (b - a) = b
  OBVIOUS
<1>3. SubSeq(Run(a, b), 1, b - a) = Run(a, b)
  BY <1>2, RunSplit
<1>4. SubSeq(Run(a, c), 1, b - a) = Run(a, b)
  <2>1. SubSeq(Run(a, c), 1, b - a) = Run(a, a + (b - a))
    BY <1>2, RunSplit
  <2> QED
    BY <1>2, <2>1
<1>5. b - a # c - a /\ b - a <= c - a
  OBVIOUS
<1>6. \A i \in ((b - a) + 1)..(c - a) : Run(a, c)[i] \in (b + 1)..c
  <2> TAKE i \in ((b - a) + 1)..(c - a)
  <2>1. i \in 1..(c - a) /\ a + i \in (b + 1)..c
    OBVIOUS
  <2> QED
    BY <1>1, <2>1
<1> QED
  BY <1>1, <1>3, <1>4, <1>5, <1>6

-----------------------------------------------------------------------------
(* Blocks, one behind the other. *)

\* Where the blocks of a chain begin and end.
LEMMA ChainFacts ==
  ASSUME NEW r, NEW e, Chain(r, e)
  PROVE  /\ r \in Seq(Seq(Nat)) /\ Len(r) \in Nat
         /\ \A i \in 0..Len(r) : e[i] \in Nat /\ e[0] <= e[i] /\ e[i] <= e[Len(r)]
         /\ \A i \in 1..Len(r) : /\ i - 1 \in 0..Len(r) /\ i \in 0..Len(r)
                                 /\ e[i - 1] < e[i] /\ r[i] = Run(e[i - 1], e[i])
<1>1. r \in Seq(Seq(Nat)) /\ Len(r) \in Nat
  BY LenProperties DEF Chain
<1> DEFINE n == Len(r)
<1>2. e \in [0..n -> Nat] /\ \A i, j \in 0..n : i < j => e[i] < e[j]
  BY DEF Chain
<1>3. n \in Nat
  BY <1>1
<1>a. \A i \in 1..n : r[i] = Run(e[i - 1], e[i])
  BY DEF Chain
<1> HIDE DEF n
<1>4. \A i \in 0..n : e[i] \in Nat /\ e[0] <= e[i] /\ e[i] <= e[n]
  <2> TAKE i \in 0..n
  <2>1. e[i] \in Nat /\ e[0] \in Nat /\ e[n] \in Nat
    BY <1>2, <1>3
  <2>2. e[0] <= e[i]
    <3>1. CASE i = 0
      BY <2>1, <3>1
    <3>2. CASE i # 0
      BY <1>2, <1>3, <2>1, <3>2
    <3> QED
      BY <3>1, <3>2
  <2>3. e[i] <= e[n]
    <3>1. CASE i = n
      BY <2>1, <3>1
    <3>2. CASE i # n
      BY <1>2, <1>3, <2>1, <3>2
    <3> QED
      BY <3>1, <3>2
  <2> QED
    BY <2>1, <2>2, <2>3
<1>5. \A i \in 1..n : i - 1 \in 0..n /\ i \in 0..n /\ i - 1 < i
  BY <1>3
<1>6. \A i \in 1..n : e[i - 1] < e[i]
  BY <1>2, <1>5
<1> QED
  BY <1>1, <1>4, <1>5, <1>6, <1>a DEF n

\* FlattenSeq() is defined by recursion over the blocks: on a chain the recursion has one
\* solution, the run over all of it.
LEMMA FlattenChain ==
  ASSUME NEW r, NEW e, Chain(r, e)
  PROVE  FlattenSeq(r) = Run(e[0], e[Len(r)])
<1> DEFINE n == Len(r)
           Continued(f) == [i \in 1..n |-> IF i = 1 THEN r[i] ELSE f[i - 1] \o r[i]]
           all == [i \in 1..n |-> Run(e[0], e[i])]
           flat == CHOOSE f : f = Continued(f)
<1>1. r \in Seq(Seq(Nat)) /\ n \in Nat
  BY ChainFacts
<1>2. /\ \A i \in 0..n : e[i] \in Nat /\ e[0] <= e[i] /\ e[i] <= e[n]
      /\ \A i \in 1..n : i - 1 \in 0..n /\ i \in 0..n
                         /\ e[i - 1] < e[i] /\ r[i] = Run(e[i - 1], e[i])
  BY ChainFacts
<1>3. CASE n = 0
  <2>1. FlattenSeq(r) = r /\ r = <<>>
    BY <1>1, <1>3, EmptySeq DEF FlattenSeq
  <2>2. e[0] \in Nat /\ e[0] <= e[0]
    BY <1>1, <1>2
  <2>3. Run(e[0], e[0]) = <<>>
    BY <2>2, RunFacts
  <2> QED
    BY <1>3, <2>1, <2>3
<1>4. CASE n # 0
  <2>1. FlattenSeq(r) = flat[n]
    BY <1>1, <1>4 DEF FlattenSeq
  <2>2. all = Continued(all)
    <3>1. ASSUME NEW i \in 1..n
          PROVE  all[i] = IF i = 1 THEN r[i] ELSE all[i - 1] \o r[i]
      <4>1. CASE i = 1
        BY <1>2, <4>1
      <4>2. CASE i # 1
        <5>1. i - 1 \in 1..n /\ e[0] \in Nat /\ e[i - 1] \in Nat /\ e[i] \in Nat
              /\ e[0] <= e[i - 1] /\ e[i - 1] <= e[i]
          BY <1>1, <1>2, <4>2
        <5>2. all[i - 1] = Run(e[0], e[i - 1]) /\ all[i] = Run(e[0], e[i])
          BY <5>1
        <5>3. Run(e[0], e[i - 1]) \o Run(e[i - 1], e[i]) = Run(e[0], e[i])
          BY <5>1, RunConcat
        <5> QED
          BY <1>2, <4>2, <5>2, <5>3
      <4> QED
        BY <4>1, <4>2
    <3> QED
      BY <3>1
  <2>3. flat = Continued(flat)
    BY <2>2
  <2> HIDE DEF flat, all
  <2>4. \A i \in 1..n : flat[i] = all[i]
    <3> DEFINE M == {i \in Nat : i + 1 \in 1..n => flat[i + 1] = all[i + 1]}
    <3>1. 0 \in M
      <4>1. 1 \in 1..n
        BY <1>1, <1>4
      <4>2. flat[1] = r[1] /\ all[1] = r[1]
        BY <2>2, <2>3, <4>1
      <4> QED
        BY <4>2
    <3>2. ASSUME NEW i \in M PROVE i + 1 \in M
      <4>1. SUFFICES ASSUME (i + 1) + 1 \in 1..n PROVE flat[(i + 1) + 1] = all[(i + 1) + 1]
        OBVIOUS
      <4>2. i + 1 \in 1..n /\ ((i + 1) + 1) - 1 = i + 1 /\ (i + 1) + 1 # 1
        BY <1>1, <4>1
      <4>3. flat[i + 1] = all[i + 1]
        BY <4>2
      <4>4. flat[(i + 1) + 1] = flat[i + 1] \o r[(i + 1) + 1]
        BY <2>3, <4>1, <4>2
      <4>5. all[(i + 1) + 1] = all[i + 1] \o r[(i + 1) + 1]
        BY <2>2, <4>1, <4>2
      <4> QED
        BY <4>3, <4>4, <4>5
    <3>3. M = Nat
      <4>1. M \in SUBSET Nat /\ \A i \in M : i + 1 \in M
        BY <3>2
      <4> HIDE DEF M
      <4> QED
        BY <3>1, <4>1, SetInduction
    <3> TAKE i \in 1..n
    <3>4. i - 1 \in M
      <4> HIDE DEF M
      <4> QED
        BY <1>1, <3>3
    <3> QED
      BY <3>4
  <2>5. n \in 1..n
    BY <1>1, <1>4
  <2> QED
    BY <2>1, <2>4, <2>5 DEF all
<1> QED
  BY <1>3, <1>4

\* The first block, and what is behind it.
LEMMA ChainTail ==
  ASSUME NEW r, NEW e, Chain(r, e), r # <<>>
  PROVE  \E f : Chain(Tail(r), f) /\ f[0] = e[1] /\ f[Len(Tail(r))] = e[Len(r)]
<1> DEFINE n == Len(r)
           t == Tail(r)
           f == [i \in 0..(n - 1) |-> e[i + 1]]
<1>1. r \in Seq(Seq(Nat)) /\ n \in Nat /\ n # 0
  BY ChainFacts, EmptySeq
<1>2. /\ e \in [0..n -> Nat] /\ \A i, j \in 0..n : i < j => e[i] < e[j]
      /\ \A i \in 1..n : r[i] = Run(e[i - 1], e[i])
  BY DEF Chain
<1>3. t \in Seq(Seq(Nat)) /\ Len(t) = n - 1 /\ \A i \in 1..(n - 1) : t[i] = r[i + 1]
  BY <1>1, HeadTailProperties
<1> HIDE DEF n, t
<1>4. \A i \in 0..(n - 1) : i + 1 \in 0..n /\ f[i] = e[i + 1]
  BY <1>1
<1>5. f \in [0..(n - 1) -> Nat]
  BY <1>2, <1>4
<1> HIDE DEF f
<1>6. \A i, j \in 0..(n - 1) : i < j => f[i] < f[j]
  <2> TAKE i, j \in 0..(n - 1)
  <2>1. i < j => i + 1 < j + 1
    OBVIOUS
  <2> QED
    BY <1>2, <1>4, <2>1
<1>7. \A i \in 1..(n - 1) : t[i] = Run(f[i - 1], f[i])
  <2> TAKE i \in 1..(n - 1)
  <2>1. i - 1 \in 0..(n - 1) /\ i \in 0..(n - 1) /\ i + 1 \in 1..n
        /\ (i - 1) + 1 = i /\ (i + 1) - 1 = i
    BY <1>1
  <2>2. f[i - 1] = e[i] /\ f[i] = e[i + 1] /\ t[i] = r[i + 1]
    BY <1>3, <1>4, <2>1
  <2>3. r[i + 1] = Run(e[i], e[i + 1])
    BY <1>2, <2>1
  <2> QED
    BY <2>2, <2>3
<1>8. Chain(t, f)
  BY <1>3, <1>5, <1>6, <1>7 DEF Chain
<1>9. f[0] = e[1] /\ f[Len(t)] = e[n]
  <2>1. 0 \in 0..(n - 1) /\ n - 1 \in 0..(n - 1) /\ 0 + 1 = 1 /\ (n - 1) + 1 = n
    BY <1>1
  <2> QED
    BY <1>3, <1>4, <2>1
<1> QED
  BY <1>8, <1>9 DEF t, n

\* Another block at the end.
LEMMA ChainAppend ==
  ASSUME NEW r, NEW e, Chain(r, e), NEW c \in Nat, e[Len(r)] < c
  PROVE  \E f : /\ Chain(Append(r, Run(e[Len(r)], c)), f)
                /\ f[0] = e[0] /\ f[Len(r) + 1] = c
<1> DEFINE n == Len(r)
           t == Append(r, Run(e[n], c))
           f == [i \in 0..(n + 1) |-> IF i = n + 1 THEN c ELSE e[i]]
<1>1. r \in Seq(Seq(Nat)) /\ n \in Nat /\ \A i \in 0..n : e[i] \in Nat /\ e[i] <= e[n]
  BY ChainFacts
<1>2. /\ e \in [0..n -> Nat] /\ \A i, j \in 0..n : i < j => e[i] < e[j]
      /\ \A i \in 1..n : r[i] = Run(e[i - 1], e[i])
  BY DEF Chain
<1>0. e[n] \in Nat /\ e[n] < c /\ e[n] <= c
  <2>1. n \in 0..n
    BY <1>1
  <2> QED
    BY <1>1, <2>1
<1>3. Run(e[n], c) \in Seq(Nat)
  BY <1>0, RunFacts
<1>4. /\ t \in Seq(Seq(Nat)) /\ Len(t) = n + 1
      /\ \A i \in 1..n : t[i] = r[i]
      /\ t[n + 1] = Run(e[n], c)
  BY <1>1, <1>3, AppendProperties
<1> HIDE DEF n, t
<1>5. f[n + 1] = c /\ \A i \in 0..n : f[i] = e[i]
  BY <1>1
<1>6. f \in [0..(n + 1) -> Nat]
  BY <1>1
<1> HIDE DEF f
<1>7. \A i, j \in 0..(n + 1) : i < j => f[i] < f[j]
  <2> SUFFICES ASSUME NEW i \in 0..(n + 1), NEW j \in 0..(n + 1), i < j PROVE f[i] < f[j]
    OBVIOUS
  <2>1. i \in 0..n
    BY <1>1
  <2>2. CASE j = n + 1
    <3>1. f[i] = e[i] /\ f[j] = c /\ e[i] \in Nat /\ e[i] <= e[n]
      BY <1>1, <1>5, <2>1, <2>2
    <3> QED
      BY <1>0, <3>1
  <2>3. CASE j # n + 1
    <3>1. j \in 0..n
      BY <1>1, <2>3
    <3> QED
      BY <1>2, <1>5, <2>1, <3>1
  <2> QED
    BY <2>2, <2>3
<1>8. \A i \in 1..(n + 1) : t[i] = Run(f[i - 1], f[i])
  <2> TAKE i \in 1..(n + 1)
  <2>1. CASE i = n + 1
    <3>1. i - 1 = n /\ n \in 0..n
      BY <1>1, <2>1
    <3> QED
      BY <1>4, <1>5, <2>1, <3>1
  <2>2. CASE i # n + 1
    <3>1. i \in 1..n /\ i - 1 \in 0..n /\ i \in 0..n
      BY <1>1, <2>2
    <3> QED
      BY <1>2, <1>4, <1>5, <3>1
  <2> QED
    BY <2>1, <2>2
<1>9. Chain(t, f)
  BY <1>4, <1>6, <1>7, <1>8 DEF Chain
<1>10. f[0] = e[0]
  BY <1>1, <1>5
<1> QED
  BY <1>5, <1>9, <1>10 DEF t, n

\* One unit more in the last block.
LEMMA ChainGrow ==
  ASSUME NEW r, NEW e, Chain(r, e), r # <<>>, NEW t,
         t = [r EXCEPT ![Len(r)] = Append(r[Len(r)], e[Len(r)] + 1)]
  PROVE  \E f : Chain(t, f) /\ Len(t) = Len(r) /\ f[0] = e[0] /\ f[Len(t)] = e[Len(r)] + 1
<1> DEFINE n == Len(r)
           f == [e EXCEPT ![n] = e[n] + 1]
<1>1. /\ r \in Seq(Seq(Nat)) /\ n \in Nat /\ n # 0
      /\ \A i \in 0..n : e[i] \in Nat /\ e[i] <= e[n]
      /\ \A i \in 1..n : e[i - 1] < e[i] /\ r[i] = Run(e[i - 1], e[i])
  BY ChainFacts, EmptySeq
<1>2. e \in [0..n -> Nat] /\ \A i, j \in 0..n : i < j => e[i] < e[j]
  BY DEF Chain
<1>3. n \in 1..n /\ n \in 0..n /\ n - 1 \in 0..n /\ n - 1 # n /\ 0 \in 0..n
  BY <1>1
<1>4. Append(r[n], e[n] + 1) = Run(e[n - 1], e[n] + 1)
  <2>1. e[n - 1] \in Nat /\ e[n] \in Nat /\ e[n - 1] <= e[n] /\ r[n] = Run(e[n - 1], e[n])
    BY <1>1, <1>3
  <2> QED
    BY <2>1, RunAppend
<1>5. Run(e[n - 1], e[n] + 1) \in Seq(Nat)
  <2>1. e[n - 1] \in Nat /\ e[n] \in Nat /\ e[n - 1] < e[n]
    BY <1>1, <1>3
  <2>2. e[n] + 1 \in Nat /\ e[n - 1] <= e[n] + 1
    BY <2>1
  <2> QED
    BY <2>1, <2>2, RunFacts
<1>6. /\ t \in Seq(Seq(Nat)) /\ Len(t) = n
      /\ t[n] = Run(e[n - 1], e[n] + 1)
      /\ \A i \in 1..n : i # n => t[i] = r[i]
  <2> DEFINE u == Run(e[n - 1], e[n] + 1)
  <2>1. t = [r EXCEPT ![n] = u]
    BY <1>4
  <2> HIDE DEF u
  <2>2. /\ [r EXCEPT ![n] = u] \in Seq(Seq(Nat))
        /\ Len([r EXCEPT ![n] = u]) = Len(r)
        /\ \A j \in 1..Len(r) : [r EXCEPT ![n] = u][j] = IF j = n THEN u ELSE r[j]
    <3>1. u \in Seq(Nat)
      BY <1>5 DEF u
    <3> QED
      BY <1>1, <1>3, <3>1, ExceptSeq
  <2> QED
    BY <1>3, <2>1, <2>2 DEF u
<1> HIDE DEF n
<1>7. f \in [0..n -> Nat] /\ f[n] = e[n] + 1 /\ \A i \in 0..n : i # n => f[i] = e[i]
  <2>1. e[n] + 1 \in Nat
    BY <1>1, <1>3
  <2> QED
    BY <1>2, <1>3, <2>1
<1> HIDE DEF f
<1>8. \A i, j \in 0..n : i < j => f[i] < f[j]
  <2> SUFFICES ASSUME NEW i \in 0..n, NEW j \in 0..n, i < j PROVE f[i] < f[j]
    OBVIOUS
  <2>1. i # n /\ e[i] < e[j]
    BY <1>1, <1>2
  <2>3. e[i] \in Nat /\ e[j] \in Nat
    BY <1>2
  <2>4. f[i] = e[i]
    BY <1>7, <2>1
  <2>2. f[j] = e[j] \/ f[j] = e[j] + 1
    BY <1>7
  <2> QED
    BY <2>1, <2>2, <2>3, <2>4
<1>9. \A i \in 1..n : t[i] = Run(f[i - 1], f[i])
  <2> TAKE i \in 1..n
  <2>1. CASE i = n
    BY <1>3, <1>6, <1>7, <2>1
  <2>2. CASE i # n
    <3>1. i \in 0..n /\ i - 1 \in 0..n /\ i - 1 # n
      BY <1>1
    <3> QED
      BY <1>1, <1>6, <1>7, <2>2, <3>1
  <2> QED
    BY <2>1, <2>2
<1>10. Chain(t, f)
  BY <1>6, <1>7, <1>8, <1>9 DEF Chain
<1>11. f[0] = e[0]
  BY <1>1, <1>3, <1>7
<1> QED
  BY <1>6, <1>7, <1>10, <1>11 DEF n

\* No block.
LEMMA ChainEmpty ==
  ASSUME NEW a \in Nat
  PROVE  \E e : Chain(<<>>, e) /\ e[0] = a /\ e[Len(<<>>)] = a
<1> DEFINE e == [i \in 0..0 |-> a]
<1>1. <<>> \in Seq(Seq(Nat)) /\ Len(<<>>) = 0
  OBVIOUS
<1>2. e \in [0..0 -> Nat] /\ e[0] = a
  OBVIOUS
<1> HIDE DEF e
<1>3. \A i, j \in 0..0 : i < j => e[i] < e[j]
  OBVIOUS
<1>4. Chain(<<>>, e)
  BY <1>1, <1>2, <1>3 DEF Chain
<1> QED
  BY <1>1, <1>2, <1>4

-----------------------------------------------------------------------------
(* What is laid out, and how it changes. *)

\* The units of buffer b and blocks r that are unsent, s of the first object being sent.
UnsentOf(b, r, s) ==
  IF b # <<>> THEN SubSeq(b, s + 1, Len(b)) \o FlattenSeq(r)
  ELSE SubSeq(FlattenSeq(r), s + 1, Len(FlattenSeq(r)))

\* The offset s is inside the first object.
Within(b, r, s) ==
  /\ s \in Nat
  /\ b # <<>> => s < Len(b)
  /\ b = <<>> /\ r # <<>> => s < Len(r[1])
  /\ b = <<>> /\ r = <<>> => s = 0

\* The objects one by one.
LEMMA LaidFacts ==
  ASSUME NEW b, NEW r, NEW a, NEW top, Laid(b, r, a, top)
  PROVE  /\ a \in Nat /\ top \in Nat /\ a <= top
         /\ b \in Seq(Nat) /\ Len(b) \in Nat /\ a + Len(b) <= top /\ b = Run(a, a + Len(b))
         /\ r \in Seq(Seq(Nat)) /\ \A j \in DOMAIN r : r[j] # <<>>
         /\ b = <<>> /\ r = <<>> => a = top
         /\ b = <<>> /\ r # <<>> =>
              /\ 1 \in DOMAIN r /\ Len(r[1]) \in Nat /\ a + Len(r[1]) <= top
              /\ r[1] = Run(a, a + Len(r[1]))
              /\ \A j \in DOMAIN r : r[j][1] = r[1][1] => j = 1
<1>1. PICK m : Split(b, r, a, m, top)
  BY DEF Laid
<1>2. PICK e : Chain(r, e) /\ e[0] = m /\ e[Len(r)] = top
  BY <1>1 DEF Split
<1>3. a \in Nat /\ m \in Nat /\ a <= m /\ b = Run(a, m)
  BY <1>1 DEF Split
<1> DEFINE n == Len(r)
<1>4. /\ r \in Seq(Seq(Nat)) /\ n \in Nat
      /\ \A i \in 0..n : e[i] \in Nat /\ e[0] <= e[i] /\ e[i] <= e[n]
      /\ \A i \in 1..n : /\ i - 1 \in 0..n /\ i \in 0..n
                         /\ e[i - 1] < e[i] /\ r[i] = Run(e[i - 1], e[i])
  BY <1>2, ChainFacts
<1>5. DOMAIN r = 1..n /\ (r = <<>> <=> n = 0)
  BY <1>4, EmptySeq, LenProperties
<1>6. e[0] = m /\ e[n] = top /\ \A i, j \in 0..n : i < j => e[i] < e[j]
  BY <1>2 DEF Chain
<1> HIDE DEF n
<1>7. top \in Nat /\ m <= top
  <2>1. n \in 0..n
    BY <1>4
  <2> QED
    BY <1>4, <1>6, <2>1
<1>8. b \in Seq(Nat) /\ Len(b) = m - a /\ (b = <<>> <=> a = m)
  BY <1>3, RunFacts
<1>9. Len(b) \in Nat /\ a + Len(b) = m
  BY <1>3, <1>8
<1>10. \A j \in 1..n : /\ r[j] \in Seq(Nat) /\ Len(r[j]) = e[j] - e[j - 1]
                       /\ r[j] # <<>> /\ r[j][1] = e[j - 1] + 1
  <2> TAKE j \in 1..n
  <2>1. e[j - 1] \in Nat /\ e[j] \in Nat /\ e[j - 1] < e[j] /\ r[j] = Run(e[j - 1], e[j])
    BY <1>4
  <2>2. e[j - 1] <= e[j] /\ e[j - 1] # e[j] /\ 1 \in 1..(e[j] - e[j - 1])
    BY <2>1
  <2> DEFINE x == e[j - 1]
             y == e[j]
  <2>3. x \in Nat /\ y \in Nat /\ x <= y /\ x # y /\ 1 \in 1..(y - x) /\ r[j] = Run(x, y)
    BY <2>1, <2>2
  <2> HIDE DEF x, y
  <2>4. /\ Run(x, y) \in Seq(Nat) /\ Len(Run(x, y)) = y - x
        /\ Run(x, y)[1] = x + 1 /\ Run(x, y) # <<>>
    BY <2>3, RunFacts
  <2> QED
    BY <2>3, <2>4 DEF x, y
<1>11. ASSUME b = <<>>, r # <<>>
       PROVE  /\ 1 \in DOMAIN r /\ Len(r[1]) \in Nat /\ a + Len(r[1]) <= top
              /\ r[1] = Run(a, a + Len(r[1]))
              /\ \A j \in DOMAIN r : r[j][1] = r[1][1] => j = 1
  <2>1. 1 \in 1..n /\ 0 \in 0..n /\ 1 \in 0..n /\ 1 - 1 = 0 /\ e[0] = a
    BY <1>4, <1>5, <1>6, <1>8, <1>11
  <2>2. e[1] \in Nat /\ a < e[1] /\ e[1] <= top /\ r[1] = Run(a, e[1])
        /\ Len(r[1]) = e[1] - a /\ r[1][1] = a + 1
    BY <1>4, <1>6, <1>10, <2>1
  <2>3. Len(r[1]) \in Nat /\ a + Len(r[1]) = e[1]
    BY <1>3, <2>2
  <2>4. ASSUME NEW j \in 1..n, r[j][1] = r[1][1] PROVE j = 1
    <3>1. j - 1 \in 0..n /\ r[j][1] = e[j - 1] + 1 /\ e[j - 1] \in Nat
      BY <1>4, <1>10
    <3>2. e[j - 1] = e[0]
      BY <1>3, <2>1, <2>2, <2>4, <3>1
    <3>3. ~ (0 < j - 1)
      BY <1>3, <1>6, <2>1, <3>1, <3>2
    <3> QED
      BY <3>3
  <2> QED
    BY <1>5, <2>1, <2>2, <2>3, <2>4
<1>12. b = <<>> /\ r = <<>> => a = top
  BY <1>5, <1>6, <1>8
<1> QED
  BY <1>3, <1>4, <1>5, <1>7, <1>8, <1>9, <1>10, <1>11, <1>12

\* The unsent units are all from the first unsent one to the last produced.
LEMMA UnsentRun ==
  ASSUME NEW b, NEW r, NEW a, NEW top, NEW s, Laid(b, r, a, top), Within(b, r, s)
  PROVE  /\ UnsentOf(b, r, s) = Run(a + s, top) /\ a + s \in Nat /\ a + s <= top
         /\ b = <<>> /\ r = <<>> <=> a + s = top
<1>1. PICK m : Split(b, r, a, m, top)
  BY DEF Laid
<1>2. PICK e : Chain(r, e) /\ e[0] = m /\ e[Len(r)] = top
  BY <1>1 DEF Split
<1>3. /\ a \in Nat /\ m \in Nat /\ a <= m /\ b = Run(a, m) /\ s \in Nat
      /\ b \in Seq(Nat) /\ Len(b) = m - a /\ (b = <<>> <=> a = m)
  BY <1>1, RunFacts DEF Split, Within
<1>4. FlattenSeq(r) = Run(m, top)
  BY <1>2, FlattenChain
<1>5. top \in Nat /\ m <= top /\ a + Len(b) <= top
      /\ (b = <<>> /\ r # <<>> => Len(r[1]) \in Nat /\ a + Len(r[1]) <= top)
      /\ (b = <<>> /\ r = <<>> => a = top)
  <2>1. /\ top \in Nat /\ a + Len(b) <= top
        /\ (b = <<>> /\ r # <<>> => Len(r[1]) \in Nat /\ a + Len(r[1]) <= top)
        /\ (b = <<>> /\ r = <<>> => a = top)
    BY LaidFacts
  <2>2. m = a + Len(b)
    BY <1>3
  <2> QED
    BY <2>1, <2>2
<1>6. CASE b # <<>>
  <2>1. s < m - a /\ s \in 0..(m - a) /\ a + s \in Nat /\ a + s <= m
    BY <1>3, <1>6 DEF Within
  <2>2. SubSeq(b, s + 1, Len(b)) = Run(a + s, m)
    <3>1. SubSeq(Run(a, m), s + 1, m - a) = Run(a + s, m)
      BY <1>3, <2>1, RunSplit
    <3> QED
      BY <1>3, <3>1
  <2>3. UnsentOf(b, r, s) = Run(a + s, m) \o Run(m, top)
    BY <1>4, <1>6, <2>2 DEF UnsentOf
  <2>4. UnsentOf(b, r, s) = Run(a + s, top)
    BY <1>3, <1>5, <2>1, <2>3, RunConcat
  <2> QED
    BY <1>3, <1>5, <1>6, <2>1, <2>4
<1>7. CASE b = <<>>
  <2>1. a = m /\ a + s \in Nat /\ a + s <= top /\ s \in 0..(top - m)
        /\ (r = <<>> <=> a + s = top)
    <3>1. CASE r = <<>>
      BY <1>3, <1>5, <1>7, <3>1 DEF Within
    <3>2. CASE r # <<>>
      <4>1. s < Len(r[1]) /\ Len(r[1]) \in Nat /\ a + Len(r[1]) <= top
        BY <1>5, <1>7, <3>2 DEF Within
      <4> QED
        BY <1>3, <1>5, <1>7, <3>2, <4>1
    <3> QED
      BY <3>1, <3>2
  <2>2. Len(Run(m, top)) = top - m
    BY <1>3, <1>5, RunFacts
  <2>3. UnsentOf(b, r, s) = SubSeq(Run(m, top), s + 1, top - m)
    BY <1>4, <1>7, <2>2 DEF UnsentOf
  <2>4. UnsentOf(b, r, s) = Run(a + s, top)
    <3>1. SubSeq(Run(m, top), s + 1, top - m) = Run(m + s, top)
      BY <1>3, <1>5, <2>1, RunSplit
    <3> QED
      BY <2>1, <2>3, <3>1
  <2> QED
    BY <1>7, <2>1, <2>4
<1> QED
  BY <1>6, <1>7

\* A unit is added, as _addReplyToBuffer() and _addReplyProtoToList() do: to the buffer
\* while there is no block, to the last block, or in a block of its own.
LEMMA LaidMore ==
  ASSUME NEW b, NEW r, NEW a, NEW top, Laid(b, r, a, top)
  PROVE  /\ r = <<>> => Laid(Append(b, top + 1), r, a, top + 1)
         /\ r # <<>> => Laid(b, [r EXCEPT ![Len(r)] = Append(r[Len(r)], top + 1)], a, top + 1)
         /\ Laid(b, Append(r, <<top + 1>>), a, top + 1)
<1>1. PICK m : Split(b, r, a, m, top)
  BY DEF Laid
<1>2. PICK e : Chain(r, e) /\ e[0] = m /\ e[Len(r)] = top
  BY <1>1 DEF Split
<1>3. a \in Nat /\ m \in Nat /\ a <= m /\ b = Run(a, m) /\ top \in Nat /\ r \in Seq(Seq(Nat))
  BY <1>1, LaidFacts DEF Split
<1>4. ASSUME r = <<>> PROVE Laid(Append(b, top + 1), r, a, top + 1)
  <2>1. m = top
    BY <1>2, <1>4
  <2>2. Append(b, top + 1) = Run(a, top + 1)
    BY <1>3, <2>1, RunAppend
  <2>3. a <= top + 1 /\ top + 1 \in Nat
    BY <1>3, <2>1
  <2>4. \E f : Chain(r, f) /\ f[0] = top + 1 /\ f[Len(r)] = top + 1
    BY <1>4, <2>3, ChainEmpty
  <2>5. Split(Append(b, top + 1), r, a, top + 1, top + 1)
    BY <1>3, <2>2, <2>3, <2>4 DEF Split
  <2> QED
    BY <2>5 DEF Laid
<1>5. ASSUME r # <<>>
      PROVE  Laid(b, [r EXCEPT ![Len(r)] = Append(r[Len(r)], top + 1)], a, top + 1)
  <2> DEFINE t == [r EXCEPT ![Len(r)] = Append(r[Len(r)], top + 1)]
  <2>2. PICK f : Chain(t, f) /\ f[0] = e[0] /\ f[Len(t)] = e[Len(r)] + 1
    <3> DEFINE u == [r EXCEPT ![Len(r)] = Append(r[Len(r)], e[Len(r)] + 1)]
    <3>1. \E f : Chain(u, f) /\ f[0] = e[0] /\ f[Len(u)] = e[Len(r)] + 1
      BY <1>2, <1>5, ChainGrow
    <3>2. t = u
      BY <1>2
    <3> QED
      BY <3>1, <3>2
  <2> HIDE DEF t
  <2>3. Split(b, t, a, m, top + 1)
    BY <1>2, <1>3, <2>2 DEF Split
  <2> QED
    BY <2>3 DEF Laid, t
<1>6. Laid(b, Append(r, <<top + 1>>), a, top + 1)
  <2> DEFINE t == Append(r, <<top + 1>>)
  <2>1. <<top + 1>> = Run(top, top + 1)
    <3>1. <<top + 1>> \in Seq(Nat) /\ Len(<<top + 1>>) = (top + 1) - top
          /\ top <= top + 1 /\ top + 1 \in Nat
      BY <1>3
    <3>2. \A i \in 1..((top + 1) - top) : <<top + 1>>[i] = top + i
      BY <1>3
    <3> QED
      BY <1>3, <3>1, <3>2, IsRun
  <2>2. top + 1 \in Nat /\ e[Len(r)] < top + 1
    BY <1>2, <1>3
  <2>3. t = Append(r, Run(e[Len(r)], top + 1)) /\ Len(t) = Len(r) + 1
    BY <1>2, <1>3, <2>1, AppendProperties
  <2> HIDE DEF t
  <2>4. PICK f : Chain(t, f) /\ f[0] = e[0] /\ f[Len(t)] = top + 1
    BY <1>2, <2>2, <2>3, ChainAppend
  <2>5. Split(b, t, a, m, top + 1)
    BY <1>2, <1>3, <2>4 DEF Split
  <2> QED
    BY <2>5 DEF Laid, t
<1> QED
  BY <1>4, <1>5, <1>6

\* The first object is done with, as writeCallback() and writeDoneToClientKbaio() do: the
\* buffer is emptied, or the head block leaves the list.
LEMMA LaidLess ==
  ASSUME NEW b, NEW r, NEW a, NEW top, Laid(b, r, a, top)
  PROVE  /\ Laid(<<>>, r, a + Len(b), top)
         /\ b = <<>> /\ r # <<>> => Laid(<<>>, Tail(r), a + Len(r[1]), top)
<1>1. PICK m : Split(b, r, a, m, top)
  BY DEF Laid
<1>2. PICK e : Chain(r, e) /\ e[0] = m /\ e[Len(r)] = top
  BY <1>1 DEF Split
<1>3. a \in Nat /\ m \in Nat /\ a <= m /\ b = Run(a, m) /\ a + Len(b) = m
      /\ (b = <<>> <=> a = m)
  <2>1. a \in Nat /\ m \in Nat /\ a <= m /\ b = Run(a, m)
    BY <1>1 DEF Split
  <2>2. Len(b) = m - a /\ (b = <<>> <=> a = m)
    BY <2>1, RunFacts
  <2> QED
    BY <2>1, <2>2
<1>4. Laid(<<>>, r, a + Len(b), top)
  <2>1. <<>> = Run(m, m) /\ m <= m
    BY <1>3, RunFacts
  <2>2. Split(<<>>, r, m, m, top)
    BY <1>2, <1>3, <2>1 DEF Split
  <2> QED
    BY <1>3, <2>2 DEF Laid
<1>5. ASSUME b = <<>>, r # <<>> PROVE Laid(<<>>, Tail(r), a + Len(r[1]), top)
  <2>1. PICK f : Chain(Tail(r), f) /\ f[0] = e[1] /\ f[Len(Tail(r))] = e[Len(r)]
    BY <1>2, <1>5, ChainTail
  <2>2. 1 \in 1..Len(r) /\ 1 - 1 = 0 /\ 1 \in 0..Len(r)
    <3>1. Len(r) \in Nat /\ Len(r) # 0
      BY <1>2, <1>5, ChainFacts, EmptySeq
    <3> QED
      BY <3>1
  <2>3. e[0] \in Nat /\ e[1] \in Nat /\ e[0] <= e[1] /\ r[1] = Run(e[0], e[1]) /\ e[0] = a
    BY <1>2, <1>3, <1>5, <2>2, ChainFacts
  <2>4. Len(r[1]) = e[1] - e[0]
    BY <2>3, RunFacts
  <2>5. a + Len(r[1]) = e[1]
    BY <2>3, <2>4
  <2>6. <<>> = Run(e[1], e[1]) /\ e[1] <= e[1]
    <3> DEFINE x == e[1]
    <3>1. x \in Nat /\ x <= x
      BY <2>3
    <3> HIDE DEF x
    <3>2. Run(x, x) = <<>>
      BY <3>1, RunFacts
    <3> QED
      BY <3>1, <3>2 DEF x
  <2>7. Split(<<>>, Tail(r), e[1], e[1], top)
    BY <1>2, <2>1, <2>3, <2>6 DEF Split
  <2> QED
    BY <2>5, <2>7 DEF Laid
<1> QED
  BY <1>4, <1>5

\* Nothing is laid out.
LEMMA LaidNothing ==
  ASSUME NEW a \in Nat
  PROVE  Laid(<<>>, <<>>, a, a)
<1>1. <<>> = Run(a, a) /\ a <= a
  BY RunFacts
<1>2. \E e : Chain(<<>>, e) /\ e[0] = a /\ e[Len(<<>>)] = a
  BY ChainEmpty
<1>3. Split(<<>>, <<>>, a, a, a)
  BY <1>1, <1>2 DEF Split
<1> QED
  BY <1>3 DEF Laid
=============================================================================

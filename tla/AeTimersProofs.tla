--------------------------- MODULE AeTimersProofs ---------------------------
(***************************************************************************)
(* Proofs about AeTimers: no walk of the timer list ever stands on a timer *)
(* that was freed, and none ever meets a timer younger than itself, if no  *)
(* finalizer runs the event loop.                                          *)
(***************************************************************************)
EXTENDS AeTimers, FiniteSetTheorems, SequenceTheorems, TLAPS

\* The walks inside the function of timer t.
Runs(t) == {i \in 1..Len(walks) : walks[i].inside = "timer" /\ walks[i].te = t}

\* All walks but the innermost are inside the function of a timer: a finalizer starts none.
Nested ==
  \A i \in 1..Len(walks) :
    /\ i < Len(walks) => walks[i].inside = "timer"
    /\ walks[i].inside = "timer" => walks[i].te # 0

\* te->refcount counts them.
RefcountExact == \A t \in Timer : refcount[t] = Cardinality(Runs(t))

\* The inductive invariant.
WalkInv == TypeOK /\ Nested /\ RefcountExact /\ NoFreedTimerReached /\ NewTimersUnseen

-----------------------------------------------------------------------------
\* A set of timers has a youngest one.
LEMMA YoungestExists ==
  ASSUME NEW n \in Nat, NEW S \in SUBSET (1..n), S # {}
  PROVE  \E t \in S : \A u \in S : u <= t
<1> DEFINE T == {n - s : s \in S}
<1>0. PICK s0 \in S : TRUE
  OBVIOUS
<1>a. n - s0 \in T
  BY <1>0
<1>b. ASSUME NEW s \in S PROVE n - s \in Nat
  OBVIOUS
<1>1. T \subseteq Nat /\ T # {}
  BY <1>a, <1>b
<1>2. IsWellFoundedOn(OpToRel(<, Nat), Nat)
  BY NatLessThanWellFounded
<1>3. PICK x \in T : \A y \in T : ~ (<<y, x>> \in OpToRel(<, Nat))
  BY <1>1, <1>2, WFMin
<1>4. \A y \in T : ~ (y < x)
  BY <1>1, <1>3 DEF OpToRel
<1>5. PICK t \in S : x = n - t
  BY <1>3
<1>6. ASSUME NEW u \in S PROVE u <= t
  <2>1. n - u \in T
    OBVIOUS
  <2>2. ~ (n - u < x)
    BY <2>1, <1>4
  <2> QED
    BY <2>2, <1>5
<1> QED
  BY <1>6

\* Youngest() answers a timer of the set, or 0.
LEMMA YoungestIn ==
  ASSUME NEW n \in Nat, NEW S \in SUBSET (1..n)
  PROVE  Youngest(S) \in S \union {0} /\ Youngest(S) \in 0..n
<1>1. CASE S = {}
  BY <1>1 DEF Youngest
<1>2. CASE S # {}
  <2>1. \E t \in S : \A u \in S : u <= t
    BY <1>2, YoungestExists
  <2>2. Youngest(S) \in S
    BY <1>2, <2>1 DEF Youngest
  <2>3. \A y \in S : y \in S \union {0} /\ y \in 0..n
    OBVIOUS
  <2> QED
    BY <2>2, <2>3, Zenon
<1> QED
  BY <1>1, <1>2

\* te->next is an older timer of the list, or 0.
LEMMA FollowingIn ==
  ASSUME NEW n \in Nat, NEW S \in SUBSET (1..n), NEW t \in 1..n
  PROVE  /\ Following(S, t) \in (S \ {t}) \union {0}
         /\ Following(S, t) < t
         /\ Following(S, t) \in 0..n
<1> DEFINE O == {u \in S : u < t}
<1>1. O \in SUBSET (1..n)
  OBVIOUS
<1>2. Youngest(O) \in O \union {0} /\ Youngest(O) \in 0..n
  BY <1>1, YoungestIn
<1> QED
  BY <1>2 DEF Following

\* The innermost walk is one of the walks.
LEMMA InnerIn ==
  ASSUME TypeOK, walks # <<>>
  PROVE  Len(walks) \in 1..Len(walks) /\ Inner \in Walk
  BY DEF TypeOK, Inner

\* A walk that goes on to timer x.
LEMMA WalkGoesOn ==
  ASSUME NEW v \in Walk, NEW x \in 0..MaxTimers, NEW next \in {"loop", "timer", "finalizer"}
  PROVE  LET w == [v EXCEPT !.te = x, !.inside = next] IN
         w \in Walk /\ w.te = x /\ w.inside = next /\ w.maxId = v.maxId
  BY DEF Walk

\* What Move() does.
LEMMA MoveFacts ==
  ASSUME TypeOK, walks # <<>>, NEW w \in Walk, Move(w)
  PROVE  /\ walks' \in Seq(Walk) /\ Len(walks') = Len(walks)
         /\ \A i \in 1..Len(walks) : walks'[i] = IF i = Len(walks) THEN w ELSE walks[i]
  BY DEF TypeOK, Move

\* The walks inside a function are finitely many.
LEMMA RunsFinite ==
  ASSUME TypeOK, NEW t
  PROVE  IsFiniteSet(Runs(t))
<1>1. Len(walks) \in Nat /\ 1 \in Int
  BY DEF TypeOK
<1>2. IsFiniteSet(1..Len(walks))
  BY <1>1, FS_Interval
<1> QED
  BY <1>2, FS_Subset DEF Runs

\* A timer with a walk inside its function is not free to go.
LEMMA RunningReferenced ==
  ASSUME WalkInv, NEW i \in 1..Len(walks), walks[i].inside = "timer"
  PROVE  walks[i].te \in Timer /\ refcount[walks[i].te] # 0
<1>1. walks[i].te \in Timer
  <2>1. walks[i] \in Walk /\ walks[i].te # 0
    BY DEF WalkInv, Nested, TypeOK
  <2> QED
    BY <2>1, TimersAssumption DEF Walk, Timer
<1>2. i \in Runs(walks[i].te)
  BY DEF Runs
<1>3. Cardinality(Runs(walks[i].te)) # 0
  BY <1>2, RunsFinite, FS_EmptySet DEF WalkInv
<1> QED
  BY <1>1, <1>3 DEF WalkInv, RefcountExact

-----------------------------------------------------------------------------
\* Initially there are no timers.
LEMMA WalkInit == Init => WalkInv
<1> SUFFICES ASSUME Init PROVE WalkInv
  OBVIOUS
<1>1. TypeOK
  BY TimersAssumption DEF Init, TypeOK, Timer
<1>2. Nested /\ NoFreedTimerReached /\ NewTimersUnseen
  BY DEF Init, Nested, NoFreedTimerReached, NewTimersUnseen
<1>3. ASSUME NEW t \in Timer PROVE refcount[t] = Cardinality(Runs(t))
  <2>1. Runs(t) = {}
    BY DEF Init, Runs
  <2> QED
    BY <2>1, FS_EmptySet DEF Init
<1> QED
  BY <1>1, <1>2, <1>3 DEF WalkInv, RefcountExact

\* A step that changes no walk and frees nothing.
LEMMA ProgramStep ==
  ASSUME WalkInv, TypeOK', walks' = walks, refcount' = refcount, listed \subseteq listed'
  PROVE  WalkInv'
<1>1. \A t : Runs(t)' = Runs(t)
  BY DEF Runs
<1>2. Nested' /\ NewTimersUnseen'
  BY DEF WalkInv, Nested, NewTimersUnseen
<1>3. NoFreedTimerReached'
  BY DEF WalkInv, NoFreedTimerReached
<1>4. RefcountExact'
  BY <1>1 DEF WalkInv, RefcountExact
<1> QED
  BY <1>2, <1>3, <1>4 DEF WalkInv

\* aeCreateTimeEvent() keeps the invariant: a new timer is at the head, before every walk.
LEMMA CreateKeeps ==
  ASSUME WalkInv, NEW delay \in Delays, CreateTimeEvent(delay)
  PROVE  WalkInv'
<1>1. TypeOK'
  BY TimersAssumption DEF WalkInv, TypeOK, CreateTimeEvent, Timer
<1> QED
  BY <1>1, ProgramStep DEF CreateTimeEvent

\* aeDeleteTimeEvent() keeps it: it marks the timer and leaves it in the list.
LEMMA DeleteKeeps ==
  ASSUME WalkInv, NEW t \in Timer, DeleteTimeEvent(t)
  PROVE  WalkInv'
<1>1. TypeOK'
  BY DEF WalkInv, TypeOK, DeleteTimeEvent
<1> QED
  BY <1>1, ProgramStep DEF DeleteTimeEvent

\* Time passes.
LEMMA TickKeeps ==
  ASSUME WalkInv, Tick
  PROVE  WalkInv'
<1>1. TypeOK'
  BY DEF WalkInv, TypeOK, Tick, timervars
<1> QED
  BY <1>1, ProgramStep DEF Tick, timervars

\* Nothing happens.
LEMMA StutterKeeps ==
  ASSUME WalkInv, UNCHANGED vars
  PROVE  WalkInv'
<1>1. TypeOK'
  BY DEF WalkInv, TypeOK, vars, timervars
<1> QED
  BY <1>1, ProgramStep DEF vars, timervars

\* processTimeEvents() begins at the youngest timer.
LEMMA StartWalkKeeps ==
  ASSUME ~WalksInFinalizer, WalkInv, StartWalk
  PROVE  WalkInv'
<1> DEFINE w == [te |-> Youngest(listed), maxId |-> created, now |-> now,
                inside |-> "loop"]
<1>1. Youngest(listed) \in listed \union {0} /\ Youngest(listed) \in 0..created
  BY YoungestIn DEF WalkInv, TypeOK
<1>2. w \in Walk
  BY <1>1, TimersAssumption DEF WalkInv, TypeOK, Walk
<1> HIDE DEF w
<1>3. /\ walks' = Append(walks, w) /\ walks \in Seq(Walk)
      /\ UNCHANGED timervars
  BY DEF StartWalk, WalkInv, TypeOK, w
<1>4. /\ walks' \in Seq(Walk) /\ Len(walks') = Len(walks) + 1
      /\ \A i \in 1..Len(walks') : walks'[i] = IF i = Len(walks) + 1 THEN w ELSE walks[i]
  BY <1>2, <1>3
<1>5. TypeOK'
  BY <1>3, <1>4 DEF StartWalk, WalkInv, TypeOK, timervars
<1>6. w.te = Youngest(listed) /\ w.maxId = created /\ w.inside = "loop"
  BY DEF w
<1>7. walks # <<>> => walks[Len(walks)].inside = "timer"
  <2>1. ASSUME walks # <<>> PROVE Inner.inside \in {"timer", "finalizer"} \ {"finalizer"}
    <3>1. Inner.inside # "loop" /\ Inner.inside # "finalizer"
      BY <2>1 DEF StartWalk, ProgramRuns
    <3>2. Inner.inside \in {"loop", "timer", "finalizer"}
      BY <2>1, InnerIn DEF WalkInv, Walk
    <3> QED
      BY <3>1, <3>2
  <2> QED
    BY <2>1 DEF Inner
<1>8. Nested'
  BY <1>3, <1>4, <1>6, <1>7 DEF WalkInv, Nested
<1>9. NoFreedTimerReached'
  BY <1>1, <1>3, <1>4, <1>6 DEF WalkInv, NoFreedTimerReached, timervars
<1>10. NewTimersUnseen'
  BY <1>1, <1>3, <1>4, <1>6 DEF WalkInv, NewTimersUnseen
<1>11. \A t : Runs(t)' = Runs(t)
  BY <1>3, <1>4, <1>6 DEF Runs
<1>12. RefcountExact'
  BY <1>3, <1>11 DEF WalkInv, RefcountExact, timervars
<1> QED
  BY <1>5, <1>8, <1>9, <1>10, <1>12 DEF WalkInv

\* The innermost walk goes on to the next timer, having freed the timers in gone.
LEMMA StepOver ==
  ASSUME WalkInv, Walking, TypeOK', NEW next \in {"loop", "finalizer"},
         Move([Inner EXCEPT !.te = Following(listed, Inner.te), !.inside = next]),
         refcount' = refcount,
         \/ listed' = listed
         \/ listed' = listed \ {Inner.te} /\ refcount[Inner.te] = 0
  PROVE  WalkInv'
<1> DEFINE w == [Inner EXCEPT !.te = Following(listed, Inner.te), !.inside = next]
<1>0. TypeOK
  BY DEF WalkInv
<1>1. Inner \in Walk /\ Len(walks) \in 1..Len(walks) /\ Inner.inside = "loop" /\ Inner.te # 0
  BY <1>0, InnerIn DEF Walking
<1>2. Inner.te \in listed /\ Inner.te \in 1..created
  BY <1>0, <1>1 DEF WalkInv, NoFreedTimerReached, TypeOK, Inner
<1>3. /\ Following(listed, Inner.te) \in (listed \ {Inner.te}) \union {0}
      /\ Following(listed, Inner.te) < Inner.te
      /\ Following(listed, Inner.te) \in 0..created
  BY <1>0, <1>2, FollowingIn DEF TypeOK
<1>a. Following(listed, Inner.te) \in 0..MaxTimers
  BY <1>0, <1>3, TimersAssumption DEF TypeOK
<1>4. w \in Walk /\ w.te = Following(listed, Inner.te) /\ w.inside = next /\ w.maxId = Inner.maxId
  <2>1. next \in {"loop", "timer", "finalizer"}
    OBVIOUS
  <2> QED
    BY <1>1, <1>a, <2>1 DEF Walk
<1> HIDE DEF w
<1>5. /\ Len(walks') = Len(walks)
      /\ \A i \in 1..Len(walks) : walks'[i] = IF i = Len(walks) THEN w ELSE walks[i]
  BY <1>0, <1>4, MoveFacts DEF Walking, w
<1>6. Nested'
  BY <1>4, <1>5 DEF WalkInv, Nested
<1>7. NewTimersUnseen'
  <2>1. Inner.te <= Inner.maxId
    BY <1>1 DEF WalkInv, NewTimersUnseen, Inner
  <2>2. w.te <= w.maxId
    BY <1>1, <1>3, <1>4, <2>1 DEF Walk
  <2> QED
    BY <1>5, <2>2 DEF WalkInv, NewTimersUnseen
<1>8. NoFreedTimerReached'
  <2> SUFFICES ASSUME NEW i \in 1..Len(walks), walks'[i].te # 0 PROVE walks'[i].te \in listed'
    BY <1>5 DEF NoFreedTimerReached
  <2>1. CASE i = Len(walks)
    BY <1>3, <1>4, <1>5, <2>1
  <2>2. CASE i # Len(walks)
    <3>1. walks'[i] = walks[i] /\ walks[i].inside = "timer" /\ walks[i].te \in listed
      BY <1>5, <2>2 DEF WalkInv, Nested, NoFreedTimerReached
    <3>2. refcount[walks[i].te] # 0
      BY <3>1, RunningReferenced
    <3> QED
      BY <3>1, <3>2
  <2> QED
    BY <2>1, <2>2
<1>9. \A t : Runs(t)' = Runs(t)
  BY <1>1, <1>4, <1>5 DEF Runs, Inner
<1>10. RefcountExact'
  BY <1>9 DEF WalkInv, RefcountExact
<1> QED
  BY <1>6, <1>7, <1>8, <1>10 DEF WalkInv

\* A walk frees a timer nobody holds, after it has read what follows.
LEMMA FreeDeletedKeeps ==
  ASSUME WalkInv, FreeDeleted
  PROVE  WalkInv'
<1>0. PICK next \in {"loop", "finalizer"} :
        Move([Inner EXCEPT !.te = Following(listed, Inner.te), !.inside = next])
  BY DEF FreeDeleted
<1> DEFINE w == [Inner EXCEPT !.te = Following(listed, Inner.te), !.inside = next]
<1>1. TypeOK /\ Walking /\ Inner \in Walk /\ Inner.te # 0 /\ Len(walks) \in 1..Len(walks)
  BY InnerIn DEF WalkInv, FreeDeleted, Walking
<1>2. Inner.te \in 1..created
  BY <1>1 DEF WalkInv, NoFreedTimerReached, TypeOK, Inner
<1>3. Following(listed, Inner.te) \in 0..created
  BY <1>1, <1>2, FollowingIn DEF TypeOK
<1>a. Following(listed, Inner.te) \in 0..MaxTimers
  BY <1>1, <1>3, TimersAssumption DEF TypeOK
<1>4. w \in Walk
  BY <1>1, <1>a, WalkGoesOn
<1>5. walks' \in Seq(Walk)
  BY <1>0, <1>1, <1>4, MoveFacts DEF Walking
<1>6. TypeOK'
  BY <1>1, <1>5 DEF FreeDeleted, TypeOK
<1> QED
  BY <1>0, <1>1, <1>6, StepOver DEF FreeDeleted, Freeable

\* A finalizer returns to the walk that called it.
LEMMA FinalizerReturnsKeeps ==
  ASSUME WalkInv, FinalizerReturns
  PROVE  WalkInv'
<1> DEFINE w == [Inner EXCEPT !.inside = "loop", !.now = now]
<1>1. TypeOK /\ Inner \in Walk /\ Inner.inside = "finalizer"
  BY InnerIn DEF WalkInv, FinalizerReturns
<1>m. PICK m \in 1..Len(walks) : m = Len(walks)
  BY InnerIn DEF WalkInv, FinalizerReturns
<1>2. w \in Walk /\ w.te = Inner.te /\ w.inside = "loop" /\ w.maxId = Inner.maxId
  BY <1>1 DEF TypeOK, Walk
<1> HIDE DEF w
<1>3. /\ walks' \in Seq(Walk) /\ Len(walks') = m
      /\ \A i \in 1..m : walks'[i] = IF i = m THEN w ELSE walks[i]
      /\ UNCHANGED <<timervars, now>>
  BY <1>1, <1>2, <1>m, MoveFacts DEF FinalizerReturns, w
<1>4. TypeOK'
  BY <1>1, <1>3 DEF TypeOK, timervars
<1>5. Nested' /\ NoFreedTimerReached' /\ NewTimersUnseen'
  BY <1>1, <1>2, <1>3, <1>m
     DEF WalkInv, Nested, NoFreedTimerReached, NewTimersUnseen, Inner, timervars
<1>6. \A t : Runs(t)' = Runs(t)
  BY <1>1, <1>2, <1>3, <1>m DEF Runs, Inner
<1>7. RefcountExact'
  BY <1>3, <1>6 DEF WalkInv, RefcountExact, timervars
<1> QED
  BY <1>4, <1>5, <1>7 DEF WalkInv

\* A walk goes on to the next timer.
LEMMA PassOverKeeps ==
  ASSUME WalkInv, PassOver
  PROVE  WalkInv'
<1> DEFINE w == [Inner EXCEPT !.te = Following(listed, Inner.te), !.inside = "loop"]
<1>1. TypeOK /\ Walking /\ Inner \in Walk /\ Inner.te # 0 /\ Len(walks) \in 1..Len(walks)
  BY InnerIn DEF WalkInv, PassOver, Walking
<1>2. Inner.te \in 1..created
  BY <1>1 DEF WalkInv, NoFreedTimerReached, TypeOK, Inner
<1>3. Following(listed, Inner.te) \in 0..created
  BY <1>1, <1>2, FollowingIn DEF TypeOK
<1>a. Following(listed, Inner.te) \in 0..MaxTimers
  BY <1>1, <1>3, TimersAssumption DEF TypeOK
<1>0. Move(w)
  <2>1. w = [Inner EXCEPT !.te = Following(listed, Inner.te)]
    BY <1>1 DEF Walking, Walk
  <2> QED
    BY <2>1 DEF PassOver
<1>4. w \in Walk
  BY <1>1, <1>a, WalkGoesOn
<1>5. walks' \in Seq(Walk)
  BY <1>0, <1>1, <1>4, MoveFacts DEF Walking
<1>6. TypeOK'
  BY <1>1, <1>5 DEF PassOver, TypeOK, timervars
<1> QED
  BY <1>0, <1>1, <1>6, StepOver DEF PassOver, timervars

\* The innermost walk enters the function of its timer, which it references.
LEMMA FireKeeps ==
  ASSUME WalkInv, Fire
  PROVE  WalkInv'
<1> DEFINE w == [Inner EXCEPT !.inside = "timer"]
<1>1. TypeOK /\ Inner \in Walk /\ Inner.te # 0 /\ Inner.inside = "loop"
  BY InnerIn DEF WalkInv, Fire, Walking
<1>2. PICK t \in Timer : t = Inner.te
  BY <1>1 DEF Walk, Timer
<1>m. PICK m \in 1..Len(walks) : m = Len(walks)
  BY InnerIn DEF WalkInv, Fire, Walking
<1>3. w \in Walk /\ w.te = t /\ w.inside = "timer" /\ w.maxId = Inner.maxId
  BY <1>1, <1>2 DEF Walk
<1> HIDE DEF w
<1>4. /\ walks' \in Seq(Walk) /\ Len(walks') = m
      /\ \A i \in 1..m : walks'[i] = IF i = m THEN w ELSE walks[i]
  BY <1>1, <1>3, <1>m, MoveFacts DEF Fire, Walking, w
<1>5. refcount' = [refcount EXCEPT ![t] = @ + 1]
  BY <1>2 DEF Fire
<1>b. refcount \in [Timer -> Int]
  BY <1>1 DEF TypeOK
<1>6. TypeOK'
  <2>1. refcount' \in [Timer -> Int]
    BY <1>b, <1>5
  <2> QED
    BY <1>1, <1>4, <2>1 DEF Fire, TypeOK
<1>7. Nested' /\ NoFreedTimerReached' /\ NewTimersUnseen'
  BY <1>1, <1>2, <1>3, <1>4, <1>m DEF Fire, WalkInv, Nested, NoFreedTimerReached, NewTimersUnseen, Inner
<1>8. Runs(t)' = Runs(t) \union {m} /\ m \notin Runs(t)
  BY <1>1, <1>3, <1>4, <1>m DEF Runs, Inner
<1>9. ASSUME NEW u \in Timer, u # t PROVE Runs(u)' = Runs(u)
  BY <1>1, <1>3, <1>4, <1>m, <1>9 DEF Runs, Inner
<1>10. Cardinality(Runs(t)') = Cardinality(Runs(t)) + 1
  BY <1>1, <1>8, RunsFinite, FS_AddElement
<1>11. ASSUME NEW u \in Timer PROVE refcount'[u] = Cardinality(Runs(u)')
  <2>1. CASE u = t
    <3>1. refcount'[t] = refcount[t] + 1
      BY <1>b, <1>5
    <3>2. refcount[t] = Cardinality(Runs(t))
      BY <1>2 DEF WalkInv, RefcountExact
    <3>3. refcount'[t] = Cardinality(Runs(t)')
      BY <1>10, <3>1, <3>2
    <3> QED
      BY <2>1, <3>3
  <2>2. CASE u # t
    BY <1>b, <1>5, <1>9, <2>2 DEF WalkInv, RefcountExact
  <2> QED
    BY <2>1, <2>2
<1> QED
  BY <1>6, <1>7, <1>11 DEF WalkInv, RefcountExact

\* The function returns: the reference is given back, and the walk goes on.
LEMMA ReturnKeeps ==
  ASSUME WalkInv, Return
  PROVE  WalkInv'
<1> DEFINE w == [Inner EXCEPT !.inside = "loop", !.now = now,
                              !.te = Following(listed, Inner.te)]
<1>1. TypeOK /\ Inner \in Walk /\ Inner.inside = "timer"
  BY InnerIn DEF WalkInv, Return
<1>m. PICK m \in 1..Len(walks) : m = Len(walks)
  BY InnerIn DEF WalkInv, Return
<1>2. PICK t \in Timer : t = Inner.te /\ t \in listed /\ t \in 1..created
  <2>1. Inner.te # 0 /\ Inner.te \in listed
    BY <1>1, <1>m DEF WalkInv, Nested, NoFreedTimerReached, Inner
  <2>2. Inner.te \in 1..created
    BY <1>1, <2>1 DEF TypeOK
  <2>3. Inner.te \in Timer
    BY <1>1, <2>1 DEF Walk, Timer
  <2> QED
    BY <2>1, <2>2, <2>3
<1>3. /\ Following(listed, t) \in (listed \ {t}) \union {0}
      /\ Following(listed, t) < t /\ Following(listed, t) \in 0..created
  BY <1>1, <1>2, FollowingIn DEF TypeOK
<1>a. Following(listed, t) \in 0..MaxTimers /\ now \in Nat
  BY <1>1, <1>3, TimersAssumption DEF TypeOK
<1>4. w \in Walk /\ w.te = Following(listed, t) /\ w.inside = "loop" /\ w.maxId = Inner.maxId
  BY <1>1, <1>2, <1>a DEF Walk
<1> HIDE DEF w
<1>5. /\ walks' \in Seq(Walk) /\ Len(walks') = m
      /\ \A i \in 1..m : walks'[i] = IF i = m THEN w ELSE walks[i]
  BY <1>1, <1>2, <1>4, <1>m, MoveFacts DEF Return, w
<1>6. refcount' = [refcount EXCEPT ![t] = @ - 1] /\ listed' = listed /\ created' = created
  BY <1>2 DEF Return, Released
<1>b. refcount \in [Timer -> Int]
  BY <1>1 DEF TypeOK
<1>7. when' \in [Timer -> Nat] /\ deleted' \subseteq 1..created
  <2>1. CASE \E delay \in Delays : when' = [when EXCEPT ![t] = now + delay] /\ UNCHANGED deleted
    <3>1. PICK delay \in Delays : when' = [when EXCEPT ![t] = now + delay]
      BY <2>1
    <3>2. now + delay \in Nat
      BY <1>a, TimersAssumption
    <3> QED
      BY <1>1, <2>1, <3>1, <3>2 DEF TypeOK
  <2>2. CASE deleted' = deleted \union {t} /\ UNCHANGED when
    BY <1>1, <1>2, <2>2 DEF TypeOK
  <2> QED
    BY <1>2, <2>1, <2>2 DEF Return
<1>8. TypeOK'
  <2>1. refcount' \in [Timer -> Int]
    BY <1>b, <1>6
  <2> QED
    BY <1>1, <1>5, <1>6, <1>7, <2>1 DEF Return, TypeOK
<1>9. Nested'
  BY <1>1, <1>4, <1>5, <1>m DEF WalkInv, Nested
<1>10. NoFreedTimerReached'
  BY <1>3, <1>4, <1>5, <1>6, <1>m DEF WalkInv, NoFreedTimerReached
<1>11. NewTimersUnseen'
  <2>1. t <= Inner.maxId
    BY <1>2, <1>m DEF WalkInv, NewTimersUnseen, Inner
  <2>2. w.te <= w.maxId
    BY <1>1, <1>2, <1>3, <1>4, <2>1 DEF Walk
  <2> QED
    BY <1>5, <1>m, <2>2 DEF WalkInv, NewTimersUnseen
<1>12. Runs(t)' = Runs(t) \ {m} /\ m \in Runs(t)
  <2>1. m \in Runs(t)
    BY <1>1, <1>2, <1>m DEF Runs, Inner
  <2>2. \A i : i \in Runs(t)' <=> i \in Runs(t) /\ i # m
    BY <1>4, <1>5, <1>m DEF Runs
  <2> QED
    BY <2>1, <2>2
<1>13. ASSUME NEW u \in Timer, u # t PROVE Runs(u)' = Runs(u)
  BY <1>2, <1>4, <1>5, <1>m, <1>13 DEF Runs, Inner
<1>14. Cardinality(Runs(t)') = Cardinality(Runs(t)) - 1
  BY <1>1, <1>12, RunsFinite, FS_RemoveElement
<1>15. ASSUME NEW u \in Timer PROVE refcount'[u] = Cardinality(Runs(u)')
  <2>1. CASE u = t
    <3>1. refcount'[t] = refcount[t] - 1
      BY <1>b, <1>6
    <3>2. refcount[t] = Cardinality(Runs(t))
      BY <1>2 DEF WalkInv, RefcountExact
    <3>3. refcount'[t] = Cardinality(Runs(t)')
      BY <1>14, <3>1, <3>2
    <3> QED
      BY <2>1, <3>3
  <2>2. CASE u # t
    BY <1>b, <1>6, <1>13, <2>2 DEF WalkInv, RefcountExact
  <2> QED
    BY <2>1, <2>2
<1> QED
  BY <1>8, <1>9, <1>10, <1>11, <1>15 DEF WalkInv, RefcountExact

\* A walk ends at the end of the list.
LEMMA EndWalkKeeps ==
  ASSUME WalkInv, EndWalk
  PROVE  WalkInv'
<1> DEFINE m == Len(walks)
<1>1. TypeOK /\ m \in 1..m /\ Inner.te = 0 /\ Inner.inside = "loop"
  BY InnerIn DEF WalkInv, EndWalk, Nested, Inner
<1>2. /\ walks' \in Seq(Walk) /\ Len(walks') = m - 1
      /\ \A i \in 1..(m - 1) : walks'[i] = walks[i]
  <2>1. walks' = SubSeq(walks, 1, m - 1) /\ walks \in Seq(Walk) /\ m \in Nat
    BY <1>1 DEF EndWalk, TypeOK
  <2>2. m - 1 \in 0..m
    BY <1>1, <2>1
  <2>3. \A i \in 1..(m - 1) : walks[i] \in Walk
    BY <2>1, <2>2
  <2>4. 1 \in Int /\ m - 1 \in Int
    BY <2>1
  <2>5. /\ walks' \in Seq(Walk) /\ Len(walks') = IF 1 <= m - 1 THEN (m - 1) - 1 + 1 ELSE 0
        /\ \A i \in 1..((m - 1) - 1 + 1) : walks'[i] = walks[1 + i - 1]
    BY <2>1, <2>3, <2>4, SubSeqProperties
  <2> HIDE DEF m
  <2> QED
    BY <2>2, <2>5, <2>1
<1>3. UNCHANGED <<timervars, now>>
  BY DEF EndWalk
<1>4. TypeOK'
  BY <1>1, <1>2, <1>3 DEF TypeOK, timervars
<1>5. Nested' /\ NoFreedTimerReached' /\ NewTimersUnseen'
  BY <1>1, <1>2, <1>3 DEF WalkInv, Nested, NoFreedTimerReached, NewTimersUnseen, timervars
<1>6. \A t : Runs(t)' = Runs(t)
  BY <1>1, <1>2 DEF Runs, Inner
<1>7. RefcountExact'
  BY <1>3, <1>6 DEF WalkInv, RefcountExact, timervars
<1> QED
  BY <1>4, <1>5, <1>7 DEF WalkInv

-----------------------------------------------------------------------------
\* The invariant is inductive.
LEMMA WalkStep ==
  ASSUME ~WalksInFinalizer
  PROVE  WalkInv /\ [Next]_vars => WalkInv'
<1> SUFFICES ASSUME WalkInv, [Next]_vars PROVE WalkInv'
  OBVIOUS
<1>1. CASE \E delay \in Delays : CreateTimeEvent(delay)
  BY <1>1, CreateKeeps
<1>2. CASE \E t \in Timer : DeleteTimeEvent(t)
  BY <1>2, DeleteKeeps
<1>3. CASE StartWalk
  BY <1>3, StartWalkKeeps
<1>4. CASE FreeDeleted
  BY <1>4, FreeDeletedKeeps
<1>5. CASE PassOver
  BY <1>5, PassOverKeeps
<1>6. CASE Fire
  BY <1>6, FireKeeps
<1>7. CASE Return
  BY <1>7, ReturnKeeps
<1>8. CASE EndWalk
  BY <1>8, EndWalkKeeps
<1>9. CASE Tick
  BY <1>9, TickKeeps
<1>10. CASE UNCHANGED vars
  BY <1>10, StutterKeeps
<1>11. CASE FinalizerReturns
  BY <1>11, FinalizerReturnsKeeps
<1> QED
  BY <1>11, <1>1, <1>2, <1>3, <1>4, <1>5, <1>6, <1>7, <1>8, <1>9, <1>10 DEF Next

\* The invariant holds in every reachable state.
LEMMA WalkInvariant ==
  ASSUME ~WalksInFinalizer
  PROVE  Spec => []WalkInv
  BY WalkInit, WalkStep, PTL DEF Spec

\* If finalizers do not run the event loop - te->refcount is there "for recursive timerProc
\* calls" only (lines 372-374) - processTimeEvents() never stands on a timer that was freed,
\* however many timers are deleted by timer functions and finalizers and freed by walks
\* inside timer functions.  Without the condition it does: nothing holds the timer that a
\* walk has saved to go on with (line 371) while it is inside a finalizer.
THEOREM TimersNeverDangle ==
  ASSUME ~WalksInFinalizer
  PROVE  Spec => []NoFreedTimerReached
<1>1. WalkInv => NoFreedTimerReached
  BY DEF WalkInv
<1> QED
  BY <1>1, WalkInvariant, PTL

\* "This check is currently useless": the timers a walk meets are older than the walk.
THEOREM MaxIdNeverExceeded ==
  ASSUME ~WalksInFinalizer
  PROVE  Spec => []NewTimersUnseen
<1>1. WalkInv => NewTimersUnseen
  BY DEF WalkInv
<1> QED
  BY <1>1, WalkInvariant, PTL
=============================================================================

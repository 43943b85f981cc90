------------------------------ MODULE AeTimers ------------------------------
(***************************************************************************)
(* Time events of ae_dtoe.c.  The timers are a linked list that            *)
(* processTimeEvents() walks while the functions it calls create timers,   *)
(* delete them, and walk the list themselves.  Nothing but a reference     *)
(* count keeps the timer a walk stands on from being freed by another, and *)
(* nothing at all the one it goes on to after a finalizer.                 *)
(*                                                                         *)
(* New timers go to the head of the list, so a timer is named by the order *)
(* of its creation (its id plus one) and the list is the set of timers in  *)
(* it, from the youngest to the oldest; 0 stands for NULL.                 *)
(***************************************************************************)
EXTENDS Integers, Sequences

CONSTANTS
  MaxTimers,       \* bound: timers created
  MaxDepth,        \* bound: walks inside walks
  MaxTime,         \* bound: the clock
  WalksInFinalizer, \* may a finalizer run the event loop?
  Delays           \* delays of new timers and results of timer functions

ASSUME TimersAssumption ==
  /\ {MaxTimers, MaxDepth, MaxTime} \subseteq Nat
  /\ Delays \subseteq Nat
  /\ WalksInFinalizer \in BOOLEAN

VARIABLES
  created,         \* timeEventNextId
  listed,          \* the timers in the list
  deleted,         \* those whose id is AE_DELETED_EVENT_ID
  refcount,
  when,
  now,             \* the monotonic clock
  walks            \* the walks under way, innermost last: the timer te a walk stands
                   \* on, its maxId and now, and what it is inside: its own "loop",
                   \* the function of te ("timer"), or the "finalizer" of a timer just
                   \* unlinked, te being the one saved to go on with

timervars == <<created, listed, deleted, refcount, when>>
vars == <<timervars, now, walks>>

Timer == 1..MaxTimers
Walk == [te : 0..MaxTimers, maxId : 0..MaxTimers, now : Nat,
         inside : {"loop", "timer", "finalizer"}]

\* m is the youngest of the timers in S, or 0 when there is none.
Youngest(S) == IF S = {} THEN 0 ELSE CHOOSE t \in S : \A u \in S : u <= t

\* (variant: new timers at the tail)
FollowingYounger(S, t) ==
  LET younger == {u \in S : u > t} IN
  IF younger = {} THEN 0 ELSE CHOOSE u \in younger : \A v \in younger : u <= v

\* te->next.
Following(S, t) == Youngest({u \in S : u < t})

Inner == walks[Len(walks)]
Move(w) == walks' = [walks EXCEPT ![Len(walks)] = w]

\* A function of the program runs: the body of the loop, or the innermost timer's, or a
\* finalizer.
ProgramRuns == walks # <<>> => Inner.inside # "loop"

\* The innermost walk is about to look at a timer.
Walking == walks # <<>> /\ Inner.inside = "loop" /\ Inner.te # 0

-----------------------------------------------------------------------------
(* What the program may do at any time. *)

CreateTimeEvent(delay) ==
  /\ ProgramRuns /\ created < MaxTimers
  /\ created' = created + 1
  /\ listed' = listed \union {created + 1}
  /\ when' = [when EXCEPT ![created + 1] = now + delay]
  /\ UNCHANGED <<deleted, refcount, now, walks>>

DeleteTimeEvent(t) ==
  /\ ProgramRuns /\ t \in listed \ deleted
  /\ deleted' = deleted \union {t}
  /\ UNCHANGED <<created, listed, refcount, when, now, walks>>

\* processTimeEvents() begins.
StartWalk ==
  /\ ProgramRuns /\ Len(walks) < MaxDepth
  /\ walks # <<>> /\ Inner.inside = "finalizer" => WalksInFinalizer
  /\ walks' = Append(walks, [te |-> Youngest(listed), maxId |-> created, now |-> now,
                             inside |-> "loop"])
  /\ UNCHANGED <<timervars, now>>

-----------------------------------------------------------------------------
(* One round of the loop in processTimeEvents(). *)

\* (variant: the reference count is not looked at)
DeletedFreeable(t) == t \in deleted

\* A deleted timer goes when no walk is inside its function.
Freeable(t) == t \in deleted /\ refcount[t] = 0

\* It is unlinked, and its finalizer is called if it has one; the walk has saved where it
\* will go on (lines 371-390).
FreeDeleted ==
  /\ Walking /\ Freeable(Inner.te)
  /\ listed' = listed \ {Inner.te}
  /\ \E next \in {"loop", "finalizer"} :
       Move([Inner EXCEPT !.te = Following(listed, Inner.te), !.inside = next])
  /\ UNCHANGED <<created, deleted, refcount, when, now>>

FinalizerReturns ==
  /\ walks # <<>> /\ Inner.inside = "finalizer"
  /\ Move([Inner EXCEPT !.inside = "loop", !.now = now])
  /\ UNCHANGED <<timervars, now>>

\* (variant: maxId is off by one)
DueOlder(w) == w.te < w.maxId /\ when[w.te] <= w.now

Due(w) == w.te <= w.maxId /\ when[w.te] <= w.now

\* A deleted timer that is still referenced, a new one, or one that is not due.
PassOver ==
  /\ Walking
  /\ IF Inner.te \in deleted THEN ~Freeable(Inner.te) ELSE ~Due(Inner)
  /\ Move([Inner EXCEPT !.te = Following(listed, Inner.te)])
  /\ UNCHANGED <<timervars, now>>

Fire ==
  /\ Walking /\ Inner.te \notin deleted /\ Due(Inner)
  /\ refcount' = [refcount EXCEPT ![Inner.te] = @ + 1]
  /\ Move([Inner EXCEPT !.inside = "timer"])
  /\ UNCHANGED <<created, listed, deleted, when, now>>

\* (variant: te->refcount-- only for timers that are fired again)
ReleasedUnlessDeleted(t) == [refcount EXCEPT ![t] = IF t \in deleted THEN @ ELSE @ - 1]

Released(t) == [refcount EXCEPT ![t] = @ - 1]

\* The timer's function returns a delay or AE_NOMORE.
Return ==
  /\ walks # <<>> /\ Inner.inside = "timer"
  /\ refcount' = Released(Inner.te)
  /\ \/ \E delay \in Delays : when' = [when EXCEPT ![Inner.te] = now + delay]
        /\ UNCHANGED deleted
     \/ deleted' = deleted \union {Inner.te}
        /\ UNCHANGED when
  /\ Move([Inner EXCEPT !.inside = "loop", !.now = now, !.te = Following(listed, Inner.te)])
  /\ UNCHANGED <<created, listed, now>>

EndWalk ==
  /\ walks # <<>> /\ Inner.inside = "loop" /\ Inner.te = 0
  /\ walks' = SubSeq(walks, 1, Len(walks) - 1)
  /\ UNCHANGED <<timervars, now>>

Tick ==
  /\ now < MaxTime
  /\ now' = now + 1
  /\ UNCHANGED <<timervars, walks>>

-----------------------------------------------------------------------------
Init ==
  /\ created = 0 /\ listed = {} /\ deleted = {}
  /\ refcount = [t \in Timer |-> 0] /\ when = [t \in Timer |-> 0]
  /\ now = 0 /\ walks = <<>>

Next ==
  \/ \E delay \in Delays : CreateTimeEvent(delay)
  \/ \E t \in Timer : DeleteTimeEvent(t)
  \/ StartWalk
  \/ FreeDeleted
  \/ FinalizerReturns
  \/ PassOver
  \/ Fire
  \/ Return
  \/ EndWalk
  \/ Tick

Spec == Init /\ [][Next]_vars

\* aeMain() never stops walking, and every timer function or finalizer returns after as
\* many walks of its own as it likes.
Fairness ==
  /\ WF_vars(StartWalk /\ walks = <<>>)
  /\ WF_vars(FreeDeleted \/ PassOver \/ Fire \/ EndWalk)
  /\ \A depth \in 1..MaxDepth : SF_vars((Return \/ FinalizerReturns) /\ Len(walks) = depth)

FairSpec == Spec /\ Fairness

-----------------------------------------------------------------------------
(* Properties. *)

\* The values every variable takes.
TypeOK ==
  /\ created \in 0..MaxTimers
  /\ listed \subseteq 1..created /\ deleted \subseteq 1..created
  /\ refcount \in [Timer -> Int] /\ when \in [Timer -> Nat]
  /\ now \in Nat
  /\ walks \in Seq(Walk)

\* The timer a walk stands on is in the list, however many walks inside its function
\* deleted timers and freed them: te->refcount, te->when and te->next are read after the
\* function returned (lines 410-419), and this memory must still be the timer's.  Nor does
\* a walk go on to a timer that the finalizer before it deleted and a walk freed.
NoFreedTimerReached ==
  \A i \in 1..Len(walks) : walks[i].te # 0 => walks[i].te \in listed

\* "Note that this check is currently useless" (line 395): a walk never meets a timer
\* that was created after it began, also when timers are created inside inner walks.
NewTimersUnseen ==
  \A i \in 1..Len(walks) : walks[i].te <= walks[i].maxId

\* A timer that is due is fired, whatever other timers delete, create or walk; unless
\* it is deleted first.
DueTimerFires ==
  \A t \in Timer :
    (t \in listed \ deleted /\ when[t] <= now)
      ~> (t \in deleted \/ \E i \in 1..Len(walks) : walks[i].inside = "timer" /\ walks[i].te = t)

\* A deleted timer is freed in the end: inner walks pass over those that are referenced,
\* and a later walk must find them with the count back at zero.
DeletedTimerFreed == \A t \in Timer : t \in deleted ~> t \notin listed
=============================================================================

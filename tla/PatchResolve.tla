---------------------------- MODULE PatchResolve ----------------------------
(***************************************************************************)
(* How tools/apply_patch.sh chooses and orders the features whose patches  *)
(* it applies.  A feature is a number, in lexical order of the directory   *)
(* names; 0 is a name without a directory.  depends and conflicts are what *)
(* the manifest says: the sequence of names that each feature in its       *)
(* domain depends on, and the set of names each feature conflicts with.    *)
(***************************************************************************)
EXTENDS Integers, Sequences, SequencesExt

CONSTANT Features        \* number of feature directories with a patch

ASSUME FeaturesAssumption == Features \in Nat \ {0}

Feature == 1..Features
Name == 0..Features

\* depends.get(name, [])
Deps(depends, name) == IF name \in DOMAIN depends THEN depends[name] ELSE <<>>

\* How far the resolution is: what is resolved so far, in order, and whether a cycle was
\* found, which ends the program.
State == [resolved : Seq(Name), outcome : {"ok", "cycle"}]

\* A call of resolve(): the names of the callers are those in the stack.
Call == [name : Name, stack : SUBSET Name, st : State]
CallOf(name, stack, st) == [name |-> name, stack |-> stack, st |-> st]

Resolved(st, name) == Contains(st.resolved, name)

\* (variant: only the direct dependencies come first)
VisitFlat(depends, resolve, c) ==
  IF Resolved(c.st, c.name) THEN c.st
  ELSE LET missing == SelectSeq(Deps(depends, c.name), LAMBDA d : ~Resolved(c.st, d)) IN
       [c.st EXCEPT !.resolved = @ \o missing \o <<c.name>>]

\* resolve(name, stack), with resolve for the calls it makes.
Visit(depends, resolve, c) ==
  LET deep == FoldLeft(LAMBDA st, dep : resolve[CallOf(dep, c.stack \union {c.name}, st)],
                       c.st, Deps(depends, c.name)) IN
  IF c.st.outcome = "cycle" \/ Resolved(c.st, c.name) THEN c.st
  ELSE IF c.name \in c.stack THEN [c.st EXCEPT !.outcome = "cycle"]
  ELSE IF deep.outcome = "cycle" THEN deep
  ELSE [deep EXCEPT !.resolved = Append(@, c.name)]

Resolve(depends, name, st) ==
  LET resolve[c \in Call] == Visit(depends, resolve, c) IN resolve[CallOf(name, {}, st)]

\* for a in active: if a in depends: resolve(a)
ResolveActive(depends, active) ==
  FoldLeft(LAMBDA st, a : IF a \in DOMAIN depends THEN Resolve(depends, a, st) ELSE st,
           [resolved |-> <<>>, outcome |-> "ok"], active)

\* The requested features, or all of them.
Active(request) == IF request = <<>> THEN [f \in Feature |-> f] ELSE request

\* for d in sorted(version_dir.iterdir()): if d.name not in seen: append it
WithOthers(resolved) ==
  FoldLeft(LAMBDA r, f : IF Contains(r, f) THEN r ELSE Append(r, f),
           resolved, [f \in Feature |-> f])

\* A manifest with depends: the requested features with their dependencies, then every
\* other feature there is, requested or not.
WithDepends(depends, request) ==
  LET st == ResolveActive(depends, Active(request)) IN
  IF st.outcome = "cycle" THEN <<"cycle", <<>>>> ELSE <<"ok", WithOthers(st.resolved)>>

\* A manifest without: what was asked for, in that order.
WithoutDepends(request) ==
  IF Contains(request, 0) THEN <<"unknown", <<>>>> ELSE <<"ok", Active(request)>>

\* The check for conflicts, each feature against all.
Conflict(conflicts, chosen) ==
  \E i, j \in DOMAIN chosen : chosen[j] \in conflicts[chosen[i]]

\* The outcome and the series of features to apply.
Series(depends, conflicts, request) ==
  LET answer == IF DOMAIN depends # {} THEN WithDepends(depends, request)
                ELSE WithoutDepends(request) IN
  IF answer[1] = "ok" /\ Conflict(conflicts, answer[2]) THEN <<"conflict", <<>>>> ELSE answer

-----------------------------------------------------------------------------
(* The reference. *)

Edges(depends) == {e \in Name \X Name : Contains(Deps(depends, e[1]), e[2])}

\* What is reachable from the names in S, themselves included: the least set with all that
\* its members depend on.
Closed(depends, T) == \A e \in Edges(depends) : e[1] \in T => e[2] \in T

Reachable(depends, S) ==
  LET closed == {T \in SUBSET Name : S \subseteq T /\ Closed(depends, T)} IN
  {b \in Name : \A T \in closed : b \in T}

After(depends, a) == {b \in Name : <<a, b>> \in Edges(depends)}
OnCycle(depends, a) == a \in Reachable(depends, After(depends, a))

Comes(s, a) == CHOOSE i \in DOMAIN s : s[i] = a

\* A series is refused for a cycle exactly if a feature asked for leads into one; every
\* feature asked for comes after all it needs, once; no two of the series conflict; and
\* without depends the series holds what was asked for and nothing else.  With depends it
\* should, too, hold nothing that was not asked for and is not needed (lines 11-12), but
\* WithOthers appends all the rest: of that nothing is claimed here.
InOrder(depends, conflicts, request) ==
  LET asked == ToSet(Active(request))
      needed == Reachable(depends, asked)
      s == Series(depends, conflicts, request)
      series == s[2] IN
  /\ s[1] = "cycle" <=> \E a \in needed : OnCycle(depends, a)
  /\ s[1] = "ok" =>
       /\ IsInjective(series) \/ DOMAIN depends = {}
       /\ needed \subseteq ToSet(series) \union {0}
       /\ DOMAIN depends = {} => ToSet(series) = asked
       /\ \A a \in needed \intersect ToSet(series), b \in ToSet(series) :
            <<a, b>> \in Edges(depends) => Comes(series, b) < Comes(series, a)
       /\ \A a, b \in ToSet(series) : b \notin conflicts[a]
=============================================================================

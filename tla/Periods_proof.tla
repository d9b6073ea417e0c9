---------------------------- MODULE Periods_proof ---------------------------
(***************************************************************************)
(* The periods, for any tree of definitions, any names, expressions and    *)
(* dates, any refresh period and trace: what the engine keeps of them,     *)
(* which events begin and end them, what the analysis does at their ends,  *)
(* what the statistics have of them.                                       *)
(***************************************************************************)
EXTENDS PeriodStats, PeriodMatching, DataTheorems

-----------------------------------------------------------------------------
(* The period engine, for any order of the walks.                          *)

\* The path of a period is its parent's, and one instance more.
LEMMA ParentPath ==
    ASSUME NEW p \in Paths, p # Root
    PROVE  /\ Parent(p) \in Paths
           /\ Len(p) \in Nat \ {0}
           /\ Len(Parent(p)) = Len(p) - 1
           /\ \A i \in 1 .. Len(p) - 1 : Parent(p)[i] = p[i]
           /\ Last(p) \in Instances
<1>1. p \in Seq(Instances) /\ Len(p) \in Nat \ {0}
  BY DEF Paths, Root
<1>2. Last(p) \in Instances
  BY <1>1 DEF Last
<1>3. /\ Len(p) - 1 \in Nat
      /\ Parent(p) = SubSeq(p, 1, Len(p) - 1)
  BY <1>1 DEF Parent, Front
<1>4. /\ SubSeq(p, 1, Len(p) - 1) \in Seq(Instances)
      /\ Len(SubSeq(p, 1, Len(p) - 1)) = Len(p) - 1
      /\ \A i \in 1 .. Len(p) - 1 : SubSeq(p, 1, Len(p) - 1)[i] = p[i]
  <2>1. \A i \in 1 .. Len(p) - 1 : p[i] \in Instances
    BY <1>1
  <2> DEFINE n == Len(p) - 1
  <2>2. n \in Int /\ 1 \in Int /\ n \in Nat
    BY <1>3
  <2> HIDE DEF n
  <2>3. /\ SubSeq(p, 1, n) \in Seq(Instances)
        /\ Len(SubSeq(p, 1, n)) = IF 1 <= n THEN n - 1 + 1 ELSE 0
        /\ \A i \in 1 .. n - 1 + 1 : SubSeq(p, 1, n)[i] = p[1 + i - 1]
    BY <2>1, <2>2, SubSeqProperties DEF n
  <2>4. Len(SubSeq(p, 1, n)) = n /\ \A i \in 1 .. n : SubSeq(p, 1, n)[i] = p[i]
    BY <2>2, <2>3
  <2> QED BY <2>3, <2>4 DEF n
<1> QED BY <1>1, <1>2, <1>3, <1>4 DEF Paths

\* The path of a child: its parent's path and itself.
LEMMA ChildPath ==
    ASSUME NEW p \in Paths, NEW x \in Instances
    PROVE  /\ Append(p, x) \in Paths
           /\ Append(p, x) # Root
           /\ Parent(Append(p, x)) = p
           /\ Last(Append(p, x)) = x
<1>1. p \in Seq(Instances)
  BY DEF Paths
<1>2. /\ Append(p, x) \in Seq(Instances)
      /\ Len(Append(p, x)) = Len(p) + 1
      /\ Len(p) \in Nat
      /\ Append(p, x)[Len(p) + 1] = x
      /\ \A i \in 1 .. Len(p) : Append(p, x)[i] = p[i]
  BY <1>1
<1>3. Append(p, x) # Root
  BY <1>2 DEF Root
<1>4. Parent(Append(p, x)) = p
  BY <1>1, <1>2 DEF Parent, Front
<1> QED BY <1>2, <1>3, <1>4 DEF Last, Paths

\* Prefixes, element by element.
LEMMA PrefixPath ==
    ASSUME NEW m \in Paths, NEW p \in Paths
    PROVE  IsPrefix(m, p) <=> /\ Len(m) <= Len(p)
                              /\ \A i \in 1 .. Len(m) : m[i] = p[i]
<1>1. m \in Seq(Instances) /\ p \in Seq(Instances)
  BY DEF Paths
<1> QED BY <1>1 DEF IsPrefix

\* What is above a period is the period, or above its parent.
LEMMA PrefixOfParent ==
    ASSUME NEW m \in Paths, NEW p \in Paths, p # Root
    PROVE  /\ IsPrefix(m, Parent(p)) => IsPrefix(m, p)
           /\ IsPrefix(m, p) /\ m # p => IsPrefix(m, Parent(p))
<1>1. /\ m \in Seq(Instances) /\ p \in Seq(Instances)
      /\ Len(m) \in Nat /\ Len(p) \in Nat
  BY DEF Paths
<1>2. Parent(p) \in Paths
  BY ParentPath
<1>3. ASSUME IsPrefix(m, Parent(p)) PROVE IsPrefix(m, p)
  BY <1>1, <1>2, <1>3, ParentPath, PrefixPath
<1>4. ASSUME IsPrefix(m, p), m # p PROVE IsPrefix(m, Parent(p))
  <2>1. Len(m) <= Len(p) /\ \A i \in 1 .. Len(m) : m[i] = p[i]
    BY <1>4, PrefixPath
  <2>2. Len(m) # Len(p)
    BY <1>1, <1>4, <2>1
  <2>3. Len(m) <= Len(Parent(p))
    BY <1>1, <2>1, <2>2, ParentPath
  <2>4. \A i \in 1 .. Len(m) : m[i] = Parent(p)[i]
    BY <1>1, <2>1, <2>3, ParentPath
  <2> QED BY <1>2, <2>3, <2>4, PrefixPath
<1> QED BY <1>3, <1>4

\* A path is a prefix of itself.
LEMMA PrefixSelf ==
    ASSUME NEW p \in Paths PROVE IsPrefix(p, p)
<1>1. p \in Seq(Instances) /\ Len(p) \in Nat
  BY DEF Paths
<1> QED BY <1>1 DEF IsPrefix

-----------------------------------------------------------------------------
\* What the engine says of a period that ended.
Records == [period : Paths, end : Nat \cup {NoEvent}, completed : BOOLEAN]

\* The types, and that periods die during the two removals only.
Typed ==
    /\ periods \subseteq Paths
    /\ Root \notin periods
    /\ evt \in Nat
    /\ phase \in {"idle", "end", "begin", "remove", "done"}
    /\ matched \subseteq Paths
    /\ dying \subseteq periods
    /\ ended \subseteq Records
    /\ phase \notin {"end", "remove"} => dying = {}

\* A period that the current event ends is matched, or goes with its parent.
DyingHasReason ==
    phase = "end" => \A p \in dying : p \in matched \/ Parent(p) \in dying

\* Where the open periods begin.
BeginsInOrder ==
    \A p \in periods :
        /\ BeginOf(p) <= evt
        /\ phase = "end" => BeginOf(p) < evt
        /\ Parent(p) # Root => BeginOf(Parent(p)) <= BeginOf(p)

\* What is known of a period that ended.
Ended(r) ==
    /\ r.period # Root
    /\ r.period \notin periods
    /\ phase \notin {"remove", "done"} => r.end # NoEvent
    /\ r.end # NoEvent => BeginOf(r.period) < r.end /\ r.end <= evt
    /\ Parent(r.period) # Root => BeginOf(Parent(r.period)) <= BeginOf(r.period)

\* An ended period of which the parent ended too, and later or at once.
Nested(r, q) ==
    q.period = Parent(r.period) /\ q.end # NoEvent
        => r.end # NoEvent /\ r.end <= q.end

\* The parent of an aborted period ended at the same event, or is about to.
WithParent(r) ==
    ~r.completed /\ r.end # NoEvent =>
        \/ \E q \in ended : q.period = Parent(r.period) /\ q.end = r.end
        \/ phase = "end" /\ r.end = evt /\ Parent(r.period) \in dying

\* The inductive invariant.
EngineInv ==
    /\ Typed
    /\ ParentIsOpen
    /\ DyingIsClosed
    /\ DyingHasReason
    /\ BeginsInOrder
    /\ \A r \in ended : Ended(r) /\ WithParent(r)
    /\ \A r, q \in ended : Nested(r, q)

\* No period is open before the first event.
LEMMA InitInv == EngineInit => EngineInv
BY DEF EngineInit, EngineInv, Typed, ParentIsOpen, DyingIsClosed,
       DyingHasReason, BeginsInOrder, Paths

\* A period other than the root began at an event.
LEMMA BeginIsNat == ASSUME NEW p \in Paths, p # Root PROVE BeginOf(p) \in Nat
BY ParentPath DEF BeginOf, Instances

\* A handler that leaves the periods alone and moves between two phases in
\* which none is dying.
LEMMA IdleInv ==
    ASSUME EngineInv, dying = {}, phase' \in {"idle", "begin", "remove", "done"},
           phase \in {"remove", "done"} => phase' \in {"remove", "done"},
           UNCHANGED <<periods, ended>>, matched' \subseteq Paths,
           evt' = evt, dying' \subseteq periods,
           phase' # "remove" => dying' = {},
           \A p \in periods : Parent(p) \in dying' => p \in dying'
    PROVE  EngineInv'
<1>1. Typed' /\ ParentIsOpen' /\ DyingIsClosed' /\ DyingHasReason'
  BY DEF EngineInv, Typed, ParentIsOpen, DyingIsClosed, DyingHasReason
<1>2. BeginsInOrder'
  BY DEF EngineInv, BeginsInOrder
<1>3. ASSUME NEW r \in ended PROVE Ended(r)' /\ WithParent(r)'
  <2>1. Ended(r) /\ WithParent(r)
    BY DEF EngineInv
  <2> QED BY <2>1 DEF Ended, WithParent
<1>4. ASSUME NEW r \in ended, NEW q \in ended PROVE Nested(r, q)'
  BY DEF EngineInv, Nested
<1> QED BY <1>1, <1>2, <1>3, <1>4 DEF EngineInv

\* A period is dying because it matched, or because its parent is dying.
LEMMA ProcessEventInv ==
    ASSUME EngineInv, NEW M \in SUBSET periods, ProcessEvent(M)
    PROVE  EngineInv'
<1> USE DEF EngineInv, ProcessEvent
<1>1. /\ periods \subseteq Paths /\ Root \notin periods /\ evt \in Nat
      /\ evt' = evt + 1 /\ M \subseteq periods
  BY DEF Typed
<1>2. Typed' /\ ParentIsOpen'
  BY <1>1 DEF Typed, ParentIsOpen, Doomed
<1>3. DyingIsClosed'
  <2> SUFFICES ASSUME NEW p \in periods, Parent(p) \in Doomed(M)
               PROVE  p \in Doomed(M)
    BY DEF DyingIsClosed
  <2>1. PICK m \in M : IsPrefix(m, Parent(p))
    BY DEF Doomed
  <2>2. IsPrefix(m, p)
    BY <1>1, <2>1, PrefixOfParent
  <2> QED BY <2>2 DEF Doomed
<1>4. DyingHasReason'
  <2> SUFFICES ASSUME NEW p \in Doomed(M), p \notin M
               PROVE  Parent(p) \in Doomed(M)
    BY DEF DyingHasReason
  <2>1. PICK m \in M : p \in periods /\ IsPrefix(m, p)
    BY DEF Doomed
  <2>2. IsPrefix(m, Parent(p))
    BY <1>1, <2>1, PrefixOfParent
  <2>3. Parent(p) # Root
    <3>1. /\ m \in Paths /\ m # Root /\ Parent(p) \in Paths
      BY <1>1, <2>1, ParentPath
    <3>2. Len(m) \in Nat \ {0} /\ Len(m) <= Len(Parent(p))
      BY <2>2, <3>1, ParentPath, PrefixPath
    <3> QED BY <3>2 DEF Root
  <2>4. Parent(p) \in periods
    BY <2>1, <2>3 DEF ParentIsOpen
  <2> QED BY <2>2, <2>4 DEF Doomed
<1>5. BeginsInOrder'
  <2>1. ASSUME NEW p \in periods PROVE BeginOf(p) \in Nat /\ BeginOf(p) <= evt
    BY <1>1, <2>1, BeginIsNat DEF BeginsInOrder
  <2>2. ASSUME NEW p \in periods PROVE BeginOf(p) < evt'
    BY <1>1, <2>1
  <2> QED BY <1>1, <2>1, <2>2 DEF BeginsInOrder
<1>6. ASSUME NEW r \in ended PROVE Ended(r)' /\ WithParent(r)'
  <2>1. r.end \in Nat /\ r.end <= evt /\ Ended(r) /\ WithParent(r)
    BY DEF Typed, Records, Ended
  <2> QED BY <1>1, <2>1 DEF Ended, WithParent
<1>7. ASSUME NEW r \in ended, NEW q \in ended PROVE Nested(r, q)'
  BY DEF Nested
<1> QED BY <1>2, <1>3, <1>4, <1>5, <1>6, <1>7

\* An event that is not passed on changes nothing but the time.
LEMMA SkipEventInv ==
    ASSUME EngineInv, SkipEvent
    PROVE  EngineInv'
<1> USE DEF EngineInv, SkipEvent
<1>1. /\ periods \subseteq Paths /\ Root \notin periods /\ evt \in Nat
      /\ evt' = evt + 1 /\ phase = "idle" /\ phase' = "idle"
  BY DEF Typed
<1>2. Typed' /\ ParentIsOpen' /\ DyingIsClosed' /\ DyingHasReason'
  BY <1>1 DEF Typed, ParentIsOpen, DyingIsClosed, DyingHasReason
<1>3. BeginsInOrder'
  <2>1. ASSUME NEW p \in periods PROVE BeginOf(p) \in Nat /\ BeginOf(p) <= evt
    BY <1>1, <2>1, BeginIsNat DEF BeginsInOrder
  <2>2. ASSUME NEW p \in periods PROVE BeginOf(p) <= evt'
    BY <1>1, <2>1
  <2> QED BY <1>1, <2>1, <2>2 DEF BeginsInOrder
<1>4. ASSUME NEW r \in ended PROVE Ended(r)' /\ WithParent(r)'
  <2>1. r.end \in Nat /\ r.end <= evt /\ Ended(r) /\ WithParent(r)
    BY <1>1 DEF Typed, Records, Ended
  <2> QED BY <1>1, <2>1 DEF Ended, WithParent
<1>5. ASSUME NEW r \in ended, NEW q \in ended PROVE Nested(r, q)'
  BY DEF Nested
<1> QED BY <1>2, <1>3, <1>4, <1>5

\* A leaf ends: its record nests with those of its children, already ended.
LEMMA EndPeriodInv ==
    ASSUME EngineInv, NEW p \in dying, EndPeriod(p)
    PROVE  EngineInv'
<1> DEFINE e == IF phase = "end" THEN evt ELSE NoEvent
           r0 == [period |-> p, end |-> e, completed |-> p \in matched]
<1>1. /\ Typed /\ ParentIsOpen /\ DyingIsClosed /\ DyingHasReason
      /\ BeginsInOrder
  BY DEF EngineInv
<1>2. /\ phase \in {"end", "remove"} /\ IsLeaf(p)
      /\ periods' = periods \ {p} /\ dying' = dying \ {p}
      /\ ended' = ended \cup {r0}
      /\ UNCHANGED <<evt, phase, matched>>
  BY DEF EndPeriod
<1>3. /\ p \in periods /\ p \in Paths /\ p # Root /\ evt \in Nat
      /\ \A q \in periods : Parent(q) # p
  BY <1>1, <1>2 DEF Typed, IsLeaf
<1>4. /\ r0.period = p /\ r0.end = e /\ r0.completed = (p \in matched)
      /\ e \in Nat \cup {NoEvent} /\ r0 \in Records
  BY <1>3 DEF Records
<1>5. phase = "end" => e = evt /\ e # NoEvent
  BY <1>3, NoEventAssumption
<1>6. e # NoEvent => phase = "end"
  OBVIOUS
<1> HIDE DEF r0, e
<1>7. Typed'
  BY <1>1, <1>2, <1>4 DEF Typed
<1>8. ParentIsOpen' /\ DyingIsClosed' /\ DyingHasReason' /\ BeginsInOrder'
  <2>1. ParentIsOpen'
    BY <1>1, <1>2, <1>3 DEF ParentIsOpen
  <2>2. DyingIsClosed'
    BY <1>1, <1>2 DEF DyingIsClosed
  <2>3. DyingHasReason'
    BY <1>1, <1>2, <1>3 DEF DyingHasReason, Typed
  <2>4. BeginsInOrder'
    BY <1>1, <1>2 DEF BeginsInOrder
  <2> QED BY <2>1, <2>2, <2>3, <2>4
<1>9. ASSUME NEW r \in ended' PROVE Ended(r)'
  <2>1. CASE r \in ended
    BY <1>2, <2>1 DEF EngineInv, Ended
  <2>2. CASE r = r0
    <3>1. p # Root /\ p \notin periods'
      BY <1>2, <1>3
    <3>2. e # NoEvent => BeginOf(p) < e /\ e <= evt
      BY <1>1, <1>3, <1>5, <1>6 DEF BeginsInOrder
    <3>3. Parent(p) # Root => BeginOf(Parent(p)) <= BeginOf(p)
      BY <1>1, <1>3 DEF BeginsInOrder
    <3> QED BY <1>2, <1>4, <1>5, <2>2, <3>1, <3>2, <3>3 DEF Ended
  <2> QED BY <1>2, <2>1, <2>2
<1>10. ASSUME NEW r \in ended' PROVE WithParent(r)'
  <2>1. CASE r \in ended
    <3> SUFFICES ASSUME ~r.completed, r.end # NoEvent
                 PROVE  \/ \E q \in ended' : q.period = Parent(r.period) /\ q.end = r.end
                        \/ phase' = "end" /\ r.end = evt' /\ Parent(r.period) \in dying'
      BY DEF WithParent
    <3>1. \/ \E q \in ended : q.period = Parent(r.period) /\ q.end = r.end
          \/ phase = "end" /\ r.end = evt /\ Parent(r.period) \in dying
      BY <2>1 DEF EngineInv, WithParent
    <3>2. CASE \E q \in ended : q.period = Parent(r.period) /\ q.end = r.end
      BY <1>2, <3>2
    <3>3. CASE phase = "end" /\ r.end = evt /\ Parent(r.period) = p
      BY <1>2, <1>4, <1>5, <3>3
    <3>4. CASE phase = "end" /\ r.end = evt /\ Parent(r.period) \in dying \ {p}
      BY <1>2, <3>4
    <3> QED BY <3>1, <3>2, <3>3, <3>4
  <2>2. CASE r = r0
    <3> SUFFICES ASSUME p \notin matched, phase = "end"
                 PROVE  Parent(p) \in dying \ {p}
      BY <1>2, <1>4, <1>5, <1>6, <2>2 DEF WithParent
    <3>1. Parent(p) \in dying
      BY <1>1 DEF DyingHasReason
    <3> QED BY <1>3, <3>1
  <2> QED BY <1>2, <2>1, <2>2
<1>11. ASSUME NEW r \in ended', NEW q \in ended' PROVE Nested(r, q)'
  <2>1. CASE r \in ended /\ q \in ended
    BY <2>1 DEF EngineInv, Nested
  <2>2. CASE r \in ended /\ q = r0
    <3>1. Ended(r)
      BY <2>2 DEF EngineInv
    <3>2. phase = "end" => r.end # NoEvent /\ r.end <= evt
      BY <3>1 DEF Ended
    <3> QED BY <1>4, <1>5, <1>6, <2>2, <3>2 DEF Nested
  <2>3. CASE r = r0 /\ q \in ended
    <3>1. q.period # Root /\ q.period \notin periods
      BY <2>3 DEF EngineInv, Ended
    <3>2. Parent(p) \in periods \cup {Root}
      BY <1>1, <1>3 DEF ParentIsOpen
    <3> QED BY <1>4, <2>3, <3>1, <3>2 DEF Nested
  <2>4. CASE r = r0 /\ q = r0
    BY <1>3, <1>4, <2>4 DEF Nested
  <2> QED BY <1>2, <2>1, <2>2, <2>3, <2>4
<1> QED BY <1>7, <1>8, <1>9, <1>10, <1>11 DEF EngineInv

\* The new period is not one that ended: those began at an earlier event.
LEMMA NewPeriod ==
    ASSUME EngineInv, NEW d \in Defs, NEW p \in periods \cup {Root},
           BeginPeriod(d, p)
    PROVE  LET n == Append(p, [def |-> d, begin |-> evt])
           IN  /\ n \in Paths /\ n # Root /\ n \notin periods
               /\ Parent(n) = p /\ DefOf(n) = d /\ BeginOf(n) = evt
               /\ periods' = periods \cup {n}
               /\ \A r \in ended : r.period # n
<1> DEFINE x == [def |-> d, begin |-> evt]
           n == Append(p, x)
<1>1. Typed /\ phase = "begin"
  BY DEF EngineInv, BeginPeriod
<1>2. p \in Paths /\ x \in Instances /\ x.def = d /\ x.begin = evt
  <2>1. p \in Paths
    <3>1. Root \in Seq(Instances)
      BY DEF Root
    <3>2. periods \subseteq Paths
      BY <1>1 DEF Typed
    <3> QED BY <3>1, <3>2 DEF Paths
  <2>2. evt \in Nat
    BY <1>1 DEF Typed
  <2>3. x \in Instances /\ x.def = d /\ x.begin = evt
    BY <2>2 DEF Instances
  <2> QED BY <2>1, <2>3
<1>3. n \in Paths /\ n # Root /\ Parent(n) = p /\ Last(n) = x
  BY <1>2, ChildPath
<1>4. n \notin periods /\ periods' = periods \cup {n}
  BY DEF BeginPeriod
<1> HIDE DEF n
<1>5. DefOf(n) = d /\ BeginOf(n) = evt
  BY <1>2, <1>3 DEF DefOf, BeginOf
<1>6. ASSUME NEW r \in ended PROVE r.period # n
  <2>1. Ended(r) /\ r \in Records
    BY <1>1 DEF EngineInv, Typed
  <2>2. /\ r.end \in Nat /\ BeginOf(r.period) < r.end /\ r.end <= evt
        /\ r.period \in Paths /\ r.period # Root
    BY <1>1, <2>1 DEF Ended, Records
  <2>3. BeginOf(r.period) \in Nat
    BY <2>2, BeginIsNat
  <2> QED BY <1>1, <1>5, <2>2, <2>3 DEF Typed
<1> QED BY <1>3, <1>4, <1>5, <1>6 DEF n

\* A period begins at the present event, under one that is open.
LEMMA BeginPeriodInv ==
    ASSUME EngineInv, NEW d \in Defs, NEW p \in periods \cup {Root},
           BeginPeriod(d, p)
    PROVE  EngineInv'
<1> DEFINE n == Append(p, [def |-> d, begin |-> evt])
<1>1. /\ n \in Paths /\ n # Root /\ n \notin periods
      /\ Parent(n) = p /\ DefOf(n) = d /\ BeginOf(n) = evt
      /\ periods' = periods \cup {n}
      /\ \A r \in ended : r.period # n
  BY NewPeriod
<1> HIDE DEF n
<1>2. /\ phase = "begin" /\ ParentDef[d] = DefOf(p)
      /\ UNCHANGED <<evt, phase, matched, dying, ended>>
  BY DEF BeginPeriod
<1>3. /\ Typed /\ ParentIsOpen /\ DyingIsClosed /\ BeginsInOrder
      /\ dying = {} /\ evt \in Nat
  BY <1>2 DEF EngineInv, Typed
<1>4. Typed' /\ DyingIsClosed' /\ DyingHasReason'
  BY <1>1, <1>2, <1>3 DEF Typed, DyingIsClosed, DyingHasReason
<1>5. ParentIsOpen'
  BY <1>1, <1>2, <1>3 DEF ParentIsOpen
<1>6. BeginsInOrder'
  BY <1>1, <1>2, <1>3 DEF BeginsInOrder
<1>7. ASSUME NEW r \in ended PROVE Ended(r)' /\ WithParent(r)'
  <2>1. Ended(r) /\ WithParent(r)
    BY DEF EngineInv
  <2>2. Ended(r)'
    BY <1>1, <1>2, <2>1 DEF Ended
  <2>3. WithParent(r)'
    BY <1>2, <2>1 DEF WithParent
  <2> QED BY <2>2, <2>3
<1>8. ASSUME NEW r \in ended, NEW q \in ended PROVE Nested(r, q)'
  BY DEF EngineInv, Nested
<1> QED BY <1>2, <1>4, <1>5, <1>6, <1>7, <1>8 DEF EngineInv

\* Every handler of the engine preserves the invariant.
LEMMA NextInv == EngineInv /\ [EngineNext]_engineVars => EngineInv'
<1> SUFFICES ASSUME EngineInv, [EngineNext]_engineVars PROVE EngineInv'
  OBVIOUS
<1>0. /\ evt \in Nat /\ matched \subseteq Paths /\ periods \subseteq Paths
      /\ phase \notin {"end", "remove"} => dying = {}
  BY DEF EngineInv, Typed
<1>1. CASE \E M \in SUBSET periods : ProcessEvent(M)
  BY <1>1, ProcessEventInv
<1>2. CASE SkipEvent
  BY <1>2, SkipEventInv
<1>3. CASE \E p \in dying : EndPeriod(p)
  BY <1>3, EndPeriodInv
<1>4. CASE EndingDone
  BY <1>0, <1>4, IdleInv DEF EndingDone
<1>5. CASE \E d \in Defs, p \in periods \cup {Root} : BeginPeriod(d, p)
  BY <1>5, BeginPeriodInv
<1>6. CASE EventDone
  BY <1>0, <1>6, IdleInv DEF EventDone
<1>7. CASE RemoveAllPeriods
  BY <1>0, <1>7, IdleInv DEF RemoveAllPeriods
<1>8. CASE RemovalDone
  BY <1>0, <1>8, IdleInv DEF RemovalDone
<1>9. CASE UNCHANGED engineVars
  <2>1. Typed' /\ ParentIsOpen' /\ DyingIsClosed' /\ DyingHasReason' /\ BeginsInOrder'
    BY <1>9 DEF engineVars, EngineInv, Typed, ParentIsOpen, DyingIsClosed,
                DyingHasReason, BeginsInOrder
  <2>2. \A r \in ended : Ended(r)' /\ WithParent(r)'
    BY <1>9 DEF engineVars, EngineInv, Ended, WithParent
  <2>3. \A r, q \in ended : Nested(r, q)'
    BY DEF EngineInv, Nested
  <2> QED BY <1>9, <2>1, <2>2, <2>3 DEF engineVars, EngineInv
<1> QED BY <1>1, <1>2, <1>3, <1>4, <1>5, <1>6, <1>7, <1>8, <1>9 DEF EngineNext

\* The parts of the invariant add up to the properties that the runs check.
LEMMA InvImplies ==
    EngineInv => TypeOK /\ PeriodsNest /\ AbortedWithParent /\ NestedIntervals
<1> SUFFICES ASSUME EngineInv
             PROVE  TypeOK /\ PeriodsNest /\ AbortedWithParent /\ NestedIntervals
  OBVIOUS
<1>1. TypeOK
  BY DEF EngineInv, Typed, Records, TypeOK
<1>2. PeriodsNest
  <2>1. ParentIsOpen /\ DyingIsClosed
    BY DEF EngineInv
  <2> QED BY <2>1 DEF PeriodsNest
<1>3. AbortedWithParent
  BY DEF EngineInv, WithParent, AbortedWithParent
<1>4. NestedIntervals
  <2>1. ASSUME NEW r \in ended, r.end # NoEvent PROVE BeginOf(r.period) < r.end
    BY <2>1 DEF EngineInv, Ended
  <2>2. ASSUME NEW r \in ended, NEW q \in ended, q.period = Parent(r.period)
        PROVE  /\ BeginOf(q.period) <= BeginOf(r.period)
               /\ q.end # NoEvent => r.end # NoEvent /\ r.end <= q.end
    <3>1. Ended(r) /\ Ended(q) /\ Nested(r, q)
      BY <2>2 DEF EngineInv
    <3>2. q.period # Root
      BY <3>1 DEF Ended
    <3> QED BY <2>2, <3>1, <3>2 DEF Ended, Nested
  <2> QED BY <2>1, <2>2 DEF NestedIntervals
<1> QED BY <1>1, <1>2, <1>3, <1>4

-----------------------------------------------------------------------------
\* A step of the engine opens a period whose parent is open, closes one which
\* has no open child, or leaves the forest alone.
LEMMA StepRefines ==
    EngineInv /\ [EngineNext]_engineVars
        => [Forest!ForestNext]_(Forest!forestVars)
<1> SUFFICES ASSUME EngineInv, [EngineNext]_engineVars
             PROVE  [Forest!ForestNext]_(Forest!forestVars)
  OBVIOUS
<1> DEFINE closed == {r.period : r \in ended}
<1>1. ASSUME UNCHANGED <<periods, ended>>
      PROVE  UNCHANGED Forest!forestVars
  BY <1>1 DEF Forest!forestVars
<1>2. ASSUME NEW p \in dying, EndPeriod(p) PROVE Forest!ForestNext
  <2>1. p \in periods
    BY DEF EngineInv, Typed
  <2>2. \A q \in periods : Parent(q) # p
    BY <1>2 DEF EndPeriod, IsLeaf
  <2>3. periods' = periods \ {p}
    BY <1>2 DEF EndPeriod
  <2> DEFINE r0 == [period    |-> p,
                    end       |-> IF phase = "end" THEN evt ELSE NoEvent,
                    completed |-> p \in matched]
  <2>4. closed' = closed \cup {p}
    <3>1. ended' = ended \cup {r0} /\ r0.period = p
      BY <1>2 DEF EndPeriod
    <3> HIDE DEF r0
    <3> QED BY <3>1
  <2>5. \A q \in periods : Forest!Parent(q) # p
    BY <2>2 DEF Forest!Parent, Parent, Forest!Front, Front
  <2>6. Forest!Close(p)
    BY <2>1, <2>3, <2>4, <2>5 DEF Forest!Close
  <2> QED BY <2>1, <2>6 DEF Forest!ForestNext
<1>3. ASSUME NEW d \in Defs, NEW p \in periods \cup {Root}, BeginPeriod(d, p)
      PROVE  Forest!ForestNext
  <2> DEFINE n == Append(p, [def |-> d, begin |-> evt])
  <2>1. /\ n \in Paths /\ n # Root /\ n \notin periods /\ Parent(n) = p
        /\ periods' = periods \cup {n}
        /\ \A r \in ended : r.period # n
    BY <1>3, NewPeriod
  <2> HIDE DEF n
  <2>2. closed' = closed /\ n \notin closed
    BY <1>3, <2>1 DEF BeginPeriod
  <2>3. Len(n) > 1 => p \in periods
    <3>1. ASSUME p = Root PROVE ~(Len(n) > 1)
      <4>1. Len(n) \in Nat \ {0} /\ Len(Parent(n)) = Len(n) - 1
        BY <2>1, ParentPath
      <4>2. Parent(n) = << >>
        BY <2>1, <3>1 DEF Root
      <4>3. Len(Parent(n)) = 0
        BY <4>2
      <4>4. \A k \in Nat : \A m : m = k - 1 /\ m = 0 => ~(k > 1)
        OBVIOUS
      <4> QED BY <4>1, <4>3, <4>4
    <3> QED BY <3>1
  <2>4. Forest!Open(n)
    <3>1. Forest!Parent(n) = p
      BY <2>1 DEF Forest!Parent, Parent, Forest!Front, Front
    <3> QED BY <2>1, <2>2, <2>3, <3>1 DEF Forest!Open
  <2>5. n \in periods' /\ n \in Seq(Instances)
    BY <2>1 DEF Paths
  <2> QED BY <2>4, <2>5 DEF Forest!ForestNext
<1>4. ASSUME EngineNext,
             ~\E p \in dying : EndPeriod(p),
             ~\E d \in Defs, p \in periods \cup {Root} : BeginPeriod(d, p)
      PROVE  UNCHANGED <<periods, ended>>
  BY <1>4 DEF EngineNext, ProcessEvent, SkipEvent, EndingDone, EventDone,
              RemoveAllPeriods, RemovalDone
<1>5. CASE UNCHANGED engineVars
  BY <1>1, <1>5 DEF engineVars
<1> QED BY <1>1, <1>2, <1>3, <1>4, <1>5

-----------------------------------------------------------------------------
\* The engine's sets and records always have their types.
THEOREM EngineTypes == EngineSpec => []TypeOK
<1>1. EngineInv => TypeOK
  BY InvImplies
<1> QED BY <1>1, InitInv, NextInv, PTL DEF EngineSpec

\* No period outlives its parent, in the middle of an event either
\* (core/period.py:704-759).
THEOREM EngineNests == EngineSpec => []PeriodsNest
<1>1. EngineInv => PeriodsNest
  BY InvImplies
<1> QED BY <1>1, InitInv, NextInv, PTL DEF EngineSpec

\* A period is aborted by an event only together with its parent
\* (core/period.py:724-733, 746-759).
THEOREM EngineAborts == EngineSpec => []AbortedWithParent
<1>1. EngineInv => AbortedWithParent
  BY InvImplies
<1> QED BY <1>1, InitInv, NextInv, PTL DEF EngineSpec

\* The interval of a child lies inside its parent's, and no event ends a
\* period it began (core/period.py:739-744).
THEOREM EngineIntervals == EngineSpec => []NestedIntervals
<1>1. EngineInv => NestedIntervals
  BY InvImplies
<1> QED BY <1>1, InitInv, NextInv, PTL DEF EngineSpec

\* The engine implements the forest that its user is promised: a period begins
\* under an open parent, ends once and after its children, and does not begin
\* again.
THEOREM EngineRefines == EngineSpec => ImplementsForest
<1>1. EngineInit => Forest!ForestInit
  BY DEF EngineInit, Forest!ForestInit
<1> QED BY <1>1, InitInv, NextInv, StepRefines, PTL
        DEF EngineSpec, ImplementsForest, Forest!ForestSpec

-----------------------------------------------------------------------------
(* Expressions.                                                            *)

\* The parts of an expression are less deep, at each index.
LEMMA PartsBelow ==
    ASSUME NEW e \in Exprs, e.op \in Connectives, NEW i \in DOMAIN e.of
    PROVE  e.of[i] \in Exprs /\ Depth[e.of[i]] < Depth[e]
<1>1. e.of \in Seq(Exprs) /\ e.of[i] \in Parts(e)
  BY ExprsAssumption DEF Parts
<1>2. e.of[i] \in Exprs
  BY <1>1
<1> QED BY <1>1, <1>2, ExprsAssumption

\* The one part of a negation.
LEMMA NotPart ==
    ASSUME NEW e \in Exprs, e.op = "not"
    PROVE  1 \in DOMAIN e.of /\ e.of[1] \in Exprs /\ Depth[e.of[1]] < Depth[e]
<1>1. e.op \in Connectives
  BY DEF Connectives
<1>2. e.of \in Seq(Exprs) /\ Len(e.of) = 1
  BY <1>1, ExprsAssumption
<1>3. 1 \in DOMAIN e.of
  BY <1>2
<1> QED BY <1>1, <1>3, PartsBelow

\* Legality, matching, raising, the conjuncts, the literals: what the recursion computes.
LegalBody(def, e, h) ==
    IF e.op \in Connectives THEN \A f \in Parts(e) : h[f]
    ELSE LegalOperand(e.lh, def) /\ LegalOperand(e.rh, def)

MatchesBody(ctx, e, h) ==
    CASE e.op = "and" -> \A i \in DOMAIN e.of : h[e.of[i]]
      [] e.op = "or"  -> \E i \in DOMAIN e.of : h[e.of[i]]
      [] e.op = "not" -> ~h[e.of[1]]
      [] OTHER -> Compares(e.op, Resolve(e.lh, ctx), Resolve(e.rh, ctx))

ErrorsBody(ctx, e, h) ==
    CASE e.op = "and" -> UNION {h[e.of[i]] : i \in {k \in DOMAIN e.of :
             \A j \in 1 .. k - 1 : Matches(e.of[j], ctx) /\ h[e.of[j]] = {}}}
      [] e.op = "or"  -> UNION {h[e.of[i]] : i \in {k \in DOMAIN e.of :
             \A j \in 1 .. k - 1 : ~Matches(e.of[j], ctx) /\ h[e.of[j]] = {}}}
      [] e.op = "not" -> h[e.of[1]]
      [] OTHER -> ComparisonErrors(e, ctx)

ConjunctsBody(e, h) ==
    IF e.op = "and" THEN UNION {h[g] : g \in Parts(e)} ELSE {e}

LiteralsBody(e, h) ==
    IF e.op \in Connectives THEN UNION {h[g] : g \in Parts(e)}
    ELSE {x.value : x \in {y \in {e.lh, e.rh} : y.kind = "literal"}}

\* The functions of which Conjuncts and LiteralsIn are values.
Connected == CHOOSE m : m = [e \in Exprs |-> ConjunctsBody(e, m)]
Literals  == CHOOSE m : m = [e \in Exprs |-> LiteralsBody(e, m)]

\* These functions of the expressions exist: recursion on the depth.
LEMMA LegalStep ==
    ASSUME NEW def
    PROVE  \A e \in Exprs : LegalExpr(e, def) = LegalBody(def, e, LegalExprs(def))
<1> DEFINE V == BOOLEAN
           G == [x \in Exprs \X [Exprs -> V] |-> LegalBody(def, x[1], x[2])]
<1>1. ASSUME NEW e \in Exprs, NEW h \in [Exprs -> V] PROVE LegalBody(def, e, h) \in V
  BY DEF LegalBody, LegalOperand
<1>2. G \in [Exprs \X [Exprs -> V] -> V]
  BY <1>1
<1>3. ASSUME NEW e \in Exprs, NEW g \in [Exprs -> V], NEW h \in [Exprs -> V],
             \A f \in Exprs : Depth[f] < Depth[e] => g[f] = h[f]
      PROVE  LegalBody(def, e, g) = LegalBody(def, e, h)
  <2>1. CASE e.op \in Connectives
    <3>1. ASSUME NEW f \in Parts(e) PROVE g[f] = h[f]
      <4>1. PICK i \in DOMAIN e.of : f = e.of[i]
        BY <2>1 DEF Parts
      <4> QED BY <1>3, <2>1, <4>1, PartsBelow
    <3> QED BY <2>1, <3>1 DEF LegalBody
  <2>2. CASE e.op \notin Connectives
    BY <2>2 DEF LegalBody
  <2> QED BY <2>1, <2>2
<1>4. Local(Exprs, Depth, V, G)
  BY <1>3 DEF Local
<1>5. \A e \in Exprs, h \in [Exprs -> V] : G[<<e, h>>] = LegalBody(def, e, h)
  OBVIOUS
<1>6. V # {}
  <2>1. TRUE \in V
    OBVIOUS
  <2> QED BY <2>1
<1> HIDE DEF V, G
<1>7. Recursive(Exprs, Depth, V, G)
  BY <1>2, <1>4, <1>6, ExprsAssumption DEF Recursive
<1>8. PICK h : Solution(Exprs, V, G, h)
  BY <1>7, Recursion
<1>9. h = [e \in Exprs |-> LegalBody(def, e, h)]
  BY <1>5, <1>8 DEF Solution
<1>10. LegalExprs(def) = CHOOSE m : m = [e \in Exprs |-> LegalBody(def, e, m)]
  BY DEF LegalExprs, LegalBody
<1>11. LegalExprs(def) = [e \in Exprs |-> LegalBody(def, e, LegalExprs(def))]
  BY <1>9, <1>10
<1> QED BY <1>11 DEF LegalExpr

LEMMA MatchesStep ==
    ASSUME NEW ctx
    PROVE  \A e \in Exprs : Matches(e, ctx) = MatchesBody(ctx, e, Matching(ctx))
<1> DEFINE V == BOOLEAN
           G == [x \in Exprs \X [Exprs -> V] |-> MatchesBody(ctx, x[1], x[2])]
<1>1. ASSUME NEW e \in Exprs, NEW h \in [Exprs -> V] PROVE MatchesBody(ctx, e, h) \in V
  BY DEF MatchesBody, Compares
<1>2. G \in [Exprs \X [Exprs -> V] -> V]
  BY <1>1
<1>3. ASSUME NEW e \in Exprs, NEW g \in [Exprs -> V], NEW h \in [Exprs -> V],
             \A f \in Exprs : Depth[f] < Depth[e] => g[f] = h[f]
      PROVE  MatchesBody(ctx, e, g) = MatchesBody(ctx, e, h)
  <2>1. CASE e.op \in {"and", "or"}
    <3>1. e.op \in Connectives
      BY <2>1 DEF Connectives
    <3>2. ASSUME NEW i \in DOMAIN e.of PROVE g[e.of[i]] = h[e.of[i]]
      BY <1>3, <3>1, PartsBelow
    <3> QED BY <2>1, <3>2 DEF MatchesBody
  <2>2. CASE e.op = "not"
    BY <1>3, <2>2, NotPart DEF MatchesBody
  <2>3. CASE e.op \notin {"and", "or", "not"}
    BY <2>3 DEF MatchesBody
  <2> QED BY <2>1, <2>2, <2>3
<1>4. Local(Exprs, Depth, V, G)
  BY <1>3 DEF Local
<1>5. \A e \in Exprs, h \in [Exprs -> V] : G[<<e, h>>] = MatchesBody(ctx, e, h)
  OBVIOUS
<1>6. V # {}
  <2>1. TRUE \in V
    OBVIOUS
  <2> QED BY <2>1
<1> HIDE DEF V, G
<1>7. Recursive(Exprs, Depth, V, G)
  BY <1>2, <1>4, <1>6, ExprsAssumption DEF Recursive
<1>8. PICK h : Solution(Exprs, V, G, h)
  BY <1>7, Recursion
<1>9. h = [e \in Exprs |-> MatchesBody(ctx, e, h)]
  BY <1>5, <1>8 DEF Solution
<1>10. Matching(ctx) = CHOOSE m : m = [e \in Exprs |-> MatchesBody(ctx, e, m)]
  BY DEF Matching, MatchesBody
<1>11. Matching(ctx) = [e \in Exprs |-> MatchesBody(ctx, e, Matching(ctx))]
  BY <1>9, <1>10
<1> QED BY <1>11 DEF Matches

Causes == {"operand", "value"}

LEMMA ErrorsStep ==
    ASSUME NEW ctx
    PROVE  \A e \in Exprs : Errors(e, ctx) = ErrorsBody(ctx, e, Raising(ctx))
<1> DEFINE V == SUBSET Causes
           G == [x \in Exprs \X [Exprs -> V] |-> ErrorsBody(ctx, x[1], x[2])]
<1>1. ASSUME NEW e \in Exprs, NEW h \in [Exprs -> V] PROVE ErrorsBody(ctx, e, h) \in V
  <2>1. CASE e.op = "not"
    BY <2>1, NotPart DEF ErrorsBody
  <2>2. CASE e.op \in {"and", "or"}
    <3>1. \A i \in DOMAIN e.of : h[e.of[i]] \subseteq Causes
      BY <2>2, PartsBelow DEF Connectives
    <3> QED BY <2>2, <3>1 DEF ErrorsBody
  <2>3. CASE e.op \notin {"and", "or", "not"}
    BY <2>3 DEF ErrorsBody, ComparisonErrors, Causes
  <2> QED BY <2>1, <2>2, <2>3
<1>2. G \in [Exprs \X [Exprs -> V] -> V]
  BY <1>1
<1>3. ASSUME NEW e \in Exprs, NEW g \in [Exprs -> V], NEW h \in [Exprs -> V],
             \A f \in Exprs : Depth[f] < Depth[e] => g[f] = h[f]
      PROVE  ErrorsBody(ctx, e, g) = ErrorsBody(ctx, e, h)
  <2>1. CASE e.op \in {"and", "or"}
    <3>1. e.op \in Connectives /\ e.of \in Seq(Exprs)
      BY <2>1, ExprsAssumption DEF Connectives
    <3>2. \A i \in DOMAIN e.of : g[e.of[i]] = h[e.of[i]]
      BY <1>3, <3>1, PartsBelow
    <3>3. \A k \in DOMAIN e.of : \A j \in 1 .. k - 1 : j \in DOMAIN e.of
      BY <3>1
    <3>4. \A k \in DOMAIN e.of : \A j \in 1 .. k - 1 : g[e.of[j]] = h[e.of[j]]
      BY <3>2, <3>3
    <3> DEFINE I(f) == {k \in DOMAIN e.of :
                          \A j \in 1 .. k - 1 : Matches(e.of[j], ctx) /\ f[e.of[j]] = {}}
               J(f) == {k \in DOMAIN e.of :
                          \A j \in 1 .. k - 1 : ~Matches(e.of[j], ctx) /\ f[e.of[j]] = {}}
    <3>5. I(g) = I(h) /\ J(g) = J(h)
      BY <3>4
    <3>6. /\ I(g) \subseteq DOMAIN e.of /\ J(g) \subseteq DOMAIN e.of
          /\ I(h) \subseteq DOMAIN e.of /\ J(h) \subseteq DOMAIN e.of
      OBVIOUS
    <3>7. /\ e.op = "and" => /\ ErrorsBody(ctx, e, g) = UNION {g[e.of[i]] : i \in I(g)}
                             /\ ErrorsBody(ctx, e, h) = UNION {h[e.of[i]] : i \in I(h)}
          /\ e.op = "or"  => /\ ErrorsBody(ctx, e, g) = UNION {g[e.of[i]] : i \in J(g)}
                             /\ ErrorsBody(ctx, e, h) = UNION {h[e.of[i]] : i \in J(h)}
      BY DEF ErrorsBody
    <3> HIDE DEF I, J
    <3>8. /\ {g[e.of[i]] : i \in I(g)} = {h[e.of[i]] : i \in I(h)}
          /\ {g[e.of[i]] : i \in J(g)} = {h[e.of[i]] : i \in J(h)}
      BY <3>2, <3>5, <3>6
    <3> QED BY <2>1, <3>7, <3>8
  <2>2. CASE e.op = "not"
    BY <1>3, <2>2, NotPart DEF ErrorsBody
  <2>3. CASE e.op \notin {"and", "or", "not"}
    BY <2>3 DEF ErrorsBody
  <2> QED BY <2>1, <2>2, <2>3
<1>4. Local(Exprs, Depth, V, G)
  BY <1>3 DEF Local
<1>5. \A e \in Exprs, h \in [Exprs -> V] : G[<<e, h>>] = ErrorsBody(ctx, e, h)
  OBVIOUS
<1>6. V # {}
  <2>1. {} \in V
    OBVIOUS
  <2> QED BY <2>1
<1> HIDE DEF V, G
<1>7. Recursive(Exprs, Depth, V, G)
  BY <1>2, <1>4, <1>6, ExprsAssumption DEF Recursive
<1>8. PICK h : Solution(Exprs, V, G, h)
  BY <1>7, Recursion
<1>9. h = [e \in Exprs |-> ErrorsBody(ctx, e, h)]
  BY <1>5, <1>8 DEF Solution
<1>10. Raising(ctx) = CHOOSE m : m = [e \in Exprs |-> ErrorsBody(ctx, e, m)]
  BY DEF Raising, ErrorsBody
<1>11. Raising(ctx) = [e \in Exprs |-> ErrorsBody(ctx, e, Raising(ctx))]
  BY <1>9, <1>10
<1> QED BY <1>11 DEF Errors

LEMMA ConjunctsStep ==
    \A e \in Exprs : Conjuncts(e) = ConjunctsBody(e, Connected)
<1> DEFINE V == SUBSET Exprs
           G == [x \in Exprs \X [Exprs -> V] |-> ConjunctsBody(x[1], x[2])]
<1>1. ASSUME NEW e \in Exprs, NEW h \in [Exprs -> V] PROVE ConjunctsBody(e, h) \in V
  <2>1. CASE e.op = "and"
    <3>1. e.op \in Connectives
      BY <2>1 DEF Connectives
    <3>2. ASSUME NEW f \in Parts(e) PROVE h[f] \subseteq Exprs
      <4>1. PICK i \in DOMAIN e.of : f = e.of[i]
        BY <3>1 DEF Parts
      <4> QED BY <3>1, <4>1, PartsBelow
    <3> QED BY <2>1, <3>2 DEF ConjunctsBody
  <2>2. CASE e.op # "and"
    BY <2>2 DEF ConjunctsBody
  <2> QED BY <2>1, <2>2
<1>2. G \in [Exprs \X [Exprs -> V] -> V]
  BY <1>1
<1>3. ASSUME NEW e \in Exprs, NEW g \in [Exprs -> V], NEW h \in [Exprs -> V],
             \A f \in Exprs : Depth[f] < Depth[e] => g[f] = h[f]
      PROVE  ConjunctsBody(e, g) = ConjunctsBody(e, h)
  <2>1. CASE e.op = "and"
    <3>1. e.op \in Connectives
      BY <2>1 DEF Connectives
    <3>2. ASSUME NEW f \in Parts(e) PROVE g[f] = h[f]
      <4>1. PICK i \in DOMAIN e.of : f = e.of[i]
        BY <3>1 DEF Parts
      <4> QED BY <1>3, <3>1, <4>1, PartsBelow
    <3> QED BY <2>1, <3>2 DEF ConjunctsBody
  <2>2. CASE e.op # "and"
    BY <2>2 DEF ConjunctsBody
  <2> QED BY <2>1, <2>2
<1>4. Local(Exprs, Depth, V, G)
  BY <1>3 DEF Local
<1>5. \A e \in Exprs, h \in [Exprs -> V] : G[<<e, h>>] = ConjunctsBody(e, h)
  OBVIOUS
<1>6. V # {}
  <2>1. {} \in V
    OBVIOUS
  <2> QED BY <2>1
<1> HIDE DEF V, G
<1>7. Recursive(Exprs, Depth, V, G)
  BY <1>2, <1>4, <1>6, ExprsAssumption DEF Recursive
<1>8. PICK h : Solution(Exprs, V, G, h)
  BY <1>7, Recursion
<1>9. h = [e \in Exprs |-> ConjunctsBody(e, h)]
  BY <1>5, <1>8 DEF Solution
<1>10. Connected = CHOOSE m : m = [e \in Exprs |-> ConjunctsBody(e, m)]
  BY DEF Connected
<1>11. Connected = [e \in Exprs |-> ConjunctsBody(e, Connected)]
  BY <1>9, <1>10
<1> QED BY <1>11 DEF Conjuncts, Connected, ConjunctsBody

\* The literals of what a connective connects are its own.
LEMMA LiteralsStep ==
    \A e \in Exprs : LiteralsIn(e) = LiteralsBody(e, Literals)
<1> DEFINE W == UNION {{e.lh.value, e.rh.value} : e \in Exprs}
           V == SUBSET W
           G == [x \in Exprs \X [Exprs -> V] |-> LiteralsBody(x[1], x[2])]
<1>1. ASSUME NEW e \in Exprs, NEW h \in [Exprs -> V] PROVE LiteralsBody(e, h) \in V
  <2>1. CASE e.op \in Connectives
    <3>1. ASSUME NEW f \in Parts(e) PROVE h[f] \subseteq W
      <4>1. PICK i \in DOMAIN e.of : f = e.of[i]
        BY <2>1 DEF Parts
      <4>2. f \in Exprs
        BY <2>1, <4>1, PartsBelow
      <4> QED BY <4>2
    <3> HIDE DEF W
    <3> QED BY <2>1, <3>1 DEF LiteralsBody
  <2>2. CASE e.op \notin Connectives
    <3>1. {e.lh.value, e.rh.value} \subseteq W
      OBVIOUS
    <3> HIDE DEF W
    <3> QED BY <2>2, <3>1 DEF LiteralsBody
  <2> QED BY <2>1, <2>2
<1> HIDE DEF W
<1>2. G \in [Exprs \X [Exprs -> V] -> V]
  BY <1>1
<1>3. ASSUME NEW e \in Exprs, NEW g \in [Exprs -> V], NEW h \in [Exprs -> V],
             \A f \in Exprs : Depth[f] < Depth[e] => g[f] = h[f]
      PROVE  LiteralsBody(e, g) = LiteralsBody(e, h)
  <2>1. CASE e.op \in Connectives
    <3>1. ASSUME NEW f \in Parts(e) PROVE g[f] = h[f]
      <4>1. PICK i \in DOMAIN e.of : f = e.of[i]
        BY <2>1 DEF Parts
      <4> QED BY <1>3, <2>1, <4>1, PartsBelow
    <3> QED BY <2>1, <3>1 DEF LiteralsBody
  <2>2. CASE e.op \notin Connectives
    BY <2>2 DEF LiteralsBody
  <2> QED BY <2>1, <2>2
<1>4. Local(Exprs, Depth, V, G)
  BY <1>3 DEF Local
<1>5. \A e \in Exprs, h \in [Exprs -> V] : G[<<e, h>>] = LiteralsBody(e, h)
  OBVIOUS
<1>6. V # {}
  <2>1. {} \in V
    OBVIOUS
  <2> QED BY <2>1
<1> HIDE DEF V, G
<1>7. Recursive(Exprs, Depth, V, G)
  BY <1>2, <1>4, <1>6, ExprsAssumption DEF Recursive
<1>8. PICK h : Solution(Exprs, V, G, h)
  BY <1>7, Recursion
<1>9. h = [e \in Exprs |-> LiteralsBody(e, h)]
  BY <1>5, <1>8 DEF Solution
<1>10. Literals = CHOOSE m : m = [e \in Exprs |-> LiteralsBody(e, m)]
  BY DEF Literals
<1>11. Literals = [e \in Exprs |-> LiteralsBody(e, Literals)]
  BY <1>9, <1>10
<1> QED BY <1>11 DEF LiteralsIn, Literals, LiteralsBody

\* A conjunction matches if all that it connects does.
LEMMA MatchesAnd ==
    ASSUME NEW ctx, NEW e \in Exprs, e.op = "and"
    PROVE  Matches(e, ctx) <=> \A i \in DOMAIN e.of : Matches(e.of[i], ctx)
<1>1. Matches(e, ctx) = MatchesBody(ctx, e, Matching(ctx))
  BY MatchesStep
<1> QED BY <1>1 DEF MatchesBody, Matches

\* So does a comparison, if its operands compare.
LEMMA MatchesComparison ==
    ASSUME NEW ctx, NEW e \in Exprs, e.op \notin Connectives
    PROVE  Matches(e, ctx) <=> Compares(e.op, Resolve(e.lh, ctx), Resolve(e.rh, ctx))
<1>1. Matches(e, ctx) = MatchesBody(ctx, e, Matching(ctx))
  BY MatchesStep
<1>2. e.op # "and" /\ e.op # "or" /\ e.op # "not"
  BY DEF Connectives
<1> QED BY <1>1, <1>2 DEF MatchesBody

\* What a connective raises is raised by a part of it.
LEMMA PartRaises ==
    ASSUME NEW ctx, NEW e \in Exprs, e.op \in Connectives, NEW c \in Errors(e, ctx)
    PROVE  \E i \in DOMAIN e.of : c \in Errors(e.of[i], ctx)
<1>1. c \in ErrorsBody(ctx, e, Raising(ctx))
  BY ErrorsStep
<1>2. CASE e.op \in {"and", "or"}
  BY <1>1, <1>2 DEF ErrorsBody, Errors
<1>3. CASE e.op = "not"
  <2>1. 1 \in DOMAIN e.of
    BY <1>3, NotPart
  <2> QED BY <1>1, <1>3, <2>1 DEF ErrorsBody, Errors
<1> QED BY <1>2, <1>3 DEF Connectives

LEMMA ComparisonRaises ==
    ASSUME NEW ctx, NEW e \in Exprs, e.op \notin Connectives
    PROVE  Errors(e, ctx) = ComparisonErrors(e, ctx)
<1>1. Errors(e, ctx) = ErrorsBody(ctx, e, Raising(ctx))
  BY ErrorsStep
<1> QED BY <1>1 DEF ErrorsBody, Connectives

\* No operand of a legal expression raises, in any context: induction on its
\* depth.
LEMMA LegalNeverRaises ==
    ASSUME NEW def, NEW ctx, NEW x \in Exprs, LegalExpr(x, def)
    PROVE  "operand" \notin Errors(x, ctx)
<1> DEFINE F == {e \in Exprs : LegalExpr(e, def) /\ "operand" \in Errors(e, ctx)}
<1>1. SUFFICES ASSUME F # {} PROVE FALSE
  OBVIOUS
<1>2. PICK e \in F : \A f \in Exprs : Depth[f] < Depth[e] => f \notin F
  <2>1. F \subseteq Exprs /\ Depth \in [Exprs -> Nat]
    BY ExprsAssumption
  <2> HIDE DEF F
  <2> QED BY <1>1, <2>1, LeastDepth
<1>3. /\ e \in Exprs /\ LegalExpr(e, def) /\ "operand" \in Errors(e, ctx)
      /\ \A f \in Exprs : Depth[f] < Depth[e] => ~(LegalExpr(f, def) /\ "operand" \in Errors(f, ctx))
  BY <1>2
<1> HIDE DEF F
<1>4. LegalBody(def, e, LegalExprs(def))
  BY <1>3, LegalStep
<1>5. CASE e.op \in Connectives
  <2>1. PICK i \in DOMAIN e.of : "operand" \in Errors(e.of[i], ctx)
    BY <1>3, <1>5, PartRaises
  <2>2. e.of[i] \in Exprs /\ Depth[e.of[i]] < Depth[e] /\ e.of[i] \in Parts(e)
    BY <1>3, <1>5, PartsBelow DEF Parts
  <2>3. LegalExpr(e.of[i], def)
    BY <1>4, <1>5, <2>2 DEF LegalBody, LegalExpr
  <2> QED BY <1>3, <2>1, <2>2, <2>3
<1>6. CASE e.op \notin Connectives
  <2>1. LegalOperand(e.lh, def) /\ LegalOperand(e.rh, def)
    BY <1>4, <1>6 DEF LegalBody
  <2>2. OperandRaises(e.lh, ctx) \/ OperandRaises(e.rh, ctx)
    BY <1>3, <1>6, ComparisonRaises DEF ComparisonErrors
  <2> QED BY <2>1, <2>2 DEF LegalOperand, OperandRaises
<1> QED BY <1>5, <1>6

\* What a comparison may find at an operand, in the context of events of T.
Found(T) == {NoValue} \cup {Str(e.name) : e \in T} \cup
            UNION {Range(e.fields) : e \in T}

LEMMA EventFinds ==
    ASSUME NEW T, NEW e, e = NoEvt \/ e \in T, NEW x
    PROVE  ResolveEvent(e, x) \in Found(T)
<1>1. NoValue \in Found(T)
  BY DEF Found
<1>2. e \in T => /\ Str(e.name) \in Found(T)
                 /\ \A k \in DOMAIN e.fields : e.fields[k] \in Found(T)
  BY DEF Found, Range
<1>3. \A s, f : e \in T => FieldWithScope(e, f, s) \in Found(T)
  BY <1>1, <1>2 DEF FieldWithScope
<1>4. \A f : e \in T => FirstField(e, f) \in Found(T)
  BY <1>1, <1>3 DEF FirstField
<1> QED BY <1>1, <1>2, <1>3, <1>4 DEF ResolveEvent

InContext(ctx, T) ==
    /\ ctx.evt = NoEvt \/ ctx.evt \in T
    /\ ctx.begin = NoEvt \/ ctx.begin \in T
    /\ ctx.parent = NoEvt \/ ctx.parent \in T

LEMMA OperandFinds ==
    ASSUME NEW T, NEW ctx, InContext(ctx, T), NEW x,
           x.kind \in {"literal", "evt"}
    PROVE  \/ x.kind = "literal" /\ Resolve(x, ctx) = x.value
           \/ Resolve(x, ctx) \in Found(T)
<1>1. CASE x.kind = "literal"
  BY <1>1 DEF Resolve
<1>2. CASE x.kind = "evt"
  <2>1. \A y : /\ ResolveEvent(ctx.evt, y) \in Found(T)
               /\ ResolveEvent(ctx.begin, y) \in Found(T)
               /\ ResolveEvent(ctx.parent, y) \in Found(T)
    BY EventFinds DEF InContext
  <2>2. NoValue \in Found(T)
    BY DEF Found
  <2> QED BY <1>2, <2>1, <2>2 DEF Resolve
<1> QED BY <1>1, <1>2

\* If the values compared make an expression raise, one of them has no order or
\* is not finite: induction on the depth again.
LEMMA ValuesRaise ==
    ASSUME NEW T, NEW ctx, InContext(ctx, T), NEW x \in Exprs, "value" \in Errors(x, ctx)
    PROVE  \E v \in LiteralsIn(x) \cup Found(T) : v # NoValue /\ ~Ordinary(v)
<1> DEFINE Odd(e) == \E v \in LiteralsIn(e) \cup Found(T) : v # NoValue /\ ~Ordinary(v)
           F == {e \in Exprs : "value" \in Errors(e, ctx) /\ ~Odd(e)}
<1>1. SUFFICES ASSUME F # {} PROVE FALSE
  OBVIOUS
<1>2. PICK e \in F : \A f \in Exprs : Depth[f] < Depth[e] => f \notin F
  <2>1. F \subseteq Exprs /\ Depth \in [Exprs -> Nat]
    BY ExprsAssumption
  <2> HIDE DEF F
  <2> QED BY <1>1, <2>1, LeastDepth
<1>3. /\ e \in Exprs /\ "value" \in Errors(e, ctx) /\ ~Odd(e)
      /\ \A f \in Exprs : Depth[f] < Depth[e] => ~("value" \in Errors(f, ctx) /\ ~Odd(f))
  BY <1>2
<1> HIDE DEF F
<1>4. LiteralsIn(e) = LiteralsBody(e, Literals)
  BY <1>3, LiteralsStep
<1>5. CASE e.op \in Connectives
  <2>1. PICK i \in DOMAIN e.of : "value" \in Errors(e.of[i], ctx)
    BY <1>3, <1>5, PartRaises
  <2>2. e.of[i] \in Exprs /\ Depth[e.of[i]] < Depth[e] /\ e.of[i] \in Parts(e)
    BY <1>3, <1>5, PartsBelow DEF Parts
  <2>3. LiteralsIn(e.of[i]) = Literals[e.of[i]]
    BY DEF LiteralsIn, Literals, LiteralsBody
  <2>4. LiteralsIn(e.of[i]) \subseteq LiteralsIn(e)
    BY <1>4, <1>5, <2>2, <2>3 DEF LiteralsBody
  <2>5. Odd(e.of[i])
    BY <1>3, <2>1, <2>2
  <2> QED BY <1>3, <2>4, <2>5
<1>6. CASE e.op \notin Connectives
  <2>1. "value" \in ComparisonErrors(e, ctx)
    BY <1>3, <1>6, ComparisonRaises
  <2>2. PICK l, r : l = Resolve(e.lh, ctx) /\ r = Resolve(e.rh, ctx)
    OBVIOUS
  <2>3. Incomparable(e.op, l, r)
    BY <2>1, <2>2 DEF ComparisonErrors
  <2>4. l # NoValue /\ r # NoValue /\ (~Ordinary(l) \/ ~Ordinary(r))
    BY <2>3 DEF Incomparable, Ordinary
  <2>5. \A y \in {e.lh, e.rh} : y.kind = "literal" => y.value \in LiteralsIn(e)
    BY <1>4, <1>6 DEF LiteralsBody
  <2>6. {e.lh.kind, e.rh.kind} \subseteq {"evt", "literal"}
    BY <1>3, <1>6, ExprsAssumption
  <2>7. l \in LiteralsIn(e) \cup Found(T)
    BY <2>2, <2>5, <2>6, OperandFinds
  <2>8. r \in LiteralsIn(e) \cup Found(T)
    BY <2>2, <2>5, <2>6, OperandFinds
  <2> QED BY <1>3, <2>4, <2>7, <2>8
<1> QED BY <1>5, <1>6

\* The conjuncts of what matches are expressions that match.
LEMMA ConjunctsMatch ==
    ASSUME NEW ctx, NEW x \in Exprs, Matches(x, ctx), NEW c \in Conjuncts(x)
    PROVE  c \in Exprs /\ Matches(c, ctx)
<1> DEFINE Bad(e) == \E d \in Conjuncts(e) : ~(d \in Exprs /\ Matches(d, ctx))
           F == {e \in Exprs : Matches(e, ctx) /\ Bad(e)}
<1>1. SUFFICES ASSUME F # {} PROVE FALSE
  OBVIOUS
<1>2. PICK e \in F : \A f \in Exprs : Depth[f] < Depth[e] => f \notin F
  <2>1. F \subseteq Exprs /\ Depth \in [Exprs -> Nat]
    BY ExprsAssumption
  <2> HIDE DEF F
  <2> QED BY <1>1, <2>1, LeastDepth
<1>3. /\ e \in Exprs /\ Matches(e, ctx) /\ Bad(e)
      /\ \A f \in Exprs : Depth[f] < Depth[e] => ~(Matches(f, ctx) /\ Bad(f))
  BY <1>2
<1> HIDE DEF F
<1>4. Conjuncts(e) = ConjunctsBody(e, Connected)
  BY <1>3, ConjunctsStep
<1>5. CASE e.op = "and"
  <2>1. PICK d \in Conjuncts(e) : ~(d \in Exprs /\ Matches(d, ctx))
    BY <1>3
  <2>2. e.op \in Connectives
    BY <1>5 DEF Connectives
  <2>3. PICK i \in DOMAIN e.of : d \in Connected[e.of[i]]
    BY <1>4, <1>5, <2>1, <2>2 DEF ConjunctsBody, Parts
  <2>4. e.of[i] \in Exprs /\ Depth[e.of[i]] < Depth[e]
    BY <1>3, <2>2, PartsBelow
  <2>5. d \in Conjuncts(e.of[i])
    BY <2>3 DEF Conjuncts, Connected, ConjunctsBody
  <2>6. Matches(e.of[i], ctx)
    BY <1>3, <1>5, MatchesAnd
  <2>7. Bad(e.of[i])
    BY <2>1, <2>5
  <2> QED BY <1>3, <2>4, <2>6, <2>7
<1>6. CASE e.op # "and"
  BY <1>3, <1>4, <1>6 DEF ConjunctsBody
<1> QED BY <1>5, <1>6

-----------------------------------------------------------------------------
(* Events and their fields.                                                *)

AllEvents == UNION Range(EventsOf)

\* Events have names, and values in their fields.
LEMMA EventParts ==
    ASSUME NEW e \in AllEvents
    PROVE  e # NoEvt /\ e.name \in Int /\ \A f : FirstField(e, f) \in Values \cup {NoValue}
<1>1. \A k \in DOMAIN e.fields : e.fields[k] \in Values
  BY EventsAssumption DEF AllEvents
<1>2. ASSUME NEW f PROVE FirstField(e, f) \in Values \cup {NoValue}
  BY <1>1 DEF FirstField, FieldWithScope
<1> QED BY <1>2, EventsAssumption DEF AllEvents

\* == is equality of values, but a real number on the right is cut.
LEMMA SameCompares ==
    ASSUME NEW v \in Values \cup {NoValue}, NEW w \in Values \cup {NoValue}
    PROVE  Same(v, w) <=> Compares("==", v, w)
<1>1. SUFFICES ASSUME v \in Values, w \in Values
               PROVE  Same(v, w) <=> Compares("==", v, w)
  BY DEF Same, Compares
<1>2. /\ v.t \in {"int", "float", "str", "dict"} /\ w.t \in {"int", "float", "str", "dict"}
      /\ v # NoValue /\ w # NoValue
      /\ v = [t |-> v.t, v |-> v.v] /\ w = [t |-> w.t, v |-> w.v]
  BY <1>1, ValuesAssumption DEF Values
<1>3. v.t = "int" => v.v \in Int /\ v.v # NaN
  BY <1>1, FloatsAssumption DEF Values
<1>4. CASE v.t = "int" /\ w.t = "float" /\ w.v \in Int
  <2>1. Cast(v, w) = [t |-> "int", v |-> Truncated(w.v)] /\ ~Incomparable("==", v, w)
    BY <1>4 DEF Cast, Incomparable
  <2>2. v # w
    BY <1>4
  <2> QED BY <1>2, <1>3, <1>4, <2>1, <2>2 DEF Same, Compares, Holds, Equal
<1>5. CASE v.t = "int" /\ w.t = "float" /\ w.v \notin Int
  <2>1. Incomparable("==", v, w) /\ v # w
    BY <1>2, <1>5 DEF Incomparable
  <2> QED BY <1>5, <2>1 DEF Same, Compares
<1>6. CASE ~(v.t = "int" /\ w.t = "float")
  <2>1. Cast(v, w) = w /\ ~Incomparable("==", v, w)
    BY <1>6 DEF Cast, Incomparable
  <2>2. v = w <=> v.t = w.t /\ v.v = w.v
    BY <1>2
  <2> QED BY <1>2, <1>6, <2>1, <2>2 DEF Same, Compares, Holds, Equal
<1> QED BY <1>4, <1>5, <1>6

-----------------------------------------------------------------------------
(* The periods which the expressions begin and end.                        *)

\* What is known of the command line and of the trace.
MatchTyped ==
    /\ line \in DOMAIN EventsOf /\ Accepted(line)
    /\ trace \in Seq(AllEvents) /\ Len(trace) = evt
    /\ phase \in {"end", "begin"} => evt > 0

\* The events with which a period and its parent begin are in the trace.
InTrace(p) ==
    /\ p \in Paths /\ p # Root
    /\ BeginOf(p) \in 1 .. evt
    /\ Parent(p) # Root => BeginOf(Parent(p)) \in 1 .. evt

\* A period is of an active definition, and this one's begin expression
\* matched.
Justified(p) ==
    /\ DefOf(p) \in ActiveDefs
    /\ ~Free(DefOf(p)) =>
          Matches(BeginExpr(DefOf(p)), BeginContext(Parent(p), trace[BeginOf(p)]))

LegacyOf(p)      == SourceOf[DefOf(p)].kind = "legacy"
PairsAt(p, i)    == Pairs(SourceOf[DefOf(p)].arg, trace[BeginOf(p)], trace[i])
UnpairedTo(p, k) == \A i \in BeginOf(p) + 1 .. k : ~PairsAt(p, i)

\* A period of the old options pairs with the event that is ending it, and
\* with none before.
OpenPair(p) ==
    LegacyOf(p) => IF phase = "end" /\ p \in dying
                     THEN PairsAt(p, evt) /\ UnpairedTo(p, evt - 1)
                     ELSE UnpairedTo(p, evt)

EndedPair(r) ==
    LegacyOf(r.period) /\ r.end # NoEvent =>
        PairsAt(r.period, r.end) /\ UnpairedTo(r.period, r.end - 1)

MatchInv ==
    /\ EngineInv
    /\ MatchTyped
    /\ \A p \in Began : InTrace(p) /\ Justified(p)
    /\ \A p \in periods : OpenPair(p)
    /\ \A r \in ended : EndedPair(r)
    /\ AcceptedRaiseForValues

\* The arguments name definitions.
LEMMA ActiveIsDef == ASSUME line \in DOMAIN EventsOf PROVE ActiveDefs \subseteq Defs
<1>1. line \in Seq(Defs)
  BY DefinitionsAssumption
<1> QED BY <1>1 DEF ActiveDefs, Range

\* The command went on because the definition is well formed and legal.
LEMMA AcceptedDef ==
    ASSUME MatchTyped, NEW d \in ActiveDefs, ~Free(d)
    PROVE  /\ d \in Defs /\ WellFormed(d)
           /\ BeginExpr(d) \in Exprs /\ Definition[d].end \in Exprs
           /\ LegalExpr(BeginExpr(d), Definition[d])
           /\ LegalExpr(Definition[d].end, Definition[d])
<1>1. d \in Defs
  BY ActiveIsDef DEF MatchTyped
<1>2. PICK i \in DOMAIN line : d = line[i]
  BY DEF ActiveDefs, Range
<1>3. WellFormed(d) /\ AddError(Registered(line, i - 1), Definition[d]) = "none"
  BY <1>2 DEF MatchTyped, Accepted
<1>4. Legal(Definition[d])
  BY <1>3 DEF AddError
<1>5. BeginExpr(d) \in Exprs /\ Definition[d].end \in Exprs
  BY <1>1, <1>3, DefinitionsAssumption DEF BeginExpr
<1> QED BY <1>1, <1>3, <1>4, <1>5 DEF Legal, BeginExpr

\* Every step is one of the engine.
LEMMA MatchSteps == MatchTyped /\ [MatchNext]_matchVars => [EngineNext]_engineVars
<1> SUFFICES ASSUME MatchTyped, [MatchNext]_matchVars PROVE [EngineNext]_engineVars
  OBVIOUS
<1>1. CASE \E e \in EventsOf[line], M \in SUBSET periods : MatchEnd(e, M)
  BY <1>1 DEF MatchEnd, EngineNext
<1>2. CASE \E d \in ActiveDefs, p \in periods \cup {Root} : MatchBegin(d, p)
  BY <1>2, ActiveIsDef DEF MatchBegin, EngineNext, MatchTyped
<1>3. CASE MatchDone \/ MatchEndingDone \/ \E p \in dying : MatchEnds(p)
  BY <1>3 DEF MatchDone, MatchEndingDone, MatchEnds, EngineNext
<1>4. CASE RemoveAllPeriods \/ RemovalDone
  BY <1>4 DEF EngineNext
<1>5. CASE UNCHANGED matchVars \/ MatchRaises
  BY <1>5 DEF matchVars, MatchRaises
<1> QED BY <1>1, <1>2, <1>3, <1>4, <1>5 DEF MatchNext

\* What was read stays.
KeepsTrace ==
    /\ line' = line /\ evt \in Nat /\ evt' \in Nat /\ evt' >= evt
    /\ \A i \in 1 .. evt : trace'[i] = trace[i]

\* So what it began stays justified, and what it paired stays paired.
LEMMA KeptBegin ==
    ASSUME KeepsTrace, NEW p, InTrace(p), Justified(p)
    PROVE  InTrace(p)' /\ Justified(p)'
<1>1. InTrace(p)'
  BY DEF InTrace, KeepsTrace
<1>2. BeginContext(Parent(p), trace[BeginOf(p)])' = BeginContext(Parent(p), trace[BeginOf(p)])
  BY DEF InTrace, KeepsTrace, BeginContext, BeginEvent
<1>3. ActiveDefs' = ActiveDefs
  BY DEF ActiveDefs, KeepsTrace
<1> QED BY <1>1, <1>2, <1>3 DEF Justified

\* Pairs of events stay pairs.
LEMMA KeptPairs ==
    ASSUME KeepsTrace, NEW p, InTrace(p), NEW i \in 1 .. evt
    PROVE  PairsAt(p, i)' <=> PairsAt(p, i)
BY DEF PairsAt, KeepsTrace, InTrace

\* An event without a partner so far has had none.
LEMMA KeptUnpaired ==
    ASSUME KeepsTrace, NEW p, InTrace(p), NEW k \in Int, k <= evt, UnpairedTo(p, k)
    PROVE  UnpairedTo(p, k)'
<1>1. BeginOf(p) \in 1 .. evt
  BY DEF InTrace
<1>2. ASSUME NEW i \in BeginOf(p) + 1 .. k PROVE ~PairsAt(p, i)'
  <2>1. i \in 1 .. evt
    BY <1>1 DEF KeepsTrace
  <2> QED BY <2>1, KeptPairs DEF UnpairedTo
<1> QED BY <1>2 DEF UnpairedTo

\* A period that ended has the events it had.
LEMMA KeptEnded ==
    ASSUME KeepsTrace, NEW r, InTrace(r.period), r.end # NoEvent => r.end \in Int /\ r.end <= evt,
           BeginOf(r.period) < r.end \/ r.end = NoEvent, EndedPair(r)
    PROVE  EndedPair(r)'
<1> SUFFICES ASSUME LegacyOf(r.period), r.end # NoEvent
             PROVE  PairsAt(r.period, r.end)' /\ UnpairedTo(r.period, r.end - 1)'
  BY DEF EndedPair, LegacyOf
<1>1. PairsAt(r.period, r.end) /\ UnpairedTo(r.period, r.end - 1)
  BY DEF EndedPair
<1>2. BeginOf(r.period) \in 1 .. evt /\ r.end \in Int /\ r.end <= evt
  BY DEF InTrace
<1>3. r.end \in 1 .. evt /\ r.end - 1 \in Int /\ r.end - 1 <= evt
  BY <1>2 DEF KeepsTrace
<1> QED BY <1>1, <1>3, KeptPairs, KeptUnpaired

\* The parts of a definition made of the old options.
EndKeysOf(o) == IF o.endKeys = << >> THEN o.keys ELSE o.endKeys
SameKey(o, i) == Comparison("==", Field(EndKeysOf(o)[i], FALSE), Field(o.keys[i], TRUE))
KeyCount(o) == IF Len(o.keys) < Len(EndKeysOf(o)) THEN Len(o.keys) ELSE Len(EndKeysOf(o))

LEMMA LegacyParts ==
    ASSUME NEW d \in Defs, SourceOf[d].kind = "legacy", NEW o, o = SourceOf[d].arg
    PROVE  /\ Definition[d] = Legacy(o)
           /\ ~Free(d) /\ WellFormed(d)
           /\ o.keys \in Seq(Fields) /\ EndKeysOf(o) \in Seq(Fields) /\ o.end \in Int
           /\ KeyCount(o) \in Nat
           /\ 1 .. KeyCount(o) = DOMAIN o.keys \cap DOMAIN EndKeysOf(o)
<1>1. ~Free(d) /\ WellFormed(d)
  BY DEF Free, WellFormed
<1>2. o.keys \in Seq(Fields) /\ EndKeysOf(o) \in Seq(Fields) /\ o.end \in Int
  BY DefinitionsAssumption DEF EndKeysOf
<1>3. Definition[d] = Legacy(o)
  BY <1>1 DEF Definition
<1>4. /\ Len(o.keys) \in Nat /\ Len(EndKeysOf(o)) \in Nat
      /\ DOMAIN o.keys = 1 .. Len(o.keys) /\ DOMAIN EndKeysOf(o) = 1 .. Len(EndKeysOf(o))
  BY <1>2
<1>5. /\ KeyCount(o) \in Nat
      /\ 1 .. KeyCount(o) = DOMAIN o.keys \cap DOMAIN EndKeysOf(o)
  BY <1>4 DEF KeyCount
<1> QED BY <1>1, <1>2, <1>3, <1>5

\* Its end expression: the name, and each key.
LEMMA LegacyEnd ==
    ASSUME NEW o, o.keys \in Seq(Fields), EndKeysOf(o) \in Seq(Fields), KeyCount(o) \in Nat
    PROVE  LET x == Legacy(o).end IN
           /\ Legacy(o).parent = NoName
           /\ x.op = "and"
           /\ DOMAIN x.of = 1 .. KeyCount(o) + 1
           /\ x.of[1] = NamedEvent(o.end)
           /\ \A i \in 1 .. KeyCount(o) : x.of[i + 1] = SameKey(o, i)
<1> DEFINE keys == Zipped(o.keys, EndKeysOf(o))
           tail == [i \in DOMAIN keys |->
                      Comparison("==", Field(keys[i][2], FALSE), Field(keys[i][1], TRUE))]
<1>1. Legacy(o).parent = NoName
  BY DEF Legacy
<1>2. keys = [i \in 1 .. KeyCount(o) |-> <<o.keys[i], EndKeysOf(o)[i]>>]
  BY DEF Zipped, KeyCount
<1>3. tail = [i \in 1 .. KeyCount(o) |-> SameKey(o, i)]
  BY <1>2 DEF SameKey
<1>4. Legacy(o).end = Joined("and", <<NamedEvent(o.end)>> \o tail)
  BY DEF Legacy, EndKeysOf
<1> HIDE DEF keys, tail
<1>5. Legacy(o).end = [op |-> "and", of |-> <<NamedEvent(o.end)>> \o tail]
  BY <1>4 DEF Joined
<1>6. PICK n : n = NamedEvent(o.end)
  OBVIOUS
<1>7. DEFINE E == {SameKey(o, i) : i \in 1 .. KeyCount(o)} \cup {n}
<1>8. tail \in Seq(E) /\ Len(tail) = KeyCount(o)
  BY <1>3
<1>9. /\ DOMAIN (<<n>> \o tail) = 1 .. KeyCount(o) + 1
      /\ (<<n>> \o tail)[1] = n
      /\ \A i \in 1 .. KeyCount(o) : (<<n>> \o tail)[i + 1] = tail[i]
  <2>1. <<n>> \in Seq(E) /\ Len(<<n>>) = 1
    OBVIOUS
  <2> HIDE DEF E
  <2> QED BY <1>8, <2>1
<1>10. /\ Legacy(o).end.op = "and"
       /\ Legacy(o).end.of = <<n>> \o tail
  BY <1>5, <1>6
<1> QED BY <1>1, <1>3, <1>6, <1>9, <1>10

\* The name of the event is compared with the name asked for.
LEMMA NameMatches ==
    ASSUME NEW n \in Int, NEW x \in Exprs, x = NamedEvent(n), NEW ctx,
           ctx.evt \in AllEvents
    PROVE  Matches(x, ctx) <=> ctx.evt.name = n
<1>1. /\ x.op = "==" /\ x.op \notin Connectives
      /\ x.lh = Field(EventName, FALSE) /\ x.rh = Literal(Str(n))
  BY DEF NamedEvent, Comparison, Connectives
<1>2. Resolve(x.lh, ctx) = Str(ctx.evt.name) /\ Resolve(x.rh, ctx) = Str(n)
  BY <1>1, EventParts DEF Resolve, ResolveEvent, OperandRaises, Field, Literal
<1>3. Str(ctx.evt.name) \in Values /\ Str(n) \in Values /\ ctx.evt.name \in Int
  BY EventParts DEF Str, Values
<1>4. Matches(x, ctx) <=> Same(Str(ctx.evt.name), Str(n))
  BY <1>1, <1>2, <1>3, MatchesComparison, SameCompares
<1>5. Str(ctx.evt.name) # NoValue /\ Str(n) # NoValue
  BY <1>3, ValuesAssumption
<1>6. ctx.evt.name # NaN
  BY <1>3, FloatsAssumption
<1> QED BY <1>3, <1>4, <1>5, <1>6 DEF Same, Str

\* A key of the event is compared with one of the begin event.
LEMMA KeyMatches ==
    ASSUME NEW f \in Fields, NEW g \in Fields, NEW x \in Exprs, NEW ctx,
           x = Comparison("==", Field(f, FALSE), Field(g, TRUE)),
           ctx.evt \in AllEvents, ctx.begin \in AllEvents
    PROVE  Matches(x, ctx) <=> SameValue(ctx.evt, f, g, ctx.begin)
<1>1. /\ x.op = "==" /\ x.op \notin Connectives
      /\ x.lh = Field(f, FALSE) /\ x.rh = Field(g, TRUE)
  BY DEF Comparison, Connectives
<1>2. f # EventName /\ g # EventName
  BY ValuesAssumption
<1>3. Resolve(x.lh, ctx) = FirstField(ctx.evt, f)
  BY <1>1, <1>2, EventParts DEF Resolve, ResolveEvent, OperandRaises, Field
<1>4. Resolve(x.rh, ctx) = FirstField(ctx.begin, g)
  BY <1>1, <1>2, EventParts DEF Resolve, ResolveEvent, OperandRaises, Field
<1>5. FirstField(ctx.evt, f) \in Values \cup {NoValue} /\ FirstField(ctx.begin, g) \in Values \cup {NoValue}
  BY EventParts
<1> QED BY <1>1, <1>3, <1>4, <1>5, MatchesComparison, SameCompares DEF SameValue

\* An event matches the end expression if and only if it pairs.
LEMMA EndIsPair ==
    ASSUME NEW d \in Defs, SourceOf[d].kind = "legacy", NEW ctx,
           ctx.evt \in AllEvents, ctx.begin \in AllEvents
    PROVE  Matches(Definition[d].end, ctx) <=> Pairs(SourceOf[d].arg, ctx.begin, ctx.evt)
<1>1. PICK o : o = SourceOf[d].arg
  OBVIOUS
<1>2. /\ Definition[d] = Legacy(o) /\ ~Free(d) /\ WellFormed(d)
      /\ o.keys \in Seq(Fields) /\ EndKeysOf(o) \in Seq(Fields) /\ o.end \in Int
      /\ KeyCount(o) \in Nat
      /\ 1 .. KeyCount(o) = DOMAIN o.keys \cap DOMAIN EndKeysOf(o)
  BY <1>1, LegacyParts
<1>3. PICK x : x = Definition[d].end
  OBVIOUS
<1>4. x \in Exprs
  BY <1>2, <1>3, DefinitionsAssumption
<1>5. /\ x.op = "and" /\ DOMAIN x.of = 1 .. KeyCount(o) + 1
      /\ x.of[1] = NamedEvent(o.end)
      /\ \A i \in 1 .. KeyCount(o) : x.of[i + 1] = SameKey(o, i)
  BY <1>2, <1>3, LegacyEnd
<1>6. \A i \in DOMAIN x.of : x.of[i] \in Exprs
  BY <1>4, <1>5, PartsBelow DEF Connectives
<1>7. 1 \in DOMAIN x.of /\ (Matches(x.of[1], ctx) <=> ctx.evt.name = o.end)
  <2>1. 1 \in 1 .. KeyCount(o) + 1
    BY <1>2
  <2>2. PICK y : y = x.of[1]
    OBVIOUS
  <2>3. 1 \in DOMAIN x.of /\ y \in Exprs /\ y = NamedEvent(o.end)
    BY <1>5, <1>6, <2>1, <2>2
  <2>4. Matches(y, ctx) <=> ctx.evt.name = o.end
    BY <1>2, <2>3, NameMatches
  <2> QED BY <2>2, <2>3, <2>4
<1>8. ASSUME NEW i \in 1 .. KeyCount(o)
      PROVE  /\ i + 1 \in DOMAIN x.of
             /\ Matches(x.of[i + 1], ctx) <=> SameValue(ctx.evt, EndKeysOf(o)[i], o.keys[i], ctx.begin)
  <2>1. i + 1 \in 1 .. KeyCount(o) + 1
    BY <1>2
  <2>2. o.keys[i] \in Fields /\ EndKeysOf(o)[i] \in Fields
    BY <1>2
  <2>3. x.of[i + 1] = Comparison("==", Field(EndKeysOf(o)[i], FALSE), Field(o.keys[i], TRUE))
    BY <1>5 DEF SameKey
  <2> QED BY <1>5, <1>6, <2>1, <2>2, <2>3, KeyMatches
<1>9. \A j \in DOMAIN x.of : j = 1 \/ \E i \in 1 .. KeyCount(o) : j = i + 1
  <2> SUFFICES ASSUME NEW j \in 1 .. KeyCount(o) + 1, j # 1
               PROVE  \E i \in 1 .. KeyCount(o) : j = i + 1
    BY <1>5
  <2>1. j - 1 \in 1 .. KeyCount(o) /\ j = (j - 1) + 1
    BY <1>2
  <2> QED BY <2>1
<1>10. Matches(x, ctx) <=> \A j \in DOMAIN x.of : Matches(x.of[j], ctx)
  BY <1>4, <1>5, MatchesAnd
<1>11. Matches(x, ctx) <=>
          /\ ctx.evt.name = o.end
          /\ \A i \in 1 .. KeyCount(o) : SameValue(ctx.evt, EndKeysOf(o)[i], o.keys[i], ctx.begin)
  BY <1>7, <1>8, <1>9, <1>10
<1>12. Pairs(o, ctx.begin, ctx.evt) <=>
          /\ ctx.evt.name = o.end
          /\ \A i \in 1 .. KeyCount(o) : SameValue(ctx.evt, EndKeysOf(o)[i], o.keys[i], ctx.begin)
  BY <1>2 DEF Pairs, EndKeysOf
<1> QED BY <1>1, <1>3, <1>11, <1>12

\* Where a period begins, its parent, its definition.
LEMMA BeganParts ==
    ASSUME MatchInv, NEW p \in Began
    PROVE  /\ p \in Paths /\ p # Root /\ BeginOf(p) \in 1 .. evt
           /\ DefOf(p) \in Defs /\ trace[BeginOf(p)] \in AllEvents
           /\ Parent(p) # Root => trace[BeginOf(Parent(p))] \in AllEvents
<1>1. InTrace(p) /\ Justified(p) /\ MatchTyped
  BY DEF MatchInv
<1>2. DefOf(p) \in Defs
  BY <1>1, ActiveIsDef DEF Justified, MatchTyped
<1> QED BY <1>1, <1>2 DEF InTrace, MatchTyped

\* A definition of the old options has no parent.
LEMMA LegacyIsRoot ==
    ASSUME MatchInv, NEW p \in periods, LegacyOf(p)
    PROVE  Parent(p) = Root
<1>1. p \in Paths /\ p # Root /\ DefOf(p) \in Defs
  BY BeganParts DEF Began
<1>2. PICK o : o = SourceOf[DefOf(p)].arg
  OBVIOUS
<1>3. /\ Definition[DefOf(p)] = Legacy(o) /\ ~Free(DefOf(p))
      /\ o.keys \in Seq(Fields) /\ EndKeysOf(o) \in Seq(Fields) /\ KeyCount(o) \in Nat
  BY <1>1, <1>2, LegacyParts DEF LegacyOf
<1>4. Definition[DefOf(p)].parent = NoName
  BY <1>3, LegacyEnd
<1>5. ParentDef[DefOf(p)] = NoDef
  BY <1>1, <1>3, <1>4, ParentsAssumption
<1>6. DefOf(Parent(p)) = NoDef
  BY <1>5 DEF MatchInv, EngineInv, ParentIsOpen
<1>7. SUFFICES ASSUME Parent(p) # Root PROVE FALSE
  OBVIOUS
<1>8. Parent(p) \in Paths
  BY <1>1, ParentPath
<1>9. Last(Parent(p)) \in Instances
  BY <1>7, <1>8, ParentPath
<1> QED BY <1>6, <1>7, <1>9, DefsAssumption DEF DefOf, Instances

\* The event reads the end expression of a period of the old options: it is
\* to be ended if and only if the event pairs with the one that began it.
LEMMA EndsIfPairs ==
    ASSUME MatchInv, NEW e \in AllEvents, NEW p \in periods, LegacyOf(p),
           NEW M \in SUBSET periods,
           \A q \in periods : ~Free(DefOf(q)) =>
              (q \in M <=> Matches(EndExpr(q), EndContext(q, e)))
    PROVE  p \in Doomed(M) <=> Pairs(SourceOf[DefOf(p)].arg, trace[BeginOf(p)], e)
<1>1. p \in Paths /\ p # Root /\ DefOf(p) \in Defs /\ trace[BeginOf(p)] \in AllEvents
  BY BeganParts DEF Began
<1>2. p \in Doomed(M) <=> p \in M
  <2>1. p \in M => p \in Doomed(M)
    BY <1>1, PrefixSelf DEF Doomed
  <2>2. ASSUME p \in Doomed(M) PROVE p \in M
    <3>1. PICK m \in M : IsPrefix(m, p)
      BY <2>2 DEF Doomed
    <3>2. m \in Paths /\ m # Root
      BY <3>1, BeganParts DEF Began
    <3>3. SUFFICES ASSUME m # p PROVE FALSE
      BY <3>1
    <3>4. IsPrefix(m, Parent(p))
      BY <1>1, <3>1, <3>2, <3>3, PrefixOfParent
    <3>5. Parent(p) = Root
      BY LegacyIsRoot
    <3>6. IsPrefix(m, Root) /\ Root \in Paths /\ Len(Root) = 0
      BY <3>4, <3>5 DEF Root, Paths
    <3>7. Len(m) <= 0 /\ Len(m) \in Nat \ {0}
      BY <3>2, <3>6, PrefixPath, ParentPath
    <3> QED BY <3>7
  <2> QED BY <2>1, <2>2
<1>3. PICK ctx : ctx = EndContext(p, e)
  OBVIOUS
<1>4. ctx.evt = e /\ ctx.begin = trace[BeginOf(p)]
  BY <1>1, <1>3 DEF EndContext, BeginEvent
<1>5. ~Free(DefOf(p))
  BY DEF LegacyOf, Free
<1>6. Matches(Definition[DefOf(p)].end, ctx) <=> Pairs(SourceOf[DefOf(p)].arg, trace[BeginOf(p)], e)
  BY <1>1, <1>4, EndIsPair DEF LegacyOf
<1> QED BY <1>2, <1>3, <1>5, <1>6 DEF EndExpr

-----------------------------------------------------------------------------
\* Nothing is open and nothing was read before the first event.
LEMMA MatchStart == MatchInit => MatchInv
<1> SUFFICES ASSUME MatchInit PROVE MatchInv
  OBVIOUS
<1>1. EngineInv /\ periods = {} /\ ended = {} /\ phase = "idle" /\ evt = 0
  BY InitInv DEF MatchInit, EngineInit
<1>2. trace = << >> /\ raised = "none" /\ Accepted(line) /\ line \in DOMAIN EventsOf
  BY DEF MatchInit
<1> QED BY <1>1, <1>2 DEF MatchInv, MatchTyped, Began, AcceptedRaiseForValues

\* The trace gets one more event.
LEMMA TraceGrows ==
    ASSUME MatchTyped, evt \in Nat, NEW e \in EventsOf[line],
           evt' = evt + 1, trace' = Append(trace, e), line' = line
    PROVE  /\ KeepsTrace /\ e \in AllEvents
           /\ trace' \in Seq(AllEvents) /\ Len(trace') = evt' /\ trace'[evt + 1] = e
<1>1. e \in AllEvents
  BY DEF AllEvents, Range, MatchTyped
<1>2. trace \in Seq(AllEvents) /\ Len(trace) = evt
  BY DEF MatchTyped
<1> HIDE DEF AllEvents
<1> QED BY <1>1, <1>2 DEF KeepsTrace

\* A step that keeps what was read keeps what is known of the periods there
\* were.
LEMMA KeptPeriods ==
    ASSUME MatchInv, KeepsTrace
    PROVE  /\ \A p \in Began : InTrace(p)' /\ Justified(p)'
           /\ \A r \in ended : EndedPair(r)'
<1>1. ASSUME NEW p \in Began PROVE InTrace(p)' /\ Justified(p)'
  BY KeptBegin DEF MatchInv
<1>2. ASSUME NEW r \in ended PROVE EndedPair(r)'
  <2>1. InTrace(r.period) /\ EndedPair(r)
    BY DEF MatchInv, Began
  <2>2. r.end # NoEvent => r.end \in Int /\ r.end <= evt /\ BeginOf(r.period) < r.end
    BY DEF MatchInv, EngineInv, Ended, Typed, Records
  <2> QED BY <2>1, <2>2, KeptEnded
<1> QED BY <1>1, <1>2

\* An event ends the periods it pairs with.
LEMMA MatchEndInv ==
    ASSUME MatchInv, EngineInv', NEW e \in EventsOf[line], NEW M \in SUBSET periods,
           MatchEnd(e, M), raised = "none"
    PROVE  MatchInv'
<1>1. /\ phase = "idle" /\ evt' = evt + 1 /\ phase' = "end" /\ dying' = Doomed(M)
      /\ periods' = periods /\ ended' = ended
      /\ trace' = Append(trace, e) /\ line' = line
      /\ \A q \in periods : ~Free(DefOf(q)) =>
              (q \in M <=> Matches(EndExpr(q), EndContext(q, e)))
  BY DEF MatchEnd, ProcessEvent
<1>2. MatchTyped /\ evt \in Nat
  BY DEF MatchInv, EngineInv, Typed
<1>3. /\ KeepsTrace /\ e \in AllEvents
      /\ trace' \in Seq(AllEvents) /\ Len(trace') = evt' /\ trace'[evt + 1] = e
  BY <1>1, <1>2, TraceGrows
<1>4. MatchTyped'
  BY <1>1, <1>2, <1>3 DEF MatchTyped, Accepted
<1>5. \A p \in Began' : InTrace(p)' /\ Justified(p)'
  BY <1>1, <1>3, KeptPeriods DEF Began
<1>6. \A r \in ended' : EndedPair(r)'
  BY <1>1, <1>3, KeptPeriods
<1>7. ASSUME NEW p \in periods' PROVE OpenPair(p)'
  <2> SUFFICES ASSUME LegacyOf(p) PROVE OpenPair(p)'
    BY DEF OpenPair, LegacyOf
  <2>0. PICK n : n = evt
    OBVIOUS
  <2>1. /\ p \in periods /\ InTrace(p) /\ BeginOf(p) \in 1 .. n
        /\ n \in Nat /\ evt' = n + 1 /\ trace'[n + 1] = e
    BY <1>1, <1>2, <1>3, <2>0 DEF MatchInv, Began, InTrace
  <2>2. UnpairedTo(p, n)
    BY <1>1, <2>0, <2>1 DEF MatchInv, OpenPair
  <2>3. UnpairedTo(p, n)'
    BY <1>3, <2>0, <2>1, <2>2, KeptUnpaired
  <2>4. PairsAt(p, n + 1)' <=> Pairs(SourceOf[DefOf(p)].arg, trace[BeginOf(p)], e)
    <3>1. trace'[BeginOf(p)] = trace[BeginOf(p)]
      BY <1>3, <2>0, <2>1 DEF KeepsTrace
    <3>2. PairsAt(p, n + 1)' <=> Pairs(SourceOf[DefOf(p)].arg, trace'[BeginOf(p)], trace'[n + 1])
      BY DEF PairsAt
    <3> QED BY <2>1, <3>1, <3>2
  <2>5. p \in dying' <=> PairsAt(p, n + 1)'
    BY <1>1, <1>3, <2>1, <2>4, EndsIfPairs
  <2>6. ~PairsAt(p, n + 1)' => UnpairedTo(p, n + 1)'
    <3>1. \A i \in BeginOf(p) + 1 .. n + 1 : i = n + 1 \/ i \in BeginOf(p) + 1 .. n
      BY <2>1
    <3> QED BY <2>3, <3>1 DEF UnpairedTo
  <2>7. evt' = n + 1 /\ evt' - 1 = n
    BY <2>1
  <2>8. p \in dying' => PairsAt(p, evt)' /\ UnpairedTo(p, evt - 1)'
    BY <2>3, <2>5, <2>7 DEF PairsAt, UnpairedTo
  <2>9. p \notin dying' => UnpairedTo(p, evt)'
    BY <2>5, <2>6, <2>7 DEF UnpairedTo
  <2> QED BY <1>1, <2>8, <2>9 DEF OpenPair
<1>8. AcceptedRaiseForValues'
  BY DEF MatchEnd, AcceptedRaiseForValues
<1> QED BY <1>4, <1>5, <1>6, <1>7, <1>8 DEF MatchInv

\* Nothing is read.
LEMMA NotRead ==
    ASSUME MatchInv, UNCHANGED <<evt, line, trace>>, phase' \in {"end", "begin"} => evt > 0
    PROVE  KeepsTrace /\ MatchTyped'
<1>1. evt \in Nat /\ MatchTyped
  BY DEF MatchInv, EngineInv, Typed
<1>2. KeepsTrace
  BY <1>1 DEF KeepsTrace
<1>3. MatchTyped'
  BY <1>1 DEF MatchTyped, Accepted
<1> QED BY <1>2, <1>3

\* A period begins where its begin expression matches.
LEMMA MatchBeginInv ==
    ASSUME MatchInv, EngineInv', NEW d \in ActiveDefs, NEW p \in periods \cup {Root},
           MatchBegin(d, p), raised = "none"
    PROVE  MatchInv'
<1>1. PICK x : x = [def |-> d, begin |-> evt]
  OBVIOUS
<1>2. PICK q : q = Append(p, x)
  OBVIOUS
<1>3. /\ phase = "begin" /\ phase' = phase /\ evt' = evt /\ dying' = dying /\ ended' = ended
      /\ periods' = periods \cup {q}
      /\ UNCHANGED <<line, trace>>
  BY <1>1, <1>2 DEF MatchBegin, BeginPeriod
<1>4. /\ MatchTyped /\ evt \in Nat /\ evt > 0 /\ d \in Defs /\ dying = {}
  BY <1>3, ActiveIsDef DEF MatchInv, MatchTyped, EngineInv, Typed
<1>5. KeepsTrace /\ MatchTyped'
  BY <1>3, <1>4, NotRead
<1>6. p \in Paths /\ x \in Instances /\ (p # Root => p \in Began)
  <2>1. periods \subseteq Paths /\ Root \in Paths
    BY DEF MatchInv, EngineInv, Typed, Root, Paths
  <2>2. x \in Instances
    BY <1>1, <1>4 DEF Instances
  <2> QED BY <2>1, <2>2 DEF Began
<1>7. /\ q \in Paths /\ q # Root /\ Parent(q) = p /\ Last(q) = x
      /\ DefOf(q) = d /\ BeginOf(q) = evt
  BY <1>1, <1>2, <1>6, ChildPath DEF DefOf, BeginOf
<1>8. p # Root => BeginOf(p) \in 1 .. evt
  BY <1>6, BeganParts
<1>9. InTrace(q)'
  BY <1>3, <1>4, <1>7, <1>8 DEF InTrace
<1>10. Justified(q)'
  <2>1. Last(trace) = trace[evt]
    BY <1>4 DEF Last, MatchTyped
  <2>2. ~Free(d) => Matches(BeginExpr(d), BeginContext(p, trace[evt]))
    BY <2>1 DEF MatchBegin, ToBegin
  <2>3. BeginContext(p, trace[evt])' = BeginContext(p, trace[evt])
    BY <1>3 DEF BeginContext, BeginEvent
  <2>4. ActiveDefs' = ActiveDefs
    BY <1>3 DEF ActiveDefs
  <2> QED BY <1>3, <1>7, <2>2, <2>3, <2>4 DEF Justified
<1>11. \A r \in Began' : InTrace(r)' /\ Justified(r)'
  BY <1>3, <1>5, <1>9, <1>10, KeptPeriods DEF Began
<1>12. \A r \in ended' : EndedPair(r)'
  BY <1>3, <1>5, KeptPeriods
<1>13. ASSUME NEW r \in periods' PROVE OpenPair(r)'
  <2>1. CASE r = q
    <3>1. UnpairedTo(r, evt)'
      BY <1>3, <1>4, <1>7, <2>1 DEF UnpairedTo
    <3> QED BY <1>3, <3>1 DEF OpenPair
  <2>2. CASE r \in periods
    <3>1. OpenPair(r)
      BY <2>2 DEF MatchInv
    <3> QED BY <1>3, <1>4, <3>1 DEF OpenPair, LegacyOf, UnpairedTo, PairsAt
  <2> QED BY <1>3, <2>1, <2>2
<1>14. AcceptedRaiseForValues'
  BY DEF MatchBegin, AcceptedRaiseForValues
<1> QED BY <1>5, <1>11, <1>12, <1>13, <1>14 DEF MatchInv

\* Steps which neither read nor begin anything.
LEMMA MatchStays ==
    ASSUME MatchInv, EngineInv', UNCHANGED <<periods, ended, evt, line, trace>>,
           phase # "end" \/ dying = {}, phase' # "end" \/ dying' = {},
           phase' \in {"end", "begin"} => phase \in {"end", "begin"},
           AcceptedRaiseForValues'
    PROVE  MatchInv'
<1>1. KeepsTrace /\ MatchTyped'
  <2>1. MatchTyped
    BY DEF MatchInv
  <2> QED BY <2>1, NotRead DEF MatchTyped
<1>2. \A r \in Began' : InTrace(r)' /\ Justified(r)'
  BY <1>1, KeptPeriods DEF Began
<1>3. \A r \in ended' : EndedPair(r)'
  BY <1>1, KeptPeriods
<1>4. ASSUME NEW r \in periods' PROVE OpenPair(r)'
  <2>1. OpenPair(r)
    BY DEF MatchInv
  <2> QED BY <2>1 DEF OpenPair, LegacyOf, UnpairedTo, PairsAt
<1> QED BY <1>1, <1>2, <1>3, <1>4 DEF MatchInv

\* A period leaves the open ones, with the event that pairs with it.
LEMMA MatchEndsInv ==
    ASSUME MatchInv, EngineInv', NEW p \in dying, MatchEnds(p), raised = "none"
    PROVE  MatchInv'
<1>1. PICK r : r = [period |-> p, end |-> IF phase = "end" THEN evt ELSE NoEvent,
                    completed |-> p \in matched]
  OBVIOUS
<1>2. /\ phase \in {"end", "remove"} /\ periods' = periods \ {p} /\ dying' = dying \ {p}
      /\ ended' = ended \cup {r} /\ evt' = evt /\ phase' = phase
      /\ UNCHANGED <<line, trace>>
  BY <1>1 DEF MatchEnds, EndPeriod
<1>3. p \in periods /\ evt \in Nat /\ MatchTyped /\ AcceptedRaiseForValues'
  BY DEF MatchInv, EngineInv, Typed, MatchEnds, AcceptedRaiseForValues
<1>4. KeepsTrace /\ MatchTyped'
  BY <1>2, <1>3, NotRead DEF MatchTyped
<1>5. r.period = p /\ r.end = IF phase = "end" THEN evt ELSE NoEvent
  BY <1>1
<1>6. Began' \subseteq Began
  BY <1>2, <1>3, <1>5 DEF Began
<1>7. \A q \in Began' : InTrace(q)' /\ Justified(q)'
  BY <1>4, <1>6, KeptPeriods
<1>8. EndedPair(r)'
  <2>1. InTrace(p) /\ OpenPair(p)
    BY <1>3 DEF MatchInv, Began
  <2>2. CASE LegacyOf(p) /\ phase = "end"
    <3>1. PairsAt(p, r.end) /\ UnpairedTo(p, r.end - 1)
      BY <1>5, <2>1, <2>2 DEF OpenPair
    <3> QED BY <1>2, <1>5, <3>1 DEF EndedPair, PairsAt, UnpairedTo
  <2>3. CASE ~(LegacyOf(p) /\ phase = "end")
    BY <1>5, <2>3 DEF EndedPair, LegacyOf
  <2> QED BY <2>2, <2>3
<1>9. \A s \in ended' : EndedPair(s)'
  BY <1>2, <1>4, <1>8, KeptPeriods
<1>10. ASSUME NEW q \in periods' PROVE OpenPair(q)'
  <2>1. OpenPair(q) /\ q # p
    BY <1>2 DEF MatchInv
  <2> QED BY <1>2, <2>1 DEF OpenPair, LegacyOf, UnpairedTo, PairsAt
<1> QED BY <1>3, <1>4, <1>7, <1>9, <1>10 DEF MatchInv

\* Nor do those which leave the engine where it is.
LEMMA MatchUnmoved ==
    ASSUME MatchInv, EngineInv', UNCHANGED <<engineVars, line, trace>>, AcceptedRaiseForValues'
    PROVE  MatchInv'
<1>1. UNCHANGED <<periods, ended, evt, line, trace, phase, dying>>
  BY DEF engineVars
<1>2. MatchTyped
  BY DEF MatchInv
<1>3. \A r \in Began' : InTrace(r)' /\ Justified(r)'
  BY <1>1, <1>2, NotRead, KeptPeriods DEF Began, MatchTyped
<1>4. MatchTyped' /\ \A r \in ended' : EndedPair(r)'
  BY <1>1, <1>2, NotRead, KeptPeriods DEF MatchTyped
<1>5. ASSUME NEW r \in periods' PROVE OpenPair(r)'
  <2>1. OpenPair(r)
    BY <1>1 DEF MatchInv
  <2> QED BY <1>1, <2>1 DEF OpenPair, LegacyOf, UnpairedTo, PairsAt
<1> QED BY <1>1, <1>3, <1>4, <1>5 DEF MatchInv

\* The contexts in which the engine evaluates are of events of the trace.
LEMMA ContextsInTrace ==
    ASSUME MatchInv, phase \in {"end", "begin"}, NEW T, T = Range(trace)
    PROVE  /\ \A p \in periods : InContext(EndContext(p, Last(trace)), T)
           /\ \A p \in periods \cup {Root} : InContext(BeginContext(p, Last(trace)), T)
<1>1. trace \in Seq(AllEvents) /\ Len(trace) = evt /\ evt > 0 /\ evt \in Nat
  BY DEF MatchInv, MatchTyped, EngineInv, Typed
<1>2. \A i \in 1 .. evt : trace[i] \in T
  BY <1>1 DEF Range
<1>3. Last(trace) \in T
  BY <1>1, <1>2 DEF Last
<1>4. \A p \in periods : /\ BeginEvent(p) = NoEvt \/ BeginEvent(p) \in T
                         /\ BeginEvent(Parent(p)) = NoEvt \/ BeginEvent(Parent(p)) \in T
  BY <1>2 DEF MatchInv, Began, InTrace, BeginEvent
<1>5. BeginEvent(Root) = NoEvt
  BY DEF BeginEvent
<1> QED BY <1>3, <1>4, <1>5 DEF InContext, EndContext, BeginContext

\* What the expressions of an accepted definition find that has no order or is
\* not finite is in the definition or in the trace.
LEMMA OddIsCompared ==
    ASSUME MatchInv, NEW d \in ActiveDefs, ~Free(d), NEW x,
           x = BeginExpr(d) \/ x = Definition[d].end,
           NEW v \in LiteralsIn(x) \cup Found(Range(trace)), v # NoValue, ~Ordinary(v)
    PROVE  v \in Compared
<1>1. CASE v \in LiteralsIn(x)
  BY <1>1 DEF Compared
<1>2. CASE v \in Found(Range(trace))
  <2>1. \A e \in Range(trace) : e.name \in Int
    <3>1. trace \in Seq(AllEvents)
      BY DEF MatchInv, MatchTyped
    <3>2. \A e \in Range(trace) : e \in AllEvents
      BY <3>1 DEF Range
    <3> QED BY <3>2, EventParts
  <2>2. \A e \in Range(trace) : Ordinary(Str(e.name))
    BY <2>1 DEF Ordinary, Str
  <2>3. PICK e \in Range(trace) : v \in Range(e.fields)
    BY <1>2, <2>2 DEF Found
  <2>4. PICK i \in DOMAIN trace : e = trace[i]
    BY <2>3 DEF Range
  <2> QED BY <2>3, <2>4 DEF Compared
<1> QED BY <1>1, <1>2

\* The engine raises what the evaluation of an accepted definition raises, or
\* a capture.
LEMMA RaisedForValues ==
    ASSUME MatchInv, MatchRaises
    PROVE  AcceptedRaiseForValues'
<1>0. /\ phase \in {"end", "begin"} /\ UNCHANGED <<line, trace>>
      /\ raised' \in IF phase = "end" THEN UNION {EndErrors(p) : p \in periods}
                     ELSE UNION {BeginErrors(p) : p \in periods \cup {Root}}
  BY DEF MatchRaises
<1>1. PICK T : T = Range(trace)
  OBVIOUS
<1>2. PICK d, x, ctx, which :
          /\ d \in ActiveDefs /\ ~Free(d) /\ x \in {BeginExpr(d), Definition[d].end} /\ InContext(ctx, T)
          /\ raised' \in EngineErrors(d, which, x, ctx)
  <2>1. CASE phase = "end"
    <3>1. PICK p \in periods : raised' \in EndErrors(p)
      BY <1>0, <2>1
    <3>2. /\ ~Free(DefOf(p))
          /\ raised' \in EngineErrors(DefOf(p), "end", Definition[DefOf(p)].end, EndContext(p, Last(trace)))
      BY <3>1 DEF EndErrors, EndExpr
    <3>3. DefOf(p) \in ActiveDefs
      BY DEF MatchInv, Began, Justified
    <3>4. InContext(EndContext(p, Last(trace)), T)
      BY <1>0, <1>1, ContextsInTrace
    <3> QED BY <3>2, <3>3, <3>4
  <2>2. CASE phase # "end"
    <3>1. PICK p \in periods \cup {Root} : raised' \in BeginErrors(p)
      BY <1>0, <2>2
    <3>2. PICK d \in DefsUnder(p) :
             raised' \in EngineErrors(d, "begin", BeginExpr(d), BeginContext(p, Last(trace)))
      BY <3>1 DEF BeginErrors
    <3>3. d \in ActiveDefs /\ ~Free(d)
      BY DEF DefsUnder
    <3>4. InContext(BeginContext(p, Last(trace)), T)
      BY <1>0, <1>1, ContextsInTrace
    <3> QED BY <3>2, <3>3, <3>4
  <2> QED BY <2>1, <2>2
<1>3. x \in Exprs /\ LegalExpr(x, Definition[d])
  <2>1. MatchTyped
    BY DEF MatchInv
  <2> QED BY <1>2, <2>1, AcceptedDef
<1>4. "operand" \notin Errors(x, ctx)
  BY <1>3, LegalNeverRaises
<1>5. raised' \in Errors(x, ctx) \/ raised' = "capture"
  BY <1>2 DEF EngineErrors
<1>6. raised' # "operand"
  BY <1>4, <1>5
<1>7. Compared' = Compared
  BY <1>0 DEF Compared, ActiveDefs
<1>8. ASSUME raised' = "value" PROVE \E v \in Compared : ~Ordinary(v)
  <2>1. "value" \in Errors(x, ctx)
    BY <1>5, <1>8
  <2>2. PICK v \in LiteralsIn(x) \cup Found(T) : v # NoValue /\ ~Ordinary(v)
    BY <1>2, <1>3, <2>1, ValuesRaise
  <2>3. v \in Compared
    BY <1>1, <1>2, <2>2, OddIsCompared
  <2> QED BY <2>2, <2>3
<1> QED BY <1>6, <1>7, <1>8 DEF AcceptedRaiseForValues

\* Each action keeps the invariant, and the engine does nothing else.
LEMMA MatchNextInv == MatchInv /\ [MatchNext]_matchVars => MatchInv'
<1> SUFFICES ASSUME MatchInv, [MatchNext]_matchVars PROVE MatchInv'
  OBVIOUS
<1>0. /\ EngineInv' /\ EngineInv /\ MatchTyped
  BY MatchSteps, NextInv DEF MatchInv
<1>t. phase \notin {"end", "remove"} => dying = {}
  BY <1>0 DEF EngineInv, Typed
<1>n. MatchNext => raised = "none"
  BY DEF MatchNext
<1>u. raised = "none" /\ raised' = raised => AcceptedRaiseForValues'
  BY DEF AcceptedRaiseForValues
<1>1. CASE MatchNext /\ \E e \in EventsOf[line], M \in SUBSET periods : MatchEnd(e, M)
  BY <1>0, <1>1, <1>n, MatchEndInv
<1>2. CASE MatchNext /\ \E d \in ActiveDefs, p \in periods \cup {Root} : MatchBegin(d, p)
  BY <1>0, <1>2, <1>n, MatchBeginInv
<1>3. CASE MatchNext /\ MatchDone
  <2>1. /\ UNCHANGED <<periods, ended, evt, line, trace>> /\ raised' = raised
        /\ phase = "begin" /\ phase' = "idle"
    BY <1>3 DEF MatchDone, EventDone
  <2> QED BY <1>0, <1>3, <1>n, <1>u, <2>1, MatchStays
<1>4. CASE MatchNext /\ \E p \in dying : MatchEnds(p)
  BY <1>0, <1>4, <1>n, MatchEndsInv
<1>5. CASE MatchNext /\ MatchEndingDone
  <2>1. /\ UNCHANGED <<periods, ended, evt, line, trace>> /\ raised' = raised
        /\ phase = "end" /\ phase' = "begin" /\ dying = {}
    BY <1>5 DEF MatchEndingDone, EndingDone
  <2> QED BY <1>0, <1>5, <1>n, <1>u, <2>1, MatchStays
<1>6. CASE MatchNext /\ RemoveAllPeriods /\ UNCHANGED <<line, trace, raised>>
  <2>1. /\ UNCHANGED <<periods, ended, evt, line, trace>> /\ raised' = raised
        /\ phase = "idle" /\ phase' = "remove"
    BY <1>6 DEF RemoveAllPeriods
  <2> QED BY <1>0, <1>6, <1>n, <1>u, <2>1, MatchStays
<1>7. CASE MatchNext /\ RemovalDone /\ UNCHANGED <<line, trace, raised>>
  <2>1. /\ UNCHANGED <<periods, ended, evt, line, trace>> /\ raised' = raised
        /\ phase = "remove" /\ phase' = "done"
    BY <1>7 DEF RemovalDone
  <2> QED BY <1>0, <1>7, <1>n, <1>u, <2>1, MatchStays
<1>8. CASE MatchNext /\ MatchRaises
  <2>1. UNCHANGED <<engineVars, line, trace>>
    BY <1>8 DEF MatchRaises
  <2>2. AcceptedRaiseForValues'
    BY <1>8, RaisedForValues
  <2> QED BY <1>0, <2>1, <2>2, MatchUnmoved
<1>9. CASE UNCHANGED matchVars
  <2>1. UNCHANGED <<engineVars, line, trace>> /\ raised' = raised
    BY <1>9 DEF matchVars
  <2>2. Compared' = Compared
    BY <2>1 DEF Compared, ActiveDefs
  <2>3. AcceptedRaiseForValues'
    BY <2>1, <2>2 DEF MatchInv, AcceptedRaiseForValues
  <2> QED BY <1>0, <2>1, <2>3, MatchUnmoved
<1> QED BY <1>1, <1>2, <1>3, <1>4, <1>5, <1>6, <1>7, <1>8, <1>9 DEF MatchNext

\* The invariant of the engine and its expressions.
LEMMA MatchInvariant == MatchSpec => []MatchInv
BY MatchStart, MatchNextInv, PTL DEF MatchSpec

\* The child's begin expression had to match, and this conjunct of it too.
LEMMA ParentMatched == MatchInv => ChildrenMatchTheirParent
<1> SUFFICES ASSUME MatchInv, NEW p \in Began, ~Free(DefOf(p)), NEW f \in Keys,
                    AsInParent(f) \in Conjuncts(BeginExpr(DefOf(p)))
             PROVE  SameValue(trace[BeginOf(p)], f, f, BeginEvent(Parent(p)))
  BY DEF ChildrenMatchTheirParent
<1>1. Justified(p) /\ MatchTyped
  BY DEF MatchInv
<1>2. BeginExpr(DefOf(p)) \in Exprs
  BY <1>1, AcceptedDef DEF Justified
<1>3. PICK ctx : ctx = BeginContext(Parent(p), trace[BeginOf(p)])
  OBVIOUS
<1>4. Matches(BeginExpr(DefOf(p)), ctx)
  BY <1>1, <1>3 DEF Justified
<1>5. PICK x : x = AsInParent(f)
  OBVIOUS
<1>6. x \in Exprs /\ Matches(x, ctx)
  BY <1>2, <1>4, <1>5, ConjunctsMatch
<1>7. /\ x.op = "==" /\ x.op \notin Connectives /\ x.lh = Field(f, FALSE)
      /\ x.rh = [Field(f, TRUE) EXCEPT !.parent = TRUE]
  BY <1>5 DEF AsInParent, Comparison, Connectives
<1>8. PICK y : y = x.rh
  OBVIOUS
<1>9. y.kind = "evt" /\ y.parent = TRUE /\ y.begin = TRUE /\ y.dyn = "auto" /\ y.field = f
  BY <1>7, <1>8 DEF Field
<1>10. f # EventName
  <2>1. PICK i \in DOMAIN trace : \E k \in DOMAIN trace[i].fields : f = k[2]
    BY DEF Keys
  <2>2. trace[i] \in AllEvents
    BY <1>1, <2>1 DEF MatchTyped
  <2>3. DOMAIN trace[i].fields \subseteq ToSet(Scopes) \X Fields
    BY <2>2, EventsAssumption DEF AllEvents
  <2>4. f \in Fields
    BY <2>1, <2>3
  <2> QED BY <2>4, ValuesAssumption
<1>11. PICK b : b = trace[BeginOf(p)]
  OBVIOUS
<1>12. PICK a : a = BeginEvent(Parent(p))
  OBVIOUS
<1>13. b \in AllEvents /\ (a = NoEvt \/ a \in AllEvents)
  BY <1>11, <1>12, BeganParts DEF BeginEvent
<1>14. ctx.evt = b /\ ctx.parent = a
  BY <1>3, <1>11, <1>12 DEF BeginContext
<1>15. Resolve(x.lh, ctx) = FirstField(b, f)
  BY <1>7, <1>10, <1>13, <1>14, EventParts DEF Resolve, ResolveEvent, OperandRaises, Field
<1>16. Resolve(y, ctx) = IF a = NoEvt THEN NoValue ELSE FirstField(a, f)
  BY <1>9, <1>10, <1>14 DEF Resolve, ResolveEvent, OperandRaises
<1>17. Compares("==", FirstField(b, f), Resolve(y, ctx))
  BY <1>6, <1>7, <1>8, <1>15, MatchesComparison
<1>18. a # NoEvt
  BY <1>16, <1>17 DEF Compares
<1>19. FirstField(b, f) \in Values \cup {NoValue} /\ FirstField(a, f) \in Values \cup {NoValue}
  BY <1>13, <1>18, EventParts
<1>20. Same(FirstField(b, f), FirstField(a, f))
  BY <1>16, <1>17, <1>18, <1>19, SameCompares
<1> QED BY <1>11, <1>12, <1>20 DEF SameValue

\* The invariant says of the old options what their option text says.
LEMMA Paired == MatchInv => LegacyPeriodsPair
<1> SUFFICES ASSUME MatchInv, NEW d \in ActiveDefs, SourceOf[d].kind = "legacy"
             PROVE  LET o == SourceOf[d].arg
                        ofIt(p) == DefOf(p) = d
                        unpaired(p, k) == \A i \in BeginOf(p) + 1 .. k : ~Pairs(o, trace[BeginOf(p)], trace[i])
                    IN /\ \A r \in ended : ofIt(r.period) /\ r.end # NoEvent =>
                             /\ Pairs(o, trace[BeginOf(r.period)], trace[r.end])
                             /\ unpaired(r.period, r.end - 1)
                       /\ phase = "idle" => \A p \in periods : ofIt(p) => unpaired(p, evt)
  BY DEF LegacyPeriodsPair
<1>1. ASSUME NEW r \in ended, DefOf(r.period) = d, r.end # NoEvent
      PROVE  PairsAt(r.period, r.end) /\ UnpairedTo(r.period, r.end - 1)
  BY <1>1 DEF MatchInv, EndedPair, LegacyOf
<1>2. ASSUME phase = "idle", NEW p \in periods, DefOf(p) = d PROVE UnpairedTo(p, evt)
  BY <1>2 DEF MatchInv, OpenPair, LegacyOf
<1> QED BY <1>1, <1>2 DEF PairsAt, UnpairedTo

-----------------------------------------------------------------------------
\* With its expressions the engine does what it does with free choices...
THEOREM MatchRefines == MatchSpec => EngineSpec
<1>1. MatchInit => EngineInit
  BY DEF MatchInit
<1>2. MatchInv /\ [MatchNext]_matchVars => [EngineNext]_engineVars
  BY MatchSteps DEF MatchInv
<1> QED BY <1>1, <1>2, MatchInvariant, PTL DEF MatchSpec, EngineSpec

\* ...so that periods still nest, and the forest is still implemented.
THEOREM MatchNests == MatchSpec => []PeriodsNest /\ ImplementsForest
BY MatchRefines, EngineNests, EngineRefines, PTL

\* When the engine evaluates a definition which the command accepted, on any
\* trace, at any depth, it never raises for what an operand refers to; for the
\* values compared only if the definition or the trace has one that is no
\* finite number or has no order (core/period.py:372-381, 460-466, 527-534).
THEOREM MatchAccepted == MatchSpec => []AcceptedRaiseForValues
<1>1. MatchInv => AcceptedRaiseForValues
  BY DEF MatchInv
<1> QED BY <1>1, MatchInvariant, PTL

\* A child that asks for a field equal to its parent's begins under those
\* instances of the parent whose own first event has the value
\* (core/period.py:656-694).
THEOREM MatchChildren == MatchSpec => []ChildrenMatchTheirParent
BY ParentMatched, MatchInvariant, PTL

\* With the old options a period ends at the first later event that has the
\* name and the keys, and only there (cli/command.py:600-617).
THEOREM MatchLegacy == MatchSpec => []LegacyPeriodsPair
BY Paired, MatchInvariant, PTL

-----------------------------------------------------------------------------
(* The life of an analysis.                                                *)

\* The periods without a definition.
Bare == {Defless(n, r) : n \in Nat, r \in BOOLEAN}

LEMMA BarePeriod ==
    ASSUME NEW p \in Bare
    PROVE  /\ DefOf(p) = NoDef /\ BeginOf(p) \in Nat
           /\ p # Root /\ p \notin Paths
<1> PICK n \in Nat, r \in BOOLEAN : p = Defless(n, r)
  BY DEF Bare
<1> DEFINE x == [def |-> NoDef, begin |-> n, refreshed |-> r]
<1>1. p = <<x>> /\ x.def = NoDef /\ x.begin = n
  BY DEF Defless
<1> HIDE DEF x
<1>2. p # << >> /\ Last(p) = x
  BY <1>1 DEF Last
<1>3. ASSUME p \in Paths PROVE FALSE
  <2>1. p[1] \in Instances
    BY <1>1, <1>3 DEF Paths
  <2> QED BY <1>1, <2>1, DefsAssumption DEF Instances
<1> QED BY <1>1, <1>2, <1>3 DEF DefOf, BeginOf, Root

LEMMA BareParts ==
    ASSUME NEW n \in Nat, NEW r \in BOOLEAN
    PROVE  /\ Defless(n, r) \in Bare
           /\ BeginOf(Defless(n, r)) = n
           /\ \A m \in Nat, s \in BOOLEAN : Defless(m, s) = Defless(n, r) => m = n /\ s = r
<1>1. Defless(n, r) \in Bare
  BY DEF Bare
<1> DEFINE x == [def |-> NoDef, begin |-> n, refreshed |-> r]
<1>2. Defless(n, r) = <<x>> /\ x.begin = n
  BY DEF Defless
<1>3. BeginOf(Defless(n, r)) = n
  BY <1>2 DEF BeginOf, Last
<1>4. ASSUME NEW m \in Nat, NEW s \in BOOLEAN, Defless(m, s) = Defless(n, r)
      PROVE  m = n /\ s = r
  <2> DEFINE y == [def |-> NoDef, begin |-> m, refreshed |-> s]
  <2>1. <<y>>[1] = <<x>>[1]
    BY <1>4 DEF Defless
  <2>2. y = x
    BY <2>1
  <2>3. y.begin = m /\ x.begin = n /\ y.refreshed = s /\ x.refreshed = r
    OBVIOUS
  <2> QED BY <2>2, <2>3
<1> QED BY <1>1, <1>3, <1>4

\* A period of the engine has a definition.
LEMMA EnginePeriod ==
    ASSUME NEW p \in Paths, p # Root
    PROVE  /\ DefOf(p) \in Defs /\ DefOf(p) # NoDef
           /\ BeginOf(p) \in Nat /\ p \notin Bare
<1>1. Last(p) \in Instances
  BY ParentPath
<1> QED BY <1>1, BarePeriod, DefsAssumption DEF DefOf, BeginOf, Instances

-----------------------------------------------------------------------------
(* The loop and the engine.                                                *)

Stages == {"read", "event", "engine", "refresh", "automaton", "finish",
           "closing", "done", "crashed"}

LoopTyped ==
    /\ conf \in Confs
    /\ pc \in Stages
    /\ stamp \in Seq(Nat)
    /\ started \in BOOLEAN
    /\ lastTs \in Nat \cup {NoTs}

\* The engine is idle unless it was called; the events it was given, or not,
\* are those read.
Position ==
    /\ Len(stamp) \in {evt, evt + 1}
    /\ pc \in {"read", "engine", "refresh", "automaton", "crashed"} => Len(stamp) = evt
    /\ pc = "event" => Len(stamp) = evt + 1
    /\ pc \in {"read", "event", "refresh", "automaton", "finish"} => phase = "idle"
    /\ pc = "engine" => phase \in {"end", "begin"} /\ evt > 0
    /\ pc = "refresh" => evt > 0
    /\ pc = "closing" => phase = "remove" /\ dying = periods /\ ~RegistryEmpty
    /\ pc \in {"engine", "refresh"} => started
    /\ \A p \in periods : DefOf(p) \in conf.defs

InOrder == \A i, j \in 1 .. Len(stamp) : i <= j => stamp[i] <= stamp[j]

LoopInv == EngineInv /\ LoopTyped /\ Position /\ InOrder

\* Every step of the analysis is one of the engine, or none.
LEMMA EngineSteps ==
    ASSUME conf \in Confs, [Next]_analysisVars PROVE [EngineNext]_engineVars
<1>1. conf.defs \subseteq Defs
  BY ConfsAssumption
<1>2. CASE UNCHANGED engineVars
  BY <1>2
<1>3. CASE EventBeforeBegin
  BY <1>3 DEF EventBeforeBegin, EngineNext
<1>4. CASE \E M \in SUBSET periods : Analyse(M)
  BY <1>4 DEF Analyse, EngineNext
<1>5. CASE \E p \in dying : PeriodEnds(p)
  BY <1>5 DEF PeriodEnds, EngineNext
<1>6. CASE \E d \in conf.defs, p \in periods \cup {Root} : PeriodBegins(d, p)
  BY <1>1, <1>6 DEF PeriodBegins, EngineNext
<1>7. CASE EndingReturns \/ EngineReturns
  BY <1>7 DEF EndingReturns, EngineReturns, EngineNext
<1>8. CASE EndAllPeriods \/ EngineClosed
  BY <1>8 DEF EndAllPeriods, EngineClosed, EngineNext
<1> QED
  BY <1>2, <1>3, <1>4, <1>5, <1>6, <1>7, <1>8
  DEF Next, analysisVars, ReadEvent, NoMoreEvents, EventPastEnd, KeepPeriod,
      RefreshPeriod, RefreshCrashes, Automaton, EndDeflessPeriod

\* One more event.
LEMMA ReadLoop ==
    ASSUME LoopInv, NEW ts \in 0 .. conf.last, ReadEvent(ts)
    PROVE  LoopTyped' /\ Position' /\ InOrder' /\ Len(stamp') = Len(stamp) + 1
           /\ stamp'[Len(stamp) + 1] = ts
           /\ \A i \in 1 .. Len(stamp) : stamp'[i] = stamp[i]
<1>1. stamp \in Seq(Nat) /\ ts \in Nat /\ stamp' = Append(stamp, ts) /\ pc' = "event"
      /\ conf' = conf /\ started' = started /\ lastTs' = lastTs /\ pc = "read"
      /\ UNCHANGED engineVars
  BY ConfsAssumption DEF LoopInv, LoopTyped, ReadEvent
<1>2. /\ Len(stamp) \in Nat /\ Len(stamp') = Len(stamp) + 1 /\ stamp' \in Seq(Nat)
      /\ stamp'[Len(stamp) + 1] = ts
      /\ \A i \in 1 .. Len(stamp) : stamp'[i] = stamp[i] /\ stamp[i] \in Nat
  BY <1>1
<1>3. \A i \in 1 .. Len(stamp) : stamp[i] <= ts
  BY <1>1 DEF ReadEvent
<1>4. InOrder'
  BY <1>1, <1>2, <1>3 DEF InOrder, LoopInv
<1>5. LoopTyped'
  BY <1>1, <1>2 DEF LoopInv, LoopTyped, Stages
<1>6. Position'
  BY <1>1, <1>2 DEF LoopInv, Position, engineVars, EngineInv, Typed, RegistryEmpty
<1> QED BY <1>2, <1>4, <1>5, <1>6

LEMMA LoopInit == Init => LoopInv
<1> SUFFICES ASSUME Init PROVE LoopInv
  OBVIOUS
<1>1. EngineInit /\ evt = 0 /\ phase = "idle" /\ periods = {}
  BY DEF Init, EngineInit
<1>2. conf \in Confs /\ pc = "read" /\ stamp = << >> /\ started = FALSE /\ lastTs = NoTs
  BY DEF Init
<1>3. LoopTyped
  <2>1. started \in BOOLEAN /\ lastTs \in Nat \cup {NoTs}
    BY <1>2, Zenon
  <2>2. stamp \in Seq(Nat) /\ pc \in Stages
    BY <1>2 DEF Stages
  <2> QED BY <1>2, <2>1, <2>2 DEF LoopTyped
<1>4. Len(stamp) = 0
  BY <1>2
<1>5. Position
  BY <1>1, <1>2, <1>4 DEF Position
<1>6. InOrder
  BY <1>4 DEF InOrder
<1> QED BY <1>1, <1>3, <1>5, <1>6, InitInv DEF LoopInv

\* No step disturbs the loop.
LEMMA LoopNext == LoopInv /\ [Next]_analysisVars => LoopInv'
<1> SUFFICES ASSUME LoopInv, [Next]_analysisVars PROVE LoopInv'
  OBVIOUS
<1>1. EngineInv'
  BY EngineSteps, NextInv DEF LoopInv, LoopTyped
<1>2. /\ EngineInv /\ LoopTyped /\ Position /\ InOrder
      /\ evt \in Nat /\ Len(stamp) \in Nat /\ evt' \in Nat
  BY <1>1 DEF LoopInv, LoopTyped, EngineInv, Typed
<1>3. ASSUME NEW ts \in 0 .. conf.last, ReadEvent(ts) PROVE LoopInv'
  BY <1>1, <1>3, ReadLoop DEF LoopInv
<1> SUFFICES ASSUME ~\E ts \in 0 .. conf.last : ReadEvent(ts)
             PROVE  LoopTyped' /\ Position' /\ InOrder'
  BY <1>1, <1>3 DEF LoopInv
<1>4. stamp' = stamp /\ conf' = conf
  BY DEF Next, analysisVars, loopVars, NoMoreEvents, EventPastEnd, EventBeforeBegin,
         Analyse, PeriodEnds, PeriodBegins, EndingReturns, EngineReturns, KeepPeriod,
         RefreshPeriod, RefreshCrashes, Automaton, EndDeflessPeriod, EndAllPeriods,
         EngineClosed
<1>5. InOrder'
  BY <1>2, <1>4 DEF InOrder
<1>6. LoopTyped' /\ Position'
  <2> USE <1>2, <1>4 DEF LoopTyped, Position, Stages, RegistryEmpty
  <2>1. CASE NoMoreEvents \/ EventPastEnd \/ KeepPeriod \/ RefreshPeriod \/ RefreshCrashes
             \/ Automaton \/ EndDeflessPeriod
    <3>1. UNCHANGED engineVars /\ started' = started /\ lastTs' = lastTs
      BY <2>1 DEF NoMoreEvents, EventPastEnd, KeepPeriod, RefreshPeriod, RefreshCrashes,
                  Automaton, EndDeflessPeriod
    <3>2. \/ pc \in {"read", "event"} /\ pc' = "finish"
          \/ pc = "refresh" /\ pc' \in {"automaton", "crashed"}
          \/ pc = "automaton" /\ pc' = "read"
          \/ pc = "finish" /\ pc' = "done"
      BY <2>1 DEF NoMoreEvents, EventPastEnd, KeepPeriod, RefreshPeriod, RefreshCrashes,
                  Automaton, EndDeflessPeriod
    <3>3. LoopTyped'
      BY <3>1, <3>2
    <3> QED BY <3>1, <3>2, <3>3 DEF engineVars
  <2>2. CASE EventBeforeBegin
    <3>1. stamp[Len(stamp)] \in Nat
      BY <2>2 DEF EventBeforeBegin
    <3>2. LoopTyped'
      BY <2>2, <3>1 DEF EventBeforeBegin, Now, Current
    <3> QED BY <2>2, <3>2 DEF EventBeforeBegin, SkipEvent
  <2>3. ASSUME NEW M \in SUBSET periods, Analyse(M) PROVE LoopTyped' /\ Position'
    <3>1. stamp[Len(stamp)] \in Nat
      BY <2>3 DEF Analyse
    <3>2. LoopTyped'
      BY <2>3, <3>1 DEF Analyse, Now, Current
    <3> QED BY <2>3, <3>2 DEF Analyse, ProcessEvent
  <2>4. ASSUME NEW p \in dying, PeriodEnds(p) PROVE LoopTyped' /\ Position'
    <3>1. UNCHANGED loopVars /\ evt' = evt /\ phase' = phase
          /\ periods' = periods \ {p} /\ dying' = dying \ {p}
      BY <2>4 DEF PeriodEnds, EndPeriod
    <3>2. LoopTyped'
      BY <3>1 DEF loopVars
    <3> QED BY <3>1, <3>2 DEF loopVars
  <2>5. ASSUME NEW d \in conf.defs, NEW p \in periods \cup {Root}, PeriodBegins(d, p)
        PROVE  LoopTyped' /\ Position'
    <3>1. d \in Defs
      BY ConfsAssumption
    <3>2. UNCHANGED loopVars /\ evt' = evt /\ phase' = phase /\ dying' = dying /\ pc = "engine"
      BY <2>5 DEF PeriodBegins, BeginPeriod
    <3> DEFINE n == Append(p, [def |-> d, begin |-> evt])
    <3>3. \A q \in periods' : q \in periods \/ DefOf(q) = d
      <4>1. BeginPeriod(d, p)
        BY <2>5 DEF PeriodBegins
      <4>2. periods' = periods \cup {n} /\ DefOf(n) = d
        BY <1>2, <3>1, <4>1, NewPeriod
      <4> QED BY <4>2
    <3>4. LoopTyped'
      BY <3>2 DEF loopVars
    <3> QED BY <3>2, <3>3, <3>4 DEF loopVars
  <2>6. CASE EndingReturns
    BY <2>6 DEF EndingReturns, EndingDone, loopVars
  <2>7. CASE EngineReturns
    BY <2>7 DEF EngineReturns, EventDone
  <2>8. CASE EndAllPeriods
    BY <2>8 DEF EndAllPeriods, RemoveAllPeriods
  <2>9. CASE EngineClosed
    BY <2>9 DEF EngineClosed, RemovalDone
  <2>10. CASE UNCHANGED analysisVars
    <3>1. UNCHANGED loopVars /\ UNCHANGED engineVars
      BY <2>10 DEF analysisVars
    <3>2. LoopTyped'
      BY <3>1 DEF loopVars
    <3> QED BY <3>1, <3>2 DEF loopVars, engineVars
  <2> QED BY <2>1, <2>2, <2>3, <2>4, <2>5, <2>6, <2>7, <2>8, <2>9, <2>10 DEF Next
<1> QED BY <1>5, <1>6

-----------------------------------------------------------------------------
(* The period data.                                                        *)

\* The events which the automaton has seen; while one is analysed, it is not
\* among them.
Seen == IF pc \in {"engine", "refresh", "automaton", "crashed"} THEN evt - 1 ELSE evt

\* One period at most has no definition, and a begin date delays it.
DataKeys ==
    /\ registered = DOMAIN data
    /\ DOMAIN data \subseteq periods \cup Bare
    /\ periods \subseteq DOMAIN data
    /\ \A p, q \in DOMAIN data \cap Bare : p = q
    /\ ~started /\ conf.begin # NoTs => DOMAIN data \cap Bare = {}
    /\ \A p \in DOMAIN data : BeginOf(p) \in 1 .. Len(stamp)

\* A period that a refresh began is older than the event which is analysed.
Rebegun == {Defless(n, TRUE) : n \in Nat}

Earlier(p) ==
    p \in Rebegun => BeginOf(p) <= evt /\ (pc \in {"engine", "refresh"} => BeginOf(p) < evt)

Refreshed == \A p \in DOMAIN data : Earlier(p)

Fed == \A p \in DOMAIN data : data[p] = {e \in 1 .. Seen : BeginOf(p) <= e}

DataInv ==
    /\ pc # "done" => DataKeys /\ Refreshed /\ Fed
    /\ pc = "done" => data = NoData /\ \A p \in registered : IsDefless(p) /\ ~RegistryEmpty

\* A stage which neither begins nor ends a period.
LEMMA SameData ==
    ASSUME LoopInv, LoopInv', DataInv, pc # "done", pc' # "done",
           data' = data, registered' = registered, periods' = periods,
           conf' = conf, started => started', Seen' = Seen,
           Len(stamp') >= Len(stamp), evt' >= evt,
           pc' \in {"engine", "refresh"} => pc \in {"engine", "refresh"} \/ evt' > evt
    PROVE  DataInv'
<1>1. evt \in Nat /\ evt' \in Nat /\ Len(stamp) \in Nat /\ Len(stamp') \in Nat
  BY DEF LoopInv, LoopTyped, EngineInv, Typed
<1>2. DataKeys /\ Refreshed /\ Fed
  BY DEF DataInv
<1>3. DataKeys'
  BY <1>1, <1>2 DEF DataKeys
<1>4. Refreshed'
  BY <1>1, <1>2 DEF Refreshed, Earlier, DataKeys
<1>5. Fed'
  BY <1>2 DEF Fed
<1> QED BY <1>3, <1>4, <1>5 DEF DataInv

\* A period begins, at an event that the automaton has not seen.
LEMMA MoreData ==
    ASSUME LoopInv, LoopInv', DataInv, pc # "done", pc' # "done",
           NEW p, OnPeriodBegin(p), p \notin DOMAIN data,
           periods' \subseteq periods \cup {p}, periods \subseteq periods',
           p \in periods' \/ (p \in Bare /\ DOMAIN data \cap Bare = {}
                                       /\ (conf.begin = NoTs \/ started')),
           p \notin Rebegun,
           BeginOf(p) = Seen' + 1, BeginOf(p) \in 1 .. Len(stamp'),
           conf' = conf, started => started', Seen' = Seen,
           Len(stamp') >= Len(stamp), evt' >= evt,
           pc' \in {"engine", "refresh"} => pc \in {"engine", "refresh"} \/ evt' > evt
    PROVE  DataInv'
<1>1. /\ evt \in Nat /\ evt' \in Nat /\ Len(stamp) \in Nat /\ Len(stamp') \in Nat
      /\ Seen' \in Int
  BY DEF LoopInv, LoopTyped, EngineInv, Typed, Seen
<1>2. DataKeys /\ Refreshed /\ Fed
  BY DEF DataInv
<1>3. /\ DOMAIN data' = DOMAIN data \cup {p} /\ registered' = registered \cup {p}
      /\ data'[p] = {} /\ \A q \in DOMAIN data : data'[q] = data[q]
  BY DEF OnPeriodBegin, WithPeriod
<1>4. p \in periods' => p \notin Bare
  <2>1. p \in periods' => p \in Paths
    BY DEF LoopInv, EngineInv, Typed
  <2> QED BY <2>1, BarePeriod
<1>5. DataKeys'
  BY <1>1, <1>2, <1>3, <1>4 DEF DataKeys
<1>6. Refreshed'
  BY <1>1, <1>2, <1>3 DEF Refreshed, Earlier, DataKeys
<1>7. Fed'
  <2>1. {e \in 1 .. Seen' : BeginOf(p) <= e} = {}
    BY <1>1
  <2> QED BY <1>2, <1>3, <2>1 DEF Fed
<1> QED BY <1>5, <1>6, <1>7 DEF DataInv

\* The data of a period that ends is dropped.
LEMMA LessData ==
    ASSUME LoopInv, DataInv, pc \in {"engine", "closing"},
           NEW p \in dying, PeriodEnds(p)
    PROVE  DataInv'
<1>1. /\ UNCHANGED loopVars /\ evt' = evt /\ periods' = periods \ {p} /\ p \in periods
      /\ registered' = registered \ {p} /\ data' = WithoutPeriod(data, p)
  BY DEF PeriodEnds, EndPeriod, OnPeriodEnd, LoopInv, EngineInv, Typed
<1>2. DOMAIN data' = DOMAIN data \ {p} /\ \A q \in DOMAIN data' : data'[q] = data[q]
  BY <1>1 DEF WithoutPeriod
<1>3. DataKeys /\ Refreshed /\ Fed
  BY DEF DataInv
<1>4. p \notin Bare
  BY <1>1, BarePeriod DEF LoopInv, EngineInv, Typed
<1>5. DataKeys'
  BY <1>1, <1>2, <1>3, <1>4 DEF DataKeys, loopVars
<1>6. Refreshed'
  BY <1>1, <1>2, <1>3 DEF Refreshed, Earlier, DataKeys, loopVars
<1>7. Seen' = Seen
  BY <1>1 DEF Seen, loopVars
<1>8. Fed'
  BY <1>2, <1>3, <1>7 DEF Fed
<1> QED BY <1>1, <1>5, <1>6, <1>8 DEF DataInv, loopVars

\* The period that is refreshed is the one without a definition.
LEMMA RefreshedPeriod ==
    ASSUME LoopInv, DataInv, RefreshPeriod
    PROVE  \E p \in RefreshDue, r \in Rebegun :
             /\ p \in Bare /\ DOMAIN data = {p} /\ periods = {} /\ evt \in Nat \ {0}
             /\ r \in Bare /\ BeginOf(r) = evt /\ p # r
             /\ ticks' = Append(ticks, Tick(p, evt))
             /\ registered' = {r} /\ DOMAIN data' = {r} /\ data'[r] = {}
<1> DEFINE r == Defless(evt, TRUE)
<1>1. PICK p \in RefreshDue :
         /\ ticks' = Append(ticks, Tick(p, evt))
         /\ registered' = (registered \ {p}) \cup {r}
         /\ data' = WithPeriod(WithoutPeriod(data, p), r)
  BY DEF RefreshPeriod
<1>2. DataKeys /\ Refreshed /\ pc = "refresh" /\ evt \in Nat \ {0}
  BY DEF DataInv, RefreshPeriod, LoopInv, Position, EngineInv, Typed
<1>3. p \in DOMAIN data /\ DefOf(p) = NoDef /\ conf.refresh # NoTs
  BY <1>1 DEF RefreshDue, DeflessPeriods, IsDefless
<1>4. periods = {}
  <2>1. conf.defs = {}
    BY <1>3, RefreshAssumption DEF LoopInv, LoopTyped
  <2> QED BY <2>1 DEF LoopInv, Position
<1>5. p \in Bare /\ DOMAIN data = {p}
  <2>1. DOMAIN data \subseteq Bare /\ \A q \in DOMAIN data \cap Bare : q = p
    BY <1>2, <1>3, <1>4 DEF DataKeys
  <2> QED BY <1>3, <2>1
<1>6. r \in Rebegun /\ r \in Bare /\ BeginOf(r) = evt
  BY <1>2, BareParts DEF Rebegun
<1> HIDE DEF r
<1>7. p # r
  BY <1>2, <1>3, <1>6 DEF Refreshed, Earlier, DataKeys
<1>8. DOMAIN data' = {r} /\ data'[r] = {}
  BY <1>1, <1>5 DEF WithPeriod, WithoutPeriod
<1>9. registered' = {r}
  BY <1>1, <1>2, <1>5 DEF DataKeys
<1> QED BY <1>1, <1>2, <1>4, <1>5, <1>6, <1>7, <1>8, <1>9

\* The first period without a definition.
LEMMA FirstPeriod ==
    ASSUME NEW n \in Nat
    PROVE  Defless(n, FALSE) \in Bare \ Rebegun /\ BeginOf(Defless(n, FALSE)) = n
<1> DEFINE p == Defless(n, FALSE)
<1>1. p \in Bare /\ BeginOf(p) = n /\ \A m \in Nat, s \in BOOLEAN : Defless(m, s) = p => s = FALSE
  BY BareParts, FALSE \in BOOLEAN
<1>2. ASSUME p \in Rebegun PROVE FALSE
  <2>1. PICK m \in Nat : p = Defless(m, TRUE)
    BY <1>2 DEF Rebegun
  <2>2. TRUE \in BOOLEAN
    OBVIOUS
  <2>3. TRUE = FALSE
    BY <1>1, <2>1, <2>2, Zenon
  <2> QED BY <2>3
<1> QED BY <1>1, <1>2

LEMMA DataInit == Init => DataInv
<1> SUFFICES ASSUME Init PROVE DataInv
  OBVIOUS
<1>1. pc = "read" /\ DOMAIN data = {} /\ registered = {} /\ periods = {}
  BY DEF Init, EngineInit, NoData
<1> QED BY <1>1 DEF DataInv, DataKeys, Refreshed, Fed

\* One more event, which may begin the first period.
LEMMA ReadData ==
    ASSUME LoopInv, LoopInv', DataInv, NEW ts \in 0 .. conf.last, ReadEvent(ts)
    PROVE  DataInv'
<1>1. /\ pc = "read" /\ pc' = "event" /\ UNCHANGED engineVars
      /\ conf' = conf /\ started' = started
      /\ Len(stamp) = evt /\ evt \in Nat /\ Len(stamp') = evt + 1
      /\ stamp = << >> => evt = 0
  BY ReadLoop DEF ReadEvent, LoopInv, Position, EngineInv, Typed
<1>2. Seen' = Seen /\ evt' = evt /\ periods' = periods /\ Seen = evt
  BY <1>1 DEF Seen, engineVars
<1>3. CASE UNCHANGED dataVars
  BY <1>1, <1>2, <1>3, SameData DEF dataVars
<1>4. CASE ~UNCHANGED dataVars
  <2> DEFINE p == Defless(1, FALSE)
  <2>1. /\ OnPeriodBegin(p) /\ stamp = << >> /\ conf.begin = NoTs
    BY <1>4 DEF ReadEvent
  <2>2. p \in Bare /\ p \notin Rebegun /\ BeginOf(p) = 1
    BY FirstPeriod
  <2> HIDE DEF p
  <2>3. DOMAIN data = {}
    <3>1. Len(stamp) = 0 /\ \A q \in DOMAIN data : BeginOf(q) \in 1 .. Len(stamp)
      BY <1>1, <2>1 DEF DataInv, DataKeys
    <3>2. ASSUME NEW q \in DOMAIN data PROVE FALSE
      BY <3>1
    <3> QED BY <3>2
  <2> QED BY <1>1, <1>2, <2>1, <2>2, <2>3, MoreData
<1> QED BY <1>3, <1>4

\* An event is analysed; the begin date may begin the first period.
LEMMA AnalyseData ==
    ASSUME LoopInv, LoopInv', DataInv, NEW M \in SUBSET periods, Analyse(M)
    PROVE  DataInv'
<1>1. /\ pc = "event" /\ pc' = "engine" /\ started' = TRUE
      /\ conf' = conf /\ stamp' = stamp /\ periods' = periods /\ evt' = evt + 1
      /\ Len(stamp) = evt + 1 /\ evt \in Nat
  BY DEF Analyse, ProcessEvent, LoopInv, Position, EngineInv, Typed
<1>2. Seen' = Seen /\ Seen = evt
  BY <1>1 DEF Seen
<1>3. CASE UNCHANGED dataVars
  BY <1>1, <1>2, <1>3, SameData DEF dataVars
<1>4. CASE ~UNCHANGED dataVars
  <2> DEFINE p == Defless(Current, FALSE)
  <2>1. OnPeriodBegin(p) /\ ~started /\ conf.begin # NoTs
    BY <1>4 DEF Analyse, Truthy
  <2>2. p \in Bare /\ p \notin Rebegun /\ BeginOf(p) = evt + 1
    <3>1. Current \in Nat /\ Current = evt + 1
      BY <1>1 DEF Current
    <3> QED BY <3>1, FirstPeriod
  <2> HIDE DEF p
  <2>3. DOMAIN data \cap Bare = {} /\ p \notin DOMAIN data
    BY <1>1, <2>1, <2>2 DEF DataInv, DataKeys
  <2> QED BY <1>1, <1>2, <2>1, <2>2, <2>3, MoreData
<1> QED BY <1>3, <1>4

\* The engine begins a period.
LEMMA BeginsData ==
    ASSUME LoopInv, LoopInv', DataInv, NEW d \in conf.defs,
           NEW p \in periods \cup {Root}, PeriodBegins(d, p)
    PROVE  DataInv'
<1> DEFINE n == Append(p, [def |-> d, begin |-> evt])
<1>1. /\ pc = "engine" /\ UNCHANGED loopVars /\ evt' = evt /\ evt > 0 /\ evt \in Nat
      /\ OnPeriodBegin(n) /\ BeginPeriod(d, p) /\ Len(stamp) = evt
  BY DEF PeriodBegins, BeginPeriod, LoopInv, Position, EngineInv, Typed
<1>2. d \in Defs
  BY ConfsAssumption DEF LoopInv, LoopTyped
<1>3. n \in Paths /\ n # Root /\ n \notin periods /\ BeginOf(n) = evt
      /\ periods' = periods \cup {n}
  BY <1>1, <1>2, NewPeriod DEF LoopInv
<1> HIDE DEF n
<1>4. n \notin Bare /\ n \notin Rebegun
  <2>1. \A m \in Nat : Defless(m, TRUE) \in Bare
    BY BareParts, TRUE \in BOOLEAN
  <2>2. Rebegun \subseteq Bare
    BY <2>1 DEF Rebegun
  <2> QED BY <1>3, <2>2, BarePeriod
<1>5. n \notin DOMAIN data
  BY <1>1, <1>3, <1>4 DEF DataInv, DataKeys
<1>6. Seen' = Seen /\ Seen = evt - 1 /\ pc' = pc /\ conf' = conf /\ started' = started
      /\ stamp' = stamp
  BY <1>1 DEF Seen, loopVars
<1> QED BY <1>1, <1>3, <1>4, <1>5, <1>6, MoreData

\* A refresh ends the period and begins another one.
LEMMA RefreshData ==
    ASSUME LoopInv, LoopInv', DataInv, RefreshPeriod
    PROVE  DataInv'
<1>1. PICK p \in RefreshDue, r \in Rebegun :
             /\ p \in Bare /\ DOMAIN data = {p} /\ periods = {} /\ evt \in Nat \ {0}
             /\ r \in Bare /\ BeginOf(r) = evt /\ p # r
             /\ registered' = {r} /\ DOMAIN data' = {r} /\ data'[r] = {}
  BY RefreshedPeriod
<1>2. /\ pc = "refresh" /\ pc' = "automaton" /\ UNCHANGED engineVars
      /\ conf' = conf /\ started' = started /\ stamp' = stamp /\ Len(stamp) = evt
      /\ started
  BY DEF RefreshPeriod, LoopInv, Position
<1>3. Seen' = evt - 1 /\ periods' = {} /\ evt' = evt
  BY <1>1, <1>2 DEF Seen, engineVars
<1>4. DataKeys'
  BY <1>1, <1>2, <1>3 DEF DataKeys
<1>5. Refreshed'
  BY <1>1, <1>2, <1>3 DEF Refreshed, Earlier
<1>6. {e \in 1 .. Seen' : BeginOf(r) <= e} = {}
  BY <1>1, <1>3
<1>7. Fed'
  BY <1>1, <1>6 DEF Fed
<1> QED BY <1>2, <1>4, <1>5, <1>7 DEF DataInv

\* The automaton notifies every period of the event.
LEMMA AutomatonData ==
    ASSUME LoopInv, LoopInv', DataInv, Automaton
    PROVE  DataInv'
<1>1. /\ pc = "automaton" /\ pc' = "read" /\ UNCHANGED engineVars
      /\ conf' = conf /\ started' = started /\ stamp' = stamp /\ registered' = registered
      /\ Len(stamp) = evt /\ evt \in Nat
  BY DEF Automaton, LoopInv, Position, EngineInv, Typed
<1>2. DataKeys /\ Refreshed /\ Fed
  BY <1>1 DEF DataInv
<1>3. DOMAIN data' = DOMAIN data /\ \A p \in DOMAIN data : data'[p] = data[p] \cup {evt}
  BY <1>2 DEF Automaton, DataKeys
<1>4. Seen = evt - 1 /\ Seen' = evt /\ evt' = evt /\ periods' = periods
  BY <1>1 DEF Seen, engineVars
<1>5. DataKeys' /\ Refreshed'
  BY <1>1, <1>2, <1>3, <1>4 DEF DataKeys, Refreshed, Earlier
<1>6. Fed'
  <2> SUFFICES ASSUME NEW p \in DOMAIN data
               PROVE  data'[p] = {e \in 1 .. evt : BeginOf(p) <= e}
    BY <1>3, <1>4 DEF Fed
  <2>1. BeginOf(p) \in 1 .. evt
    BY <1>1, <1>2 DEF DataKeys
  <2>2. data[p] = {e \in 1 .. evt - 1 : BeginOf(p) <= e}
    BY <1>2, <1>4 DEF Fed
  <2> QED BY <1>1, <1>3, <2>1, <2>2
<1> QED BY <1>1, <1>5, <1>6 DEF DataInv

\* The period data is a map.
Mapping == data = [p \in DOMAIN data |-> data[p]]

LEMMA MappingNext ==
    ASSUME Mapping, [Next]_analysisVars PROVE Mapping'
<1>1. CASE data' = data
  BY <1>1 DEF Mapping
<1>3. CASE \E d, p : data' = WithPeriod(d, p)
  BY <1>3 DEF WithPeriod, Mapping
<1>4. CASE \E d, p : data' = WithoutPeriod(d, p)
  BY <1>4 DEF WithoutPeriod, Mapping
<1>5. CASE Automaton \/ EngineClosed
  BY <1>5 DEF Automaton, EngineClosed, NoData, Mapping
<1>6. CASE data' = data \/ \E d, p : data' = WithPeriod(d, p) \/ data' = WithoutPeriod(d, p)
  BY <1>1, <1>3, <1>4, <1>6
<1>7. CASE EndDeflessPeriod
  BY <1>6, <1>7 DEF EndDeflessPeriod, OnPeriodEnd, dataVars
<1>8. CASE (\E p \in dying : PeriodEnds(p)) \/ RefreshPeriod
  BY <1>6, <1>8 DEF PeriodEnds, OnPeriodEnd, RefreshPeriod
<1>9. CASE \/ \E ts \in 0 .. conf.last : ReadEvent(ts)
           \/ \E M \in SUBSET periods : Analyse(M)
           \/ \E d \in conf.defs, p \in periods \cup {Root} : PeriodBegins(d, p)
  BY <1>6, <1>9 DEF ReadEvent, Analyse, PeriodBegins, OnPeriodBegin, dataVars
<1>10. CASE NoMoreEvents \/ EventPastEnd \/ EventBeforeBegin \/ EndingReturns
            \/ EngineReturns \/ KeepPeriod \/ RefreshCrashes \/ EndAllPeriods
  BY <1>1, <1>10 DEF NoMoreEvents, EventPastEnd, EventBeforeBegin, EndingReturns,
     EngineReturns, KeepPeriod, RefreshCrashes, EndAllPeriods, dataVars
<1>11. CASE UNCHANGED analysisVars
  BY <1>1, <1>11 DEF analysisVars, dataVars
<1> QED BY <1>5, <1>7, <1>8, <1>9, <1>10, <1>11 DEF Next

\* A map without a key.
LEMMA EmptyMap == ASSUME Mapping, DOMAIN data = {} PROVE data = NoData
BY DEF Mapping, NoData

\* The analysis ends: nothing is left but what a begin date began.
LEMMA EndData ==
    ASSUME LoopInv, DataInv, Mapping, EndDeflessPeriod \/ EngineClosed
    PROVE  DataInv'
<1>1. CASE EndDeflessPeriod
  <2>1. DataKeys /\ pc' = "done" /\ periods = {} /\ conf' = conf
    BY <1>1 DEF EndDeflessPeriod, DataInv, LoopInv, Position, RegistryEmpty
  <2>2. ASSUME NEW p \in DOMAIN data, OnPeriodEnd(p, NoEvent) PROVE DataInv'
    <3>1. DOMAIN data \subseteq Bare /\ \A q \in DOMAIN data \cap Bare : q = p
      BY <2>1 DEF DataKeys
    <3>2. DOMAIN data = {p}
      BY <3>1
    <3>3. data' = NoData /\ registered' = {}
      BY <2>1, <2>2, <3>2 DEF OnPeriodEnd, WithoutPeriod, NoData, DataKeys
    <3> QED BY <2>1, <3>3 DEF DataInv
  <2>3. CASE DOMAIN data = {} /\ UNCHANGED dataVars
    <3>1. data' = NoData /\ registered' = {}
      BY <2>1, <2>3, EmptyMap DEF dataVars, DataKeys
    <3> QED BY <2>1, <3>1 DEF DataInv
  <2> QED BY <1>1, <2>2, <2>3 DEF EndDeflessPeriod
<1>2. CASE EngineClosed
  <2>1. /\ pc = "closing" /\ pc' = "done" /\ data' = NoData /\ registered' = registered
        /\ conf' = conf /\ periods = {} /\ ~RegistryEmpty
    BY <1>2 DEF EngineClosed, RemovalDone, LoopInv, Position
  <2>2. \A p \in registered : IsDefless(p)
    BY <2>1, BarePeriod DEF DataInv, DataKeys, IsDefless
  <2>3. \A p \in registered' : IsDefless(p)' /\ (~RegistryEmpty)'
    BY <2>1, <2>2 DEF IsDefless, RegistryEmpty
  <2> QED BY <2>1, <2>3 DEF DataInv
<1> QED BY <1>1, <1>2

\* No step disturbs the period data.
LEMMA DataNext ==
    ASSUME LoopInv, LoopInv', DataInv, Mapping, [Next]_analysisVars
    PROVE  DataInv'
<1>1. \A ts \in 0 .. conf.last : ReadEvent(ts) => DataInv'
  BY ReadData
<1>2. \A M \in SUBSET periods : Analyse(M) => DataInv'
  BY AnalyseData
<1>3. \A p \in dying : PeriodEnds(p) => DataInv'
  BY LessData DEF PeriodEnds
<1>4. \A d \in conf.defs, p \in periods \cup {Root} : PeriodBegins(d, p) => DataInv'
  BY BeginsData
<1>5. evt \in Nat /\ Len(stamp) \in Nat
  BY DEF LoopInv, LoopTyped, EngineInv, Typed
<1>6. CASE NoMoreEvents \/ EventPastEnd \/ EventBeforeBegin \/ EndingReturns
           \/ EngineReturns \/ KeepPeriod \/ RefreshCrashes \/ EndAllPeriods
  <2>1. /\ data' = data /\ registered' = registered /\ periods' = periods
        /\ conf' = conf /\ stamp' = stamp /\ started' = started
        /\ pc # "done" /\ pc' # "done"
    BY <1>6 DEF NoMoreEvents, EventPastEnd, EventBeforeBegin, EndingReturns,
       EngineReturns, KeepPeriod, RefreshCrashes, EndAllPeriods, dataVars, loopVars,
       engineVars, SkipEvent, EndingDone, EventDone, RemoveAllPeriods
  <2>2. /\ pc' \in {"engine", "refresh"} => pc \in {"engine", "refresh"}
        /\ Seen' = Seen /\ evt' >= evt
    BY <1>5, <1>6 DEF NoMoreEvents, EventPastEnd, EventBeforeBegin, EndingReturns,
       EngineReturns, KeepPeriod, RefreshCrashes, EndAllPeriods, loopVars,
       engineVars, SkipEvent, EndingDone, EventDone, RemoveAllPeriods, Seen
  <2> QED BY <1>5, <2>1, <2>2, SameData
<1>7. CASE UNCHANGED analysisVars
  <2>1. UNCHANGED <<engineVars, loopVars, dataVars>>
    BY <1>7 DEF analysisVars
  <2>2. DataKeys' = DataKeys /\ Refreshed' = Refreshed /\ Fed' = Fed
    BY <2>1 DEF engineVars, loopVars, dataVars, DataKeys, Refreshed, Earlier, Fed, Seen
  <2> QED BY <2>1, <2>2 DEF DataInv, loopVars, dataVars, RegistryEmpty
<1> QED
  BY <1>1, <1>2, <1>3, <1>4, <1>6, <1>7, RefreshData, AutomatonData, EndData DEF Next

LEMMA MappingInit == Init => Mapping
BY DEF Init, NoData, Mapping

\* A period without a definition is a bare one.
LEMMA DeflessAreBare ==
    ASSUME LoopInv, DataKeys
    PROVE  DeflessPeriods = DOMAIN data \cap Bare
<1>1. \A p \in periods : p \in Paths /\ p # Root
  BY DEF LoopInv, EngineInv, Typed
<1>2. \A p \in periods : ~IsDefless(p) /\ p \notin Bare
  BY <1>1, EnginePeriod DEF IsDefless
<1>3. \A p \in Bare : IsDefless(p)
  BY BarePeriod DEF IsDefless
<1> QED BY <1>2, <1>3 DEF DeflessPeriods, DataKeys

LEMMA DataMatches ==
    ASSUME LoopInv, DataInv PROVE DataMatchesPeriods
<1>1. CASE pc = "done"
  BY <1>1 DEF DataInv, DataMatchesPeriods
<1>2. CASE pc # "done"
  <2>1. DataKeys /\ DeflessPeriods = DOMAIN data \cap Bare
    BY <1>2, DeflessAreBare DEF DataInv
  <2>2. \A p \in periods : p \in Paths /\ p # Root
    BY DEF LoopInv, EngineInv, Typed
  <2>3. \A p \in periods : ~IsDefless(p) /\ p \notin Bare
    BY <2>2, EnginePeriod DEF IsDefless
  <2>4. DOMAIN data \ DeflessPeriods = periods \ DeflessPeriods
    BY <2>1, <2>3 DEF DataKeys
  <2> QED BY <1>2, <2>1, <2>3, <2>4 DEF DataMatchesPeriods, DataKeys
<1> QED BY <1>1, <1>2

\* The invariant of the analysis, without its history.
LifeInv == LoopInv /\ DataInv /\ Mapping

LEMMA LifeInvariant == Spec => []LifeInv
<1>1. Init => LifeInv
  BY LoopInit, DataInit, MappingInit DEF LifeInv
<1>2. LifeInv /\ [Next]_analysisVars => LifeInv'
  BY LoopNext, DataNext, MappingNext DEF LifeInv
<1> QED BY <1>1, <1>2, PTL DEF Spec

\* A notification reaches the data of every live period, and of no other.
THEOREM AnalysisData == Spec => []DataMatchesPeriods
<1>1. LifeInv => DataMatchesPeriods
  BY DataMatches DEF LifeInv
<1> QED BY <1>1, LifeInvariant, PTL

-----------------------------------------------------------------------------
(* What is reported.                                                       *)

TickSet == [period : Paths \cup Bare, end : Nat \cup {NoEvent},
            at : Nat \cup {NoTs}, counted : SUBSET Nat]

Interval(t) == {e \in 1 .. evt : /\ BeginOf(t.period) <= e
                                 /\ t.end # NoEvent => e < t.end}

\* What is known of a period that was reported.
GoodTick(t) ==
    /\ BeginOf(t.period) \in 1 .. Len(stamp)
    /\ t.end \in 1 .. evt \/ (t.end = NoEvent /\ pc \in {"closing", "done"})
    /\ t.counted = Interval(t)
    /\ t.period \in Bare \/ \E r \in ended : r.period = t.period /\ r.end = t.end
    /\ Earlier(t.period)
    /\ pc # "done" => t.period \notin DOMAIN data

Reported(r) ==
    \E i \in 1 .. Len(ticks) : ticks[i].period = r.period /\ ticks[i].end = r.end

TickInv ==
    /\ ticks \in Seq(TickSet)
    /\ \A i \in 1 .. Len(ticks) : GoodTick(ticks[i])
    /\ \A i, j \in 1 .. Len(ticks) : ticks[i].period = ticks[j].period => i = j
    /\ \A r \in ended : Reported(r)
    /\ ~started /\ pc \notin {"closing", "done"} => Len(ticks) = 0

\* What was reported stays good: the events that follow are after its end.
LEMMA StaysGood ==
    ASSUME LoopInv, LoopInv', NEW t \in TickSet, GoodTick(t),
           ended \subseteq ended', Len(stamp') >= Len(stamp),
           evt' = evt \/ (evt' = evt + 1 /\ pc \notin {"closing", "done"}),
           pc \in {"closing", "done"} => pc' \in {"closing", "done"},
           pc' \in {"engine", "refresh"} => pc \in {"engine", "refresh"} \/ evt' = evt + 1,
           pc' # "done" => pc # "done" /\ t.period \notin DOMAIN data' \ DOMAIN data
    PROVE  GoodTick(t)'
<1>1. /\ evt \in Nat /\ evt' \in Nat /\ Len(stamp) \in Nat /\ Len(stamp') \in Nat
      /\ BeginOf(t.period) \in 1 .. Len(stamp) /\ BeginOf(t.period) \in 1 .. Len(stamp')
      /\ t.end \in 1 .. evt \/ (t.end = NoEvent /\ pc \in {"closing", "done"})
  BY DEF LoopInv, LoopTyped, EngineInv, Typed, GoodTick
<1>2. Interval(t)' = Interval(t)
  <2>1. CASE evt' = evt
    BY <2>1 DEF Interval
  <2>2. CASE evt' = evt + 1 /\ t.end \in 1 .. evt
    BY <1>1, <2>2, NoEventAssumption DEF Interval
  <2> QED BY <1>1, <2>1, <2>2
<1>3. Earlier(t.period)'
  BY <1>1 DEF GoodTick, Earlier
<1>4. t.period \in Bare \/ \E r \in ended' : r.period = t.period /\ r.end = t.end
  BY DEF GoodTick
<1>5. t.end \in 1 .. evt' \/ (t.end = NoEvent /\ pc' \in {"closing", "done"})
  BY <1>1
<1> QED BY <1>1, <1>2, <1>3, <1>4, <1>5 DEF GoodTick

\* A step which reports nothing.
LEMMA NoTick ==
    ASSUME LoopInv, LoopInv', TickInv, ticks' = ticks, ended' = ended,
           started => started', Len(stamp') >= Len(stamp),
           evt' = evt \/ (evt' = evt + 1 /\ pc \notin {"closing", "done"}),
           pc \in {"closing", "done"} => pc' \in {"closing", "done"},
           pc' \in {"engine", "refresh"} => pc \in {"engine", "refresh"} \/ evt' = evt + 1,
           pc' # "done" => pc # "done",
           \A i \in 1 .. Len(ticks) : ticks[i].period \notin DOMAIN data' \ DOMAIN data
    PROVE  TickInv'
<1>1. ASSUME NEW i \in 1 .. Len(ticks) PROVE GoodTick(ticks[i])'
  <2>1. PICK t \in TickSet : t = ticks[i] /\ GoodTick(ticks[i])
    BY DEF TickInv
  <2>2. GoodTick(t) /\ t.period \notin DOMAIN data' \ DOMAIN data
    BY <2>1
  <2>3. GoodTick(t)'
    BY <2>2, StaysGood
  <2> QED BY <2>1, <2>3 DEF GoodTick, Interval, Earlier
<1>2. \A r \in ended' : Reported(r)'
  BY DEF TickInv, Reported
<1> QED BY <1>1, <1>2 DEF TickInv

\* A step which reports one period more.
LEMMA OneTick ==
    ASSUME LoopInv, LoopInv', DataInv, TickInv, pc # "done",
           NEW p \in DOMAIN data, NEW e \in Nat \cup {NoEvent},
           ticks' = Append(ticks, Tick(p, e)), evt' = evt, stamp' = stamp,
           \/ e = evt /\ evt > 0 /\ pc \in {"engine", "refresh"}
           \/ e = NoEvent /\ Seen = evt /\ pc' \in {"closing", "done"},
           pc = "closing" => pc' \in {"closing", "done"},
           pc' \in {"engine", "refresh"} => pc \in {"engine", "refresh"},
           started' \/ pc' \in {"closing", "done"},
           ended \subseteq ended',
           p \in Bare \/ \E r \in ended' : r.period = p /\ r.end = e,
           \A r \in ended' : r \in ended \/ (r.period = p /\ r.end = e),
           p \notin DOMAIN data',
           \A i \in 1 .. Len(ticks) : ticks[i].period \notin DOMAIN data' \ DOMAIN data
    PROVE  TickInv'
<1>1. DataKeys /\ Refreshed /\ Fed /\ evt \in Nat /\ Len(stamp) \in Nat /\ lastTs \in Nat \cup {NoTs}
  BY DEF DataInv, LoopInv, LoopTyped, EngineInv, Typed
<1>2. PICK t \in TickSet : /\ t = Tick(p, e) /\ t.period = p /\ t.end = e
                           /\ t.counted = {x \in 1 .. Seen : BeginOf(p) <= x}
  <2>1. p \in Paths \cup Bare
    BY <1>1 DEF DataKeys, LoopInv, EngineInv, Typed
  <2>2. data[p] = {x \in 1 .. Seen : BeginOf(p) <= x} /\ data[p] \in SUBSET Nat
    BY <1>1 DEF Fed, Seen
  <2> QED BY <1>1, <2>1, <2>2 DEF Tick, TickSet
<1>3. /\ ticks \in Seq(TickSet) /\ ticks' \in Seq(TickSet) /\ Len(ticks) \in Nat
      /\ Len(ticks') = Len(ticks) + 1 /\ ticks'[Len(ticks) + 1] = t
      /\ \A i \in 1 .. Len(ticks) : ticks'[i] = ticks[i]
  <2>1. ticks' = Append(ticks, t)
    BY <1>2
  <2> QED BY <1>2, <2>1 DEF TickInv
<1>4. BeginOf(p) \in 1 .. Len(stamp)
  BY <1>1 DEF DataKeys
<1>5. GoodTick(t)'
  <2>1. PICK b \in 1 .. Len(stamp) : b = BeginOf(p)
    BY <1>4
  <2>2. Interval(t)' = {x \in 1 .. evt : b <= x /\ (e # NoEvent => x < e)}
    BY <1>2, <2>1 DEF Interval
  <2>3. t.counted = {x \in 1 .. Seen : b <= x}
    BY <1>2, <2>1
  <2>4. p \in Rebegun => b <= evt
    BY <1>1, <2>1 DEF Refreshed, Earlier
  <2>5. (p \in Rebegun /\ pc \in {"engine", "refresh"}) => b < evt
    BY <1>1, <2>1 DEF Refreshed, Earlier
  <2>6. t.counted = Interval(t)'
    <3>1. CASE e = evt /\ pc \in {"engine", "refresh"}
      <4>1. Seen = evt - 1
        BY <3>1 DEF Seen
      <4> QED BY <1>1, <2>1, <2>2, <2>3, <3>1, <4>1, NoEventAssumption
    <3>2. CASE e = NoEvent /\ Seen = evt
      BY <1>1, <2>2, <2>3, <3>2
    <3> QED BY <3>1, <3>2
  <2>7. Earlier(p)'
    BY <2>1, <2>4, <2>5 DEF Earlier
  <2>8. e \in 1 .. evt \/ (e = NoEvent /\ pc' \in {"closing", "done"})
    BY <1>1
  <2> QED BY <1>2, <1>4, <2>6, <2>7, <2>8 DEF GoodTick
<1>6. ASSUME NEW i \in 1 .. Len(ticks) PROVE GoodTick(ticks[i])'
  <2>1. PICK o \in TickSet : o = ticks[i] /\ GoodTick(ticks[i])
    BY DEF TickInv
  <2>2. GoodTick(o) /\ o.period \notin DOMAIN data' \ DOMAIN data /\ ticks'[i] = o
    BY <1>3, <2>1
  <2>3. Len(stamp') >= Len(stamp)
    BY <1>1
  <2>4. pc \in {"closing", "done"} => pc' \in {"closing", "done"}
    OBVIOUS
  <2>5. GoodTick(o)'
    BY <2>2, <2>3, <2>4, StaysGood
  <2> QED BY <2>2, <2>5 DEF GoodTick, Interval, Earlier
<1>7. ASSUME NEW i \in 1 .. Len(ticks) PROVE ticks[i].period # p
  BY DEF TickInv, GoodTick
<1>8. ASSUME NEW i \in 1 .. Len(ticks'), NEW j \in 1 .. Len(ticks'),
             ticks'[i].period = ticks'[j].period
      PROVE  i = j
  BY <1>2, <1>3, <1>7, <1>8 DEF TickInv
<1>9. ASSUME NEW r \in ended' PROVE Reported(r)'
  <2>1. CASE r \in ended
    BY <1>3, <2>1 DEF TickInv, Reported
  <2>2. CASE r.period = p /\ r.end = e
    BY <1>2, <1>3, <2>2 DEF Reported
  <2> QED BY <2>1, <2>2
<1>10. \A i \in 1 .. Len(ticks') : GoodTick(ticks[i])'
  <2> TAKE i \in 1 .. Len(ticks')
  <2>1. CASE i \in 1 .. Len(ticks)
    BY <1>6, <2>1
  <2>2. CASE i = Len(ticks) + 1
    BY <1>3, <1>5, <2>2 DEF GoodTick, Interval, Earlier
  <2> QED BY <1>3, <2>1, <2>2
<1> QED BY <1>3, <1>8, <1>9, <1>10 DEF TickInv

LEMMA TickInit == Init => TickInv
<1> SUFFICES ASSUME Init PROVE TickInv
  OBVIOUS
<1>1. ticks \in Seq(TickSet) /\ Len(ticks) = 0 /\ ended = {}
  BY DEF Init, EngineInit
<1> QED BY <1>1 DEF TickInv

\* The engine ends a period.
LEMMA EndsTick ==
    ASSUME LoopInv, LoopInv', DataInv, TickInv, NEW p \in dying, PeriodEnds(p)
    PROVE  TickInv'
<1> DEFINE e == IF pc = "engine" THEN evt ELSE NoEvent
<1>1. /\ pc \in {"engine", "closing"} /\ EndPeriod(p) /\ OnPeriodEnd(p, e)
      /\ UNCHANGED loopVars
  BY DEF PeriodEnds
<1>2. /\ DataKeys /\ p \in DOMAIN data /\ evt \in Nat /\ evt' = evt /\ pc' = pc
      /\ started' = started /\ stamp' = stamp
  BY <1>1 DEF DataInv, DataKeys, EndPeriod, LoopInv, EngineInv, Typed, loopVars
<1>3. /\ pc = "engine" => phase = "end" /\ evt > 0 /\ started
      /\ pc = "closing" => phase = "remove"
  BY <1>1 DEF EndPeriod, LoopInv, Position
<1> DEFINE r0 == [period |-> p, end |-> e, completed |-> p \in matched]
<1>4. ended' = ended \cup {r0} /\ r0.period = p /\ r0.end = e
  BY <1>1, <1>3 DEF EndPeriod
<1>5. e \in Nat \cup {NoEvent}
  BY <1>2
<1>6. \/ e = evt /\ evt > 0 /\ pc \in {"engine", "refresh"}
      \/ e = NoEvent /\ Seen = evt /\ pc' \in {"closing", "done"}
  BY <1>1, <1>2, <1>3 DEF Seen
<1> HIDE DEF e, r0
<1>7. /\ ended \subseteq ended'
      /\ \E r \in ended' : r.period = p /\ r.end = e
      /\ \A r \in ended' : r \in ended \/ (r.period = p /\ r.end = e)
  BY <1>4
<1>8. DOMAIN data' = DOMAIN data \ {p} /\ ticks' = Append(ticks, Tick(p, e))
  BY <1>1 DEF OnPeriodEnd, WithoutPeriod
<1> QED BY <1>1, <1>2, <1>3, <1>5, <1>6, <1>7, <1>8, OneTick

\* A refresh ends a period, and begins one that was not reported yet.
LEMMA RefreshTick ==
    ASSUME LoopInv, LoopInv', DataInv, TickInv, RefreshPeriod
    PROVE  TickInv'
<1>1. PICK p \in RefreshDue, r \in Rebegun :
             /\ p \in Bare /\ DOMAIN data = {p} /\ evt \in Nat \ {0}
             /\ BeginOf(r) = evt /\ p # r
             /\ ticks' = Append(ticks, Tick(p, evt)) /\ DOMAIN data' = {r}
  BY RefreshedPeriod
<1>2. /\ pc = "refresh" /\ pc' = "automaton" /\ UNCHANGED engineVars
      /\ stamp' = stamp /\ started' = started /\ started
  BY DEF RefreshPeriod, LoopInv, Position
<1>3. ASSUME NEW i \in 1 .. Len(ticks) PROVE ticks[i].period # r
  BY <1>1, <1>2 DEF TickInv, GoodTick, Earlier
<1>4. evt' = evt /\ ended' = ended /\ p \in DOMAIN data /\ p \notin DOMAIN data'
  BY <1>1, <1>2 DEF engineVars
<1> QED BY <1>1, <1>2, <1>3, <1>4, OneTick

\* The analysis ends the last period.
LEMMA LastTick ==
    ASSUME LoopInv, LoopInv', DataInv, TickInv, EndDeflessPeriod
    PROVE  TickInv'
<1>1. /\ pc = "finish" /\ pc' = "done" /\ UNCHANGED engineVars /\ RegistryEmpty
      /\ stamp' = stamp /\ started' = started /\ evt \in Nat
  BY DEF EndDeflessPeriod, LoopInv, EngineInv, Typed
<1>2. ASSUME NEW p \in DOMAIN data, OnPeriodEnd(p, NoEvent) PROVE TickInv'
  <2>1. DataKeys /\ periods = {} /\ Seen = evt
    BY <1>1 DEF DataInv, LoopInv, Position, Seen, RegistryEmpty
  <2>2. p \in Bare /\ DOMAIN data' = DOMAIN data \ {p}
        /\ ticks' = Append(ticks, Tick(p, NoEvent))
    BY <1>2, <2>1 DEF DataKeys, OnPeriodEnd, WithoutPeriod
  <2>3. evt' = evt /\ ended' = ended
    BY <1>1 DEF engineVars
  <2> QED BY <1>1, <2>1, <2>2, <2>3, OneTick
<1>3. CASE UNCHANGED dataVars
  <2>1. evt' = evt /\ ended' = ended /\ ticks' = ticks /\ data' = data
        /\ Len(stamp') >= Len(stamp)
    BY <1>1, <1>3 DEF engineVars, dataVars, LoopInv, LoopTyped
  <2> QED BY <1>1, <2>1, NoTick
<1> QED BY <1>2, <1>3 DEF EndDeflessPeriod

\* A period which begins was not reported yet.
LEMMA BeginsNoTick ==
    ASSUME LoopInv, LoopInv', DataInv, TickInv,
           \/ \E ts \in 0 .. conf.last : ReadEvent(ts)
           \/ \E M \in SUBSET periods : Analyse(M)
           \/ \E d \in conf.defs, p \in periods \cup {Root} : PeriodBegins(d, p)
    PROVE  TickInv'
<1>0. evt \in Nat /\ Len(stamp) \in Nat /\ Len(ticks) \in Nat
  BY DEF LoopInv, LoopTyped, EngineInv, Typed, TickInv
<1>1. ASSUME NEW ts \in 0 .. conf.last, ReadEvent(ts) PROVE TickInv'
  <2>1. /\ pc = "read" /\ pc' = "event" /\ UNCHANGED engineVars
        /\ started' = started /\ Len(stamp') = Len(stamp) + 1
    BY <1>1, ReadLoop DEF ReadEvent
  <2>2. ASSUME NEW i \in 1 .. Len(ticks) PROVE ticks[i].period \notin DOMAIN data' \ DOMAIN data
    <3>1. CASE UNCHANGED dataVars
      BY <3>1 DEF dataVars
    <3>2. CASE stamp = << >>
      <4>1. Len(stamp) = 0
        BY <3>2
      <4> QED BY <4>1 DEF TickInv, GoodTick
    <3> QED BY <1>1, <3>1, <3>2 DEF ReadEvent
  <2>3. evt' = evt /\ ended' = ended /\ ticks' = ticks
    BY <1>1, <2>1 DEF engineVars, ReadEvent, OnPeriodBegin, dataVars
  <2> QED BY <1>0, <2>1, <2>2, <2>3, NoTick
<1>2. ASSUME NEW M \in SUBSET periods, Analyse(M) PROVE TickInv'
  <2>1. /\ pc = "event" /\ pc' = "engine" /\ evt' = evt + 1 /\ ended' = ended
        /\ started' /\ stamp' = stamp
    BY <1>2 DEF Analyse, ProcessEvent
  <2>2. ASSUME NEW i \in 1 .. Len(ticks) PROVE ticks[i].period \notin DOMAIN data' \ DOMAIN data
    <3>1. CASE UNCHANGED dataVars
      BY <3>1 DEF dataVars
    <3>2. CASE ~started
      BY <1>0, <2>1, <3>2 DEF TickInv
    <3> QED BY <1>2, <3>1, <3>2 DEF Analyse
  <2>3. ticks' = ticks
    BY <1>2 DEF Analyse, OnPeriodBegin, dataVars
  <2> QED BY <1>0, <2>1, <2>2, <2>3, NoTick
<1>3. ASSUME NEW d \in conf.defs, NEW p \in periods \cup {Root}, PeriodBegins(d, p)
      PROVE  TickInv'
  <2> DEFINE n == Append(p, [def |-> d, begin |-> evt])
  <2>1. /\ pc = "engine" /\ UNCHANGED loopVars /\ evt' = evt /\ ended' = ended
        /\ OnPeriodBegin(n) /\ BeginPeriod(d, p)
    BY <1>3 DEF PeriodBegins, BeginPeriod
  <2>2. d \in Defs
    BY ConfsAssumption DEF LoopInv, LoopTyped
  <2>3. n \in Paths /\ n # Root /\ \A r \in ended : r.period # n
    BY <2>1, <2>2, NewPeriod DEF LoopInv
  <2>4. n \notin Bare
    BY <2>3, BarePeriod
  <2> HIDE DEF n
  <2>5. DOMAIN data' = DOMAIN data \cup {n} /\ ticks' = ticks
    BY <2>1 DEF OnPeriodBegin, WithPeriod
  <2>6. ASSUME NEW i \in 1 .. Len(ticks) PROVE ticks[i].period # n
    BY <2>3, <2>4 DEF TickInv, GoodTick
  <2>7. pc' = pc /\ started' = started /\ stamp' = stamp
    BY <2>1 DEF loopVars
  <2> QED BY <1>0, <2>1, <2>5, <2>6, <2>7, NoTick
<1> QED BY <1>1, <1>2, <1>3

LEMMA TickNext ==
    ASSUME LoopInv, LoopInv', DataInv, TickInv, [Next]_analysisVars
    PROVE  TickInv'
<1>0. evt \in Nat /\ Len(stamp) \in Nat
  BY DEF LoopInv, LoopTyped, EngineInv, Typed
<1>1. CASE NoMoreEvents \/ EventPastEnd \/ EventBeforeBegin \/ EndingReturns
           \/ EngineReturns \/ KeepPeriod \/ RefreshCrashes \/ EndAllPeriods
  <2>1. /\ data' = data /\ ticks' = ticks /\ ended' = ended
        /\ stamp' = stamp /\ started' = started
        /\ pc \notin {"closing", "done"} /\ pc' # "done"
    BY <1>1 DEF NoMoreEvents, EventPastEnd, EventBeforeBegin, EndingReturns,
       EngineReturns, KeepPeriod, RefreshCrashes, EndAllPeriods, dataVars, loopVars,
       engineVars, SkipEvent, EndingDone, EventDone, RemoveAllPeriods
  <2>2. /\ pc' \in {"engine", "refresh"} => pc \in {"engine", "refresh"}
        /\ evt' = evt \/ evt' = evt + 1
    BY <1>1 DEF NoMoreEvents, EventPastEnd, EventBeforeBegin, EndingReturns,
       EngineReturns, KeepPeriod, RefreshCrashes, EndAllPeriods, loopVars,
       engineVars, SkipEvent, EndingDone, EventDone, RemoveAllPeriods
  <2> QED BY <1>0, <2>1, <2>2, NoTick
<1>2. CASE Automaton \/ EngineClosed
  <2>1. /\ DOMAIN data' \subseteq DOMAIN data /\ ticks' = ticks /\ ended' = ended
        /\ stamp' = stamp /\ started' = started /\ evt' = evt
        /\ (pc = "automaton" /\ pc' = "read") \/ (pc = "closing" /\ pc' = "done")
    BY <1>2 DEF Automaton, EngineClosed, RemovalDone, engineVars, NoData
  <2> QED BY <1>0, <2>1, NoTick
<1>3. CASE UNCHANGED analysisVars
  <2>1. UNCHANGED <<engineVars, loopVars, dataVars>>
    BY <1>3 DEF analysisVars
  <2>2. /\ data' = data /\ ticks' = ticks /\ ended' = ended
        /\ stamp' = stamp /\ started' = started /\ evt' = evt /\ pc' = pc
    BY <2>1 DEF engineVars, loopVars, dataVars
  <2>3. \A i \in 1 .. Len(ticks) : GoodTick(ticks[i])' = GoodTick(ticks[i])
    BY <2>2 DEF GoodTick, Interval, Earlier
  <2>4. \A r \in ended : Reported(r)' = Reported(r)
    BY <2>2 DEF Reported
  <2> QED BY <2>2, <2>3, <2>4 DEF TickInv
<1>4. CASE \E p \in dying : PeriodEnds(p)
  BY <1>4, EndsTick
<1> QED BY <1>1, <1>2, <1>3, <1>4, BeginsNoTick, RefreshTick, LastTick DEF Next

\* The invariant, with the history of what was reported.
FullInv == LifeInv /\ TickInv

LEMMA FullInvariant == Spec => []FullInv
<1>1. Init => FullInv
  BY LoopInit, DataInit, MappingInit, TickInit DEF FullInv, LifeInv
<1>2. FullInv /\ [Next]_analysisVars => FullInv'
  BY LoopNext, DataNext, MappingNext, TickNext DEF FullInv, LifeInv
<1> QED BY <1>1, <1>2, PTL DEF Spec

\* The data of a period counts the events of its interval, its beginning
\* included and its end excluded.
THEOREM AnalysisCounts == Spec => []TickCountsItsInterval
<1>1. TickInv => TickCountsItsInterval
  <2> SUFFICES ASSUME TickInv, NEW i \in DOMAIN ticks
               PROVE  ticks[i].counted = Interval(ticks[i])
    BY DEF TickCountsItsInterval, Interval
  <2>1. i \in 1 .. Len(ticks)
    BY DEF TickInv
  <2> QED BY <2>1 DEF TickInv, GoodTick
<1> QED BY <1>1, FullInvariant, PTL DEF FullInv

\* A period is reported once, and every one that the engine ended is.
THEOREM AnalysisReports == Spec => []EveryPeriodTicksOnce
<1>1. TickInv => EveryPeriodTicksOnce
  <2> SUFFICES ASSUME TickInv PROVE EveryPeriodTicksOnce
    OBVIOUS
  <2>1. DOMAIN ticks = 1 .. Len(ticks)
    BY DEF TickInv
  <2>2. ASSUME NEW r \in ended
        PROVE  <<r.period, r.end>> \in {<<ticks[i].period, ticks[i].end>> : i \in DOMAIN ticks}
    BY <2>1 DEF TickInv, Reported
  <2> QED BY <2>1, <2>2 DEF TickInv, EveryPeriodTicksOnce
<1> QED BY <1>1, FullInvariant, PTL DEF FullInv

-----------------------------------------------------------------------------
(* The dates.                                                              *)

\* The dates of the events do not change, nor does the configuration.
LEMMA StampGrows ==
    ASSUME LoopInv, [Next]_analysisVars
    PROVE  /\ conf' = conf /\ Len(stamp) \in Nat /\ Len(stamp') \in Nat
           /\ Len(stamp') >= Len(stamp)
           /\ \A i \in 1 .. Len(stamp) : stamp'[i] = stamp[i] /\ stamp[i] \in Nat
           /\ started => started'
<1>0. stamp \in Seq(Nat)
  BY DEF LoopInv, LoopTyped
<1>1. CASE \E ts \in 0 .. conf.last : ReadEvent(ts)
  BY <1>0, <1>1, ReadLoop DEF ReadEvent
<1>2. CASE ~\E ts \in 0 .. conf.last : ReadEvent(ts)
  <2>1. stamp' = stamp /\ conf' = conf /\ (started' = started \/ started' = TRUE)
    BY <1>2 DEF Next, analysisVars, loopVars, NoMoreEvents, EventPastEnd, EventBeforeBegin,
         Analyse, PeriodEnds, PeriodBegins, EndingReturns, EngineReturns, KeepPeriod,
         RefreshPeriod, RefreshCrashes, Automaton, EndDeflessPeriod, EndAllPeriods,
         EngineClosed
  <2>2. started => started'
    BY <2>1, Zenon
  <2> QED BY <1>0, <2>1, <2>2
<1> QED BY <1>1, <1>2

\* A new period begins at the event being read; if there is a begin date, once
\* the analysis has started.
LEMMA NewKeys ==
    ASSUME LoopInv, DataInv, [Next]_analysisVars, NEW q \in DOMAIN data', q \notin DOMAIN data
    PROVE  BeginOf(q) = Len(stamp') /\ (Truthy(conf.begin) => started')
<1>0. evt \in Nat /\ Len(stamp) \in Nat
  BY DEF LoopInv, LoopTyped, EngineInv, Typed
<1>1. ASSUME NEW ts \in 0 .. conf.last, ReadEvent(ts)
      PROVE  BeginOf(q) = Len(stamp') /\ (Truthy(conf.begin) => started')
  <2> DEFINE n == Defless(1, FALSE)
  <2>1. OnPeriodBegin(n) /\ stamp = << >> /\ conf.begin = NoTs
    <3>1. ~UNCHANGED dataVars
      BY DEF dataVars
    <3>2. IF stamp = << >> /\ RegistryEmpty /\ conf.begin = NoTs
            THEN OnPeriodBegin(n) ELSE UNCHANGED dataVars
      BY <1>1, Zenon DEF ReadEvent
    <3> HIDE DEF n
    <3> QED BY <3>1, <3>2
  <2>2. BeginOf(n) = 1
    BY FirstPeriod
  <2> HIDE DEF n
  <2>3. BeginOf(q) = 1
    BY <2>1, <2>2 DEF OnPeriodBegin, WithPeriod
  <2>4. Len(stamp) = 0 /\ Len(stamp') = Len(stamp) + 1
    BY <1>1, <2>1, ReadLoop
  <2> QED BY <2>1, <2>3, <2>4 DEF Truthy
<1>2. ASSUME NEW M \in SUBSET periods, Analyse(M)
      PROVE  BeginOf(q) = Len(stamp') /\ (Truthy(conf.begin) => started')
  <2> DEFINE n == Defless(Current, FALSE)
  <2>1. OnPeriodBegin(n) /\ started' /\ stamp' = stamp
    BY <1>2 DEF Analyse, dataVars
  <2>2. BeginOf(n) = Len(stamp)
    BY <1>0, FirstPeriod DEF Current
  <2> HIDE DEF n
  <2>3. BeginOf(q) = Len(stamp)
    BY <2>1, <2>2 DEF OnPeriodBegin, WithPeriod
  <2> QED BY <2>1, <2>3
<1>3. ASSUME NEW d \in conf.defs, NEW p \in periods \cup {Root}, PeriodBegins(d, p)
      PROVE  BeginOf(q) = Len(stamp') /\ (Truthy(conf.begin) => started')
  <2> DEFINE n == Append(p, [def |-> d, begin |-> evt])
  <2>1. /\ UNCHANGED loopVars /\ BeginPeriod(d, p) /\ OnPeriodBegin(n)
        /\ Len(stamp) = evt /\ started
    BY <1>3 DEF PeriodBegins, LoopInv, Position
  <2>2. d \in Defs
    BY ConfsAssumption DEF LoopInv, LoopTyped
  <2>3. BeginOf(n) = evt
    BY <2>1, <2>2, NewPeriod DEF LoopInv
  <2> HIDE DEF n
  <2>4. q = n
    BY <2>1 DEF OnPeriodBegin, WithPeriod
  <2> QED BY <2>1, <2>3, <2>4 DEF loopVars
<1>4. ASSUME RefreshPeriod
      PROVE  BeginOf(q) = Len(stamp') /\ (Truthy(conf.begin) => started')
  <2>1. /\ stamp' = stamp /\ Len(stamp) = evt /\ started'
    BY <1>4 DEF RefreshPeriod, LoopInv, Position
  <2> QED BY <1>4, <2>1, RefreshedPeriod
<1>5. DOMAIN data' \subseteq DOMAIN data
        \/ (\E ts \in 0 .. conf.last : ReadEvent(ts))
        \/ (\E M \in SUBSET periods : Analyse(M))
        \/ (\E d \in conf.defs, p \in periods \cup {Root} : PeriodBegins(d, p))
        \/ RefreshPeriod
  BY DEF Next, analysisVars, dataVars, NoMoreEvents, EventPastEnd, EventBeforeBegin,
         PeriodEnds, EndingReturns, EngineReturns, KeepPeriod, RefreshCrashes, Automaton,
         EndDeflessPeriod, EndAllPeriods, EngineClosed, OnPeriodEnd, WithoutPeriod, NoData
<1> QED BY <1>1, <1>2, <1>3, <1>4, <1>5

\* A step reports nothing, or a period it has the data of.
LEMMA NewTick ==
    ASSUME LoopInv, DataInv, TickInv, TickInv', [Next]_analysisVars, ticks' # ticks
    PROVE  \E p \in DOMAIN data, e \in {evt, NoEvent} :
             /\ ticks' = Append(ticks, Tick(p, e))
             /\ Len(ticks') = Len(ticks) + 1 /\ Len(ticks) \in Nat
             /\ ticks'[Len(ticks) + 1] = Tick(p, e)
             /\ \A i \in 1 .. Len(ticks) : ticks'[i] = ticks[i]
<1>1. /\ pc \in {"engine", "closing"} => dying \subseteq DOMAIN data
      /\ RefreshDue \subseteq DOMAIN data
  BY DEF LoopInv, EngineInv, Typed, DataInv, DataKeys, RefreshDue, DeflessPeriods
<1>2. \E p \in DOMAIN data, e \in {evt, NoEvent} : ticks' = Append(ticks, Tick(p, e))
  <2>1. ASSUME NEW p \in dying, PeriodEnds(p)
        PROVE  \E e \in {evt, NoEvent} : p \in DOMAIN data /\ ticks' = Append(ticks, Tick(p, e))
    BY <1>1, <2>1 DEF PeriodEnds, OnPeriodEnd
  <2>2. CASE RefreshPeriod
    BY <1>1, <2>2 DEF RefreshPeriod
  <2>3. CASE EndDeflessPeriod
    BY <2>3 DEF EndDeflessPeriod, OnPeriodEnd, dataVars
  <2> QED BY <2>1, <2>2, <2>3 DEF Next, analysisVars, dataVars, ReadEvent, NoMoreEvents,
         EventPastEnd, EventBeforeBegin, Analyse, PeriodBegins, EndingReturns, EngineReturns,
         KeepPeriod, RefreshCrashes, Automaton, EndAllPeriods, EngineClosed, OnPeriodBegin
<1> QED BY <1>2 DEF TickInv

\* No event after the end date is counted.
EndBounds ==
    Truthy(conf.end) =>
        /\ \A e \in 1 .. evt : stamp[e] <= conf.end
        /\ lastTs # NoTs => lastTs <= conf.end

\* The analysis starts, and its periods begin, from the begin date on.
BeginBounds ==
    Truthy(conf.begin) =>
        /\ started => Len(stamp) > 0 /\ stamp[Len(stamp)] >= conf.begin
        /\ \A p \in DOMAIN data : stamp[BeginOf(p)] >= conf.begin

TickBounds ==
    \A i \in 1 .. Len(ticks) :
        /\ Truthy(conf.begin) => stamp[BeginOf(ticks[i].period)] >= conf.begin
        /\ (Truthy(conf.end) /\ ticks[i].at # NoTs) => ticks[i].at <= conf.end

RangeInv == EndBounds /\ BeginBounds /\ TickBounds

LEMMA RangeInit == Init => RangeInv
<1> SUFFICES ASSUME Init PROVE RangeInv
  OBVIOUS
<1>1. /\ evt = 0 /\ lastTs = NoTs /\ started = FALSE /\ DOMAIN data = {} /\ Len(ticks) = 0
  BY DEF Init, EngineInit, NoData
<1>2. ~started
  BY <1>1, Zenon
<1> QED BY <1>1, <1>2 DEF RangeInv, EndBounds, BeginBounds, TickBounds

\* The dates of an event which is analysed, or only seen.
LEMMA RangeNext ==
    ASSUME LoopInv, LoopInv', DataInv, DataInv', TickInv, TickInv', RangeInv,
           [Next]_analysisVars
    PROVE  RangeInv'
<1>1. /\ conf' = conf /\ Len(stamp) \in Nat /\ Len(stamp') \in Nat /\ Len(stamp') >= Len(stamp)
      /\ \A i \in 1 .. Len(stamp) : stamp'[i] = stamp[i] /\ stamp[i] \in Nat
      /\ started => started'
  BY StampGrows
<1>2. /\ evt \in Nat /\ evt' \in Nat /\ evt <= Len(stamp) /\ evt' <= Len(stamp')
      /\ conf \in Confs
  <2>1. evt \in Nat /\ evt' \in Nat /\ conf \in Confs
    BY DEF LoopInv, LoopTyped, EngineInv, Typed
  <2>2. /\ Len(stamp) = evt \/ Len(stamp) = evt + 1
        /\ Len(stamp') = evt' \/ Len(stamp') = evt' + 1
    BY DEF LoopInv, Position
  <2>3. evt <= Len(stamp)
    BY <2>1, <2>2
  <2>4. evt' <= Len(stamp')
    <3>1. PICK n \in Nat, m \in Nat : n = Len(stamp') /\ m = evt'
      BY <1>1, <2>1
    <3>2. n = m \/ n = m + 1
      BY <2>2, <3>1
    <3>3. m <= n
      BY <3>2
    <3> QED BY <3>1, <3>3
  <2> QED BY <2>1, <2>3, <2>4
<1>3. /\ conf.begin \in Nat \cup {NoTs} /\ conf.end \in Nat \cup {NoTs}
      /\ Truthy(conf.begin) => conf.begin \in Nat
      /\ Truthy(conf.end) => conf.end \in Nat
  BY <1>2, ConfsAssumption DEF Truthy
<1>4. EndBounds'
  <2> SUFFICES ASSUME Truthy(conf.end)
               PROVE  /\ \A e \in 1 .. evt' : stamp'[e] <= conf.end
                      /\ lastTs' # NoTs => lastTs' <= conf.end
    BY <1>1 DEF EndBounds, Truthy
  <2>1. /\ \A e \in 1 .. evt : stamp'[e] <= conf.end
        /\ lastTs # NoTs => lastTs <= conf.end
    BY <1>1, <1>2 DEF RangeInv, EndBounds
  <2>2. CASE evt' = evt /\ lastTs' = lastTs
    BY <2>1, <2>2
  <2>3. CASE EventBeforeBegin \/ \E M \in SUBSET periods : Analyse(M)
    <3>1. /\ pc = "event" /\ evt' = evt + 1 /\ lastTs' = Now /\ stamp' = stamp
          /\ ~PastEnd
      BY <2>3 DEF EventBeforeBegin, Analyse, SkipEvent, ProcessEvent
    <3>2. Len(stamp) = evt + 1 /\ Now = stamp[evt + 1] /\ Now \in Nat
      BY <1>1, <1>2, <3>1 DEF LoopInv, Position, Now, Current
    <3>3. Now <= conf.end
      BY <1>3, <3>1, <3>2 DEF PastEnd
    <3> QED BY <1>2, <2>1, <3>1, <3>2, <3>3
  <2>4. (evt' = evt /\ lastTs' = lastTs)
          \/ EventBeforeBegin \/ \E M \in SUBSET periods : Analyse(M)
    BY DEF Next, analysisVars, engineVars, loopVars, ReadEvent, NoMoreEvents, EventPastEnd,
         PeriodEnds, PeriodBegins, EndingReturns, EngineReturns, KeepPeriod,
         RefreshPeriod, RefreshCrashes, Automaton, EndDeflessPeriod, EndAllPeriods,
         EngineClosed, EndPeriod, BeginPeriod, EndingDone, EventDone, RemoveAllPeriods,
         RemovalDone
  <2> QED BY <2>2, <2>3, <2>4
<1>5. BeginBounds'
  <2> SUFFICES ASSUME Truthy(conf.begin)
               PROVE  /\ started' => Len(stamp') > 0 /\ stamp'[Len(stamp')] >= conf.begin
                      /\ \A p \in DOMAIN data' : stamp'[BeginOf(p)] >= conf.begin
    BY <1>1 DEF BeginBounds, Truthy
  <2>1. /\ started => Len(stamp) > 0 /\ stamp[Len(stamp)] >= conf.begin
        /\ \A p \in DOMAIN data : stamp[BeginOf(p)] >= conf.begin
    BY DEF RangeInv, BeginBounds
  <2>2. ASSUME started' PROVE Len(stamp') > 0 /\ stamp'[Len(stamp')] >= conf.begin
    <3>1. CASE started
      <4>1. Len(stamp) > 0 /\ stamp'[Len(stamp)] >= conf.begin
        BY <1>1, <2>1, <3>1
      <4>2. stamp'[Len(stamp')] >= stamp'[Len(stamp)]
        BY <1>1, <4>1 DEF LoopInv, InOrder
      <4>3. stamp'[Len(stamp')] \in Nat /\ stamp'[Len(stamp)] \in Nat
        BY <1>1, <4>1 DEF LoopInv, LoopTyped
      <4> QED BY <1>1, <1>3, <4>1, <4>2, <4>3
    <3>2. CASE ~started
      <4>1. PICK M \in SUBSET periods : Analyse(M)
        <5>1. started' # started
          BY <2>2, <3>2
        <5> QED BY <5>1 DEF Next, analysisVars, loopVars, ReadEvent, NoMoreEvents, EventPastEnd,
              EventBeforeBegin, PeriodEnds, PeriodBegins, EndingReturns, EngineReturns,
              KeepPeriod, RefreshPeriod, RefreshCrashes, Automaton, EndDeflessPeriod,
              EndAllPeriods, EngineClosed
      <4>2. stamp' = stamp /\ Len(stamp) = evt + 1 /\ ~BeforeBegin
        BY <4>1 DEF Analyse, LoopInv, Position
      <4>3. Now \in Nat /\ Now = stamp[Len(stamp)]
        BY <1>1, <1>2, <4>2 DEF Now, Current
      <4>4. Now >= conf.begin
        BY <1>3, <3>2, <4>2, <4>3 DEF BeforeBegin
      <4> QED BY <1>2, <4>2, <4>3, <4>4
    <3> QED BY <3>1, <3>2
  <2>3. ASSUME NEW p \in DOMAIN data' PROVE stamp'[BeginOf(p)] >= conf.begin
    <3>1. CASE p \in DOMAIN data
      <4>1. BeginOf(p) \in 1 .. Len(stamp)
        BY <3>1 DEF DataInv, DataKeys, NoData
      <4> QED BY <1>1, <2>1, <3>1, <4>1
    <3>2. CASE p \notin DOMAIN data
      BY <2>2, <3>2, NewKeys
    <3> QED BY <3>1, <3>2
  <2> QED BY <2>2, <2>3
<1>6. TickBounds'
  <2>0. ASSUME NEW i \in 1 .. Len(ticks)
        PROVE  /\ Truthy(conf.begin) => stamp'[BeginOf(ticks[i].period)] >= conf.begin
               /\ (Truthy(conf.end) /\ ticks[i].at # NoTs) => ticks[i].at <= conf.end
    <3>1. BeginOf(ticks[i].period) \in 1 .. Len(stamp)
      BY DEF TickInv, GoodTick
    <3> QED BY <1>1, <3>1 DEF RangeInv, TickBounds
  <2>1. CASE ticks' = ticks
    BY <1>1, <2>0, <2>1 DEF TickBounds, Truthy
  <2>2. CASE ticks' # ticks
    <3>1. PICK p \in DOMAIN data, e \in {evt, NoEvent} :
             /\ Len(ticks') = Len(ticks) + 1 /\ Len(ticks) \in Nat
             /\ ticks'[Len(ticks) + 1] = Tick(p, e)
             /\ \A i \in 1 .. Len(ticks) : ticks'[i] = ticks[i]
      BY <2>2, NewTick
    <3>2. BeginOf(p) \in 1 .. Len(stamp)
      BY DEF DataInv, DataKeys, NoData
    <3>3. /\ Truthy(conf.begin) => stamp'[BeginOf(p)] >= conf.begin
          /\ Truthy(conf.end) /\ lastTs # NoTs => lastTs <= conf.end
      BY <1>1, <3>2 DEF RangeInv, BeginBounds, EndBounds
    <3>4. Tick(p, e).period = p /\ Tick(p, e).at = lastTs
      BY DEF Tick
    <3> DEFINE j == Len(ticks) + 1
    <3>5. ASSUME NEW i \in 1 .. Len(ticks')
          PROVE  /\ Truthy(conf.begin) => stamp'[BeginOf(ticks'[i].period)] >= conf.begin
                 /\ (Truthy(conf.end) /\ ticks'[i].at # NoTs) => ticks'[i].at <= conf.end
      <4>1. CASE i \in 1 .. Len(ticks)
        BY <2>0, <3>1, <4>1
      <4>2. CASE i = j
        BY <3>1, <3>3, <3>4, <4>2
      <4> QED BY <3>1, <4>1, <4>2
    <3> QED BY <1>1, <3>5 DEF TickBounds, Truthy, BeginOf
  <2> QED BY <2>1, <2>2
<1> QED BY <1>4, <1>5, <1>6 DEF RangeInv

\* Nothing is counted, and no end is reported, outside the dates.
THEOREM AnalysisRange == Spec => []InsideTimeRange
<1>1. ASSUME LoopInv, TickInv, RangeInv PROVE InsideTimeRange
  <2> SUFFICES ASSUME NEW i \in DOMAIN ticks
               PROVE  /\ \A e \in ticks[i].counted :
                           /\ Truthy(conf.begin) => stamp[e] >= conf.begin
                           /\ Truthy(conf.end) => stamp[e] <= conf.end
                      /\ (Truthy(conf.end) /\ ticks[i].at # NoTs) => ticks[i].at <= conf.end
    BY DEF InsideTimeRange
  <2>1. i \in 1 .. Len(ticks) /\ GoodTick(ticks[i])
    BY <1>1 DEF TickInv
  <2>2. (Truthy(conf.end) /\ ticks[i].at # NoTs) => ticks[i].at <= conf.end
    BY <1>1, <2>1 DEF RangeInv, TickBounds
  <2>3. ASSUME NEW e \in ticks[i].counted
        PROVE  /\ Truthy(conf.begin) => stamp[e] >= conf.begin
               /\ Truthy(conf.end) => stamp[e] <= conf.end
    <3> DEFINE b == BeginOf(ticks[i].period)
    <3>1. e \in 1 .. evt /\ b <= e /\ b \in 1 .. Len(stamp)
      BY <2>1 DEF GoodTick, Interval
    <3>2. evt \in Nat /\ evt <= Len(stamp) /\ Len(stamp) \in Nat /\ stamp \in Seq(Nat)
          /\ conf \in Confs
      BY <1>1 DEF LoopInv, LoopTyped, EngineInv, Typed, Position
    <3>3. Truthy(conf.begin) => stamp[b] >= conf.begin /\ conf.begin \in Nat
      BY <1>1, <2>1, <3>2, ConfsAssumption DEF RangeInv, TickBounds, Truthy
    <3> HIDE DEF b
    <3>4. stamp[e] >= stamp[b] /\ stamp[b] \in Nat /\ stamp[e] \in Nat
      BY <1>1, <3>1, <3>2 DEF LoopInv, InOrder
    <3>5. Truthy(conf.end) => stamp[e] <= conf.end
      BY <1>1, <3>1 DEF RangeInv, EndBounds
    <3> QED BY <3>3, <3>4, <3>5
  <2> QED BY <2>2, <2>3
<1>2. FullInv /\ RangeInv /\ FullInv' /\ [Next]_analysisVars => RangeInv'
  BY RangeNext DEF FullInv, LifeInv
<1> QED BY <1>1, <1>2, RangeInit, FullInvariant, PTL DEF Spec, FullInv, LifeInv

-----------------------------------------------------------------------------
(* The refresh.                                                            *)

\* The events which did not end the period that was open then.
Passed == IF pc \in {"engine", "refresh", "crashed"} THEN evt - 1 ELSE evt

Tile(i) ==
    LET b == BeginOf(ticks[i].period) IN
    /\ i > 1 => ticks[i - 1].end = b
    /\ ticks[i].end # NoEvent => stamp[ticks[i].end] >= stamp[b] + conf.refresh
    /\ \A e \in ticks[i].counted : e = b \/ stamp[e] < stamp[b] + conf.refresh

\* The open period begins where the last one ended, and is not overdue.
NextTile(p) ==
    /\ Len(ticks) > 0 => ticks[Len(ticks)].end = BeginOf(p)
    /\ \A e \in 1 .. Passed :
         BeginOf(p) < e => stamp[e] < stamp[BeginOf(p)] + conf.refresh

TileInv ==
    conf.refresh # NoTs =>
        /\ \A i \in 1 .. Len(ticks) : Tile(i)
        /\ pc # "done" => \A p \in DOMAIN data : NextTile(p)

LEMMA TileInit == Init => TileInv
<1> SUFFICES ASSUME Init PROVE TileInv
  OBVIOUS
<1>1. DOMAIN data = {} /\ Len(ticks) = 0
  BY DEF Init, NoData
<1> QED BY <1>1 DEF TileInv

\* Refresh periods exclude definitions, and so the engine's periods.
LEMMA RefreshOnly ==
    ASSUME LoopInv, conf.refresh # NoTs
    PROVE  conf.defs = {} /\ periods = {} /\ dying = {} /\ RegistryEmpty
<1>1. conf.defs = {}
  BY RefreshAssumption DEF LoopInv, LoopTyped
<1>2. periods = {}
  BY <1>1 DEF LoopInv, Position
<1> QED BY <1>1, <1>2 DEF LoopInv, EngineInv, Typed, RegistryEmpty

\* What was reported still tiles.
LEMMA SameTile ==
    ASSUME LoopInv, TickInv, [Next]_analysisVars, NEW i \in 1 .. Len(ticks), Tile(i),
           \A j \in 1 .. Len(ticks) : ticks'[j] = ticks[j]
    PROVE  Tile(i)'
<1>1. /\ conf' = conf /\ Len(stamp) \in Nat /\ Len(ticks) \in Nat /\ evt \in Nat
      /\ \A x \in 1 .. Len(stamp) : stamp'[x] = stamp[x]
  BY StampGrows DEF TickInv, LoopInv, EngineInv, Typed
<1>2. evt <= Len(stamp)
  <2>1. Len(stamp) = evt \/ Len(stamp) = evt + 1
    BY DEF LoopInv, Position
  <2> QED BY <1>1, <2>1
<1>3. PICK t \in TickSet : t = ticks[i] /\ t = ticks'[i]
  BY DEF TickInv
<1>4. /\ BeginOf(t.period) \in 1 .. Len(stamp)
      /\ t.end \in 1 .. evt \/ t.end = NoEvent
      /\ t.counted \subseteq 1 .. evt
  BY <1>3 DEF TickInv, GoodTick, Interval
<1>5. PICK b \in 1 .. Len(stamp) : b = BeginOf(t.period)
  BY <1>4
<1>6. /\ i > 1 => ticks[i - 1].end = b
      /\ t.end # NoEvent => stamp[t.end] >= stamp[b] + conf.refresh
      /\ \A e \in t.counted : e = b \/ stamp[e] < stamp[b] + conf.refresh
  BY <1>3, <1>5 DEF Tile
<1>7. /\ i > 1 => ticks'[i - 1].end = b
      /\ t.end # NoEvent => stamp'[t.end] >= stamp'[b] + conf'.refresh
      /\ \A e \in t.counted : e = b \/ stamp'[e] < stamp'[b] + conf'.refresh
  <2>1. i > 1 => ticks'[i - 1] = ticks[i - 1]
    BY <1>1
  <2>0. 1 .. evt \subseteq 1 .. Len(stamp)
    BY <1>1, <1>2
  <2>2. t.end # NoEvent => stamp'[t.end] = stamp[t.end]
    BY <1>1, <1>4, <2>0
  <2>3. \A e \in t.counted : stamp'[e] = stamp[e]
    BY <1>1, <1>4, <2>0
  <2>4. stamp'[b] = stamp[b]
    BY <1>1
  <2> QED BY <1>1, <1>6, <2>1, <2>2, <2>3, <2>4
<1> QED BY <1>3, <1>5, <1>7 DEF Tile, BeginOf

\* The step of a refresh: the period that ends is the next tile.
LEMMA RefreshTile ==
    ASSUME LoopInv, LoopInv', DataInv, TickInv, TickInv', TileInv, conf.refresh # NoTs,
           RefreshPeriod, \A i \in 1 .. Len(ticks) : Tile(i)'
    PROVE  TileInv'
<1>1. PICK p \in RefreshDue, r \in Rebegun :
             /\ p \in Bare /\ DOMAIN data = {p} /\ evt \in Nat \ {0}
             /\ BeginOf(r) = evt /\ ticks' = Append(ticks, Tick(p, evt))
             /\ DOMAIN data' = {r}
  BY RefreshedPeriod
<1>2. /\ pc = "refresh" /\ pc' = "automaton" /\ UNCHANGED engineVars
      /\ stamp' = stamp /\ conf' = conf /\ Len(stamp) = evt
  BY DEF RefreshPeriod, LoopInv, Position
<1>3. /\ Len(ticks) \in Nat /\ Len(ticks') = Len(ticks) + 1
      /\ \A i \in 1 .. Len(ticks) : ticks'[i] = ticks[i]
      /\ ticks'[Len(ticks) + 1] = Tick(p, evt)
  BY <1>1 DEF TickInv
<1>4. PICK b \in 1 .. evt : b = BeginOf(p)
  BY <1>1, <1>2 DEF DataInv, DataKeys
<1>5. NextTile(p) /\ data[p] = {e \in 1 .. Seen : BeginOf(p) <= e}
  BY <1>1, <1>2 DEF TileInv, DataInv, Fed
<1>6. stamp[evt] >= stamp[b] + conf.refresh
  BY <1>1, <1>2, <1>4 DEF RefreshDue, Now, Current
<1>7. Tick(p, evt).period = p /\ Tick(p, evt).end = evt /\ Tick(p, evt).counted = data[p]
  BY DEF Tick
<1>8. ASSUME NEW i \in 1 .. Len(ticks') PROVE Tile(i)'
  <2>1. CASE i = Len(ticks) + 1
    <3>1. i > 1 => ticks'[i - 1].end = b
      BY <1>3, <1>4, <1>5, <2>1 DEF NextTile
    <3>2. \A e \in data[p] : e = b \/ stamp[e] < stamp[b] + conf.refresh
      BY <1>1, <1>2, <1>4, <1>5 DEF NextTile, Passed, Seen
    <3>3. ticks'[i].period = p /\ ticks'[i].end = evt /\ ticks'[i].counted = data[p]
      BY <1>3, <1>7, <2>1
    <3> QED BY <1>2, <1>4, <1>6, <3>1, <3>2, <3>3 DEF Tile, BeginOf
  <2> QED BY <1>3, <2>1
<1>9. NextTile(r)'
  <2>1. ticks'[Len(ticks')].end = evt
    BY <1>3, <1>7
  <2>2. Passed' = evt
    BY <1>2 DEF Passed, engineVars
  <2> QED BY <1>1, <2>1, <2>2 DEF NextTile
<1> QED BY <1>1, <1>8, <1>9 DEF TileInv

\* The end of the trace reports the last tile, which is not complete.
LEMMA LastTile ==
    ASSUME LoopInv, LoopInv', DataInv, TickInv, TickInv', TileInv, conf.refresh # NoTs,
           EndDeflessPeriod, \A i \in 1 .. Len(ticks) : Tile(i)'
    PROVE  TileInv'
<1>1. /\ pc = "finish" /\ pc' = "done" /\ stamp' = stamp /\ conf' = conf /\ evt \in Nat
      /\ Len(stamp) \in Nat /\ Len(ticks) \in Nat
  BY DEF EndDeflessPeriod, LoopInv, LoopTyped, EngineInv, Typed, TickInv
<1>2. ASSUME NEW p \in DOMAIN data, OnPeriodEnd(p, NoEvent) PROVE TileInv'
  <2>1. /\ Len(ticks') = Len(ticks) + 1 /\ ticks'[Len(ticks) + 1] = Tick(p, NoEvent)
        /\ \A i \in 1 .. Len(ticks) : ticks'[i] = ticks[i]
    BY <1>2 DEF OnPeriodEnd, TickInv
  <2>2. PICK b \in 1 .. Len(stamp) : b = BeginOf(p)
    BY <1>1 DEF DataInv, DataKeys
  <2>3. NextTile(p) /\ data[p] = {e \in 1 .. Seen : BeginOf(p) <= e}
    BY <1>1 DEF TileInv, DataInv, Fed
  <2>4. Tick(p, NoEvent).period = p /\ Tick(p, NoEvent).end = NoEvent
        /\ Tick(p, NoEvent).counted = data[p]
    BY DEF Tick
  <2>5. ASSUME NEW i \in 1 .. Len(ticks') PROVE Tile(i)'
    <3>1. CASE i = Len(ticks) + 1
      <4>1. i > 1 => ticks'[i - 1].end = b
        BY <1>1, <2>1, <2>2, <2>3, <3>1 DEF NextTile
      <4>2. \A e \in data[p] : e = b \/ stamp[e] < stamp[b] + conf.refresh
        BY <1>1, <2>2, <2>3 DEF NextTile, Passed, Seen
      <4>3. /\ ticks'[i].period = p /\ ticks'[i].end = NoEvent
            /\ ticks'[i].counted = data[p]
        BY <2>1, <2>4, <3>1
      <4> QED BY <1>1, <2>2, <4>1, <4>2, <4>3 DEF Tile, BeginOf
    <3> QED BY <1>1, <2>1, <3>1
  <2> QED BY <1>1, <2>5 DEF TileInv
<1>3. CASE UNCHANGED dataVars
  BY <1>1, <1>3 DEF dataVars, TileInv
<1> QED BY <1>2, <1>3 DEF EndDeflessPeriod

ReadSoFar ==
    /\ evt \in Nat /\ Len(stamp) \in Nat /\ evt <= Len(stamp)
    /\ Passed \in Int /\ Passed <= evt

LEMMA ReadBounds == LoopInv => ReadSoFar
<1> SUFFICES ASSUME LoopInv PROVE ReadSoFar
  OBVIOUS
<1>1. evt \in Nat /\ Len(stamp) \in Nat
  BY DEF LoopInv, LoopTyped, EngineInv, Typed
<1>2. Len(stamp) = evt \/ Len(stamp) = evt + 1
  BY DEF LoopInv, Position
<1>3. evt <= Len(stamp)
  BY <1>1, <1>2
<1> QED BY <1>1, <1>3 DEF ReadSoFar, Passed

\* A step which reports nothing and keeps the analysis going: only the event
\* which is kept joins the events that did not end the period.
LEMMA KeptTile ==
    ASSUME LoopInv, LoopInv', DataInv, DataInv', TickInv, TileInv, conf.refresh # NoTs,
           [Next]_analysisVars, ticks' = ticks, pc # "done",
           \A q \in DOMAIN data' \ DOMAIN data : Len(ticks) = 0,
           \A p \in DOMAIN data' \cap DOMAIN data, e \in 1 .. Passed' :
              e \in 1 .. Passed
                \/ (BeginOf(p) < e => stamp[e] < stamp[BeginOf(p)] + conf.refresh)
    PROVE  TileInv'
<1>1. /\ conf' = conf /\ Len(stamp) \in Nat /\ Len(ticks) \in Nat
      /\ \A x \in 1 .. Len(stamp) : stamp'[x] = stamp[x]
  BY StampGrows DEF TickInv
<1>2. \A i \in 1 .. Len(ticks) : Tile(i)'
  BY SameTile DEF TileInv
<1>3. evt' \in Nat /\ Len(stamp') \in Nat /\ evt' <= Len(stamp') /\ Passed' \in Int
      /\ Passed' <= evt'
  <2>1. ReadSoFar'
    BY ReadBounds, PTL
  <2> QED BY <2>1 DEF ReadSoFar
<1>4. ASSUME pc' # "done", NEW p \in DOMAIN data' PROVE NextTile(p)'
  <2>1. PICK b \in 1 .. Len(stamp') : b = BeginOf(p)
    BY <1>4 DEF DataInv, DataKeys
  <2>2. CASE p \in DOMAIN data
    <3>1. b \in 1 .. Len(stamp) /\ NextTile(p)
      BY <2>1, <2>2 DEF DataInv, DataKeys, TileInv
    <3>2. ASSUME NEW e \in 1 .. Passed', b < e PROVE stamp'[e] < stamp'[b] + conf.refresh
      <4>1. stamp[e] < stamp[b] + conf.refresh
        BY <2>1, <2>2, <3>1, <3>2 DEF NextTile
      <4>2. e \in 1 .. Len(stamp') /\ e \in Nat
        BY <1>3
      <4>3. CASE e \in 1 .. Len(stamp)
        BY <1>1, <3>1, <4>1, <4>3
      <4>4. CASE e \notin 1 .. Len(stamp)
        <5>1. CASE stamp' = stamp
          BY <4>2, <4>4, <5>1
        <5>2. CASE \E ts \in 0 .. conf.last : ReadEvent(ts)
          <6>1. /\ evt' = evt /\ pc = "read" /\ pc' = "event" /\ Len(stamp) = evt /\ evt \in Nat
            BY <5>2 DEF ReadEvent, engineVars, LoopInv, Position, EngineInv, Typed
          <6>2. Passed' = Len(stamp)
            BY <6>1 DEF Passed
          <6> QED BY <1>1, <4>4, <6>2
        <5> QED BY <5>1, <5>2
              DEF Next, analysisVars, loopVars, NoMoreEvents, EventPastEnd, EventBeforeBegin,
              Analyse, PeriodEnds, PeriodBegins, EndingReturns, EngineReturns, KeepPeriod,
              RefreshPeriod, RefreshCrashes, Automaton, EndDeflessPeriod, EndAllPeriods,
              EngineClosed
      <4> QED BY <4>3, <4>4
    <3> QED BY <1>1, <2>1, <3>1, <3>2 DEF NextTile, BeginOf
  <2>3. CASE p \notin DOMAIN data
    <3>1. BeginOf(p) = Len(stamp') /\ Len(ticks) = 0
      BY <2>3, NewKeys
    <3>2. \A e \in 1 .. Passed' : ~(b < e)
      BY <1>3, <2>1, <3>1
    <3> QED BY <2>1, <3>1, <3>2 DEF NextTile, BeginOf
  <2> QED BY <2>2, <2>3
<1> QED BY <1>2, <1>4 DEF TileInv

\* No step disturbs the tiles.
LEMMA TileNext ==
    ASSUME LoopInv, LoopInv', DataInv, DataInv', TickInv, TickInv', TileInv,
           [Next]_analysisVars
    PROVE  TileInv'
<1>0. conf' = conf /\ evt \in Nat /\ Len(stamp) \in Nat
  BY StampGrows DEF LoopInv, EngineInv, Typed
<1> SUFFICES ASSUME conf.refresh # NoTs PROVE TileInv'
  BY <1>0 DEF TileInv
<1>1. conf.defs = {} /\ periods = {} /\ dying = {} /\ RegistryEmpty
  BY RefreshOnly
<1>2. CASE pc = "done"
  <2>1. UNCHANGED <<conf, pc, stamp, ticks>>
    BY <1>1, <1>2 DEF Next, analysisVars, loopVars, dataVars, ReadEvent, NoMoreEvents,
       EventPastEnd, EventBeforeBegin, Analyse, PeriodEnds, EndingReturns, EngineReturns,
       KeepPeriod, RefreshPeriod, RefreshCrashes, Automaton, EndDeflessPeriod,
       EndAllPeriods, EngineClosed
  <2>2. \A i \in 1 .. Len(ticks) : Tile(i)'
    BY <2>1, SameTile DEF TileInv
  <2> QED BY <1>2, <2>1, <2>2 DEF TileInv
<1>3. CASE pc # "done" /\ RefreshPeriod
  <2>1. \A i \in 1 .. Len(ticks) : ticks'[i] = ticks[i]
    <3>1. \E p \in RefreshDue : ticks' = Append(ticks, Tick(p, evt))
      BY <1>3 DEF RefreshPeriod
    <3> QED BY <3>1 DEF TickInv
  <2> QED BY <1>3, <2>1, SameTile, RefreshTile DEF TileInv
<1>4. CASE pc # "done" /\ EndDeflessPeriod
  <2>1. \A i \in 1 .. Len(ticks) : ticks'[i] = ticks[i]
    BY <1>4 DEF EndDeflessPeriod, OnPeriodEnd, dataVars, TickInv
  <2> QED BY <1>4, <2>1, SameTile, LastTile DEF TileInv
<1>5. ASSUME pc # "done", NEW ts \in 0 .. conf.last, ReadEvent(ts) PROVE TileInv'
  <2>1. pc = "read" /\ pc' = "event" /\ UNCHANGED engineVars /\ ticks' = ticks
    BY <1>5 DEF ReadEvent, OnPeriodBegin, dataVars
  <2>2. Passed' = Passed
    BY <2>1 DEF Passed, engineVars
  <2>3. ASSUME NEW q \in DOMAIN data' \ DOMAIN data PROVE Len(ticks) = 0
    <3>1. stamp = << >>
      BY <1>5 DEF ReadEvent, dataVars
    <3>2. Len(stamp) = 0 /\ Len(ticks) \in Nat
      BY <3>1 DEF TickInv
    <3> QED BY <3>2 DEF TickInv, GoodTick
  <2> QED BY <1>5, <2>1, <2>2, <2>3, KeptTile
<1>6. ASSUME pc # "done", NEW M \in SUBSET periods, Analyse(M) PROVE TileInv'
  <2>1. pc = "event" /\ pc' = "engine" /\ evt' = evt + 1 /\ ticks' = ticks
    BY <1>6 DEF Analyse, ProcessEvent, OnPeriodBegin, dataVars
  <2>2. Passed' = Passed
    BY <1>0, <2>1 DEF Passed
  <2>3. ASSUME NEW q \in DOMAIN data' \ DOMAIN data PROVE Len(ticks) = 0
    <3>1. ~started
      BY <1>6 DEF Analyse, dataVars
    <3> QED BY <2>1, <3>1 DEF TickInv
  <2> QED BY <1>6, <2>1, <2>2, <2>3, KeptTile
<1>7. CASE pc # "done" /\ KeepPeriod
  <2>1. /\ pc = "refresh" /\ pc' = "automaton" /\ UNCHANGED engineVars /\ data' = data
        /\ ticks' = ticks /\ RefreshDue = {} /\ stamp \in Seq(Nat) /\ Len(stamp) = evt
    BY <1>7 DEF KeepPeriod, dataVars, LoopInv, LoopTyped, Position
  <2>2. Passed' = evt /\ Passed = evt - 1
    BY <2>1 DEF Passed, engineVars
  <2>3. ASSUME NEW p \in DOMAIN data, BeginOf(p) < evt
        PROVE  stamp[evt] < stamp[BeginOf(p)] + conf.refresh
    <3>1. p \in DeflessPeriods
      BY <1>1, <2>1, DeflessAreBare DEF DataInv, DataKeys
    <3>2. PICK b \in 1 .. Len(stamp) : b = BeginOf(p)
      BY <2>1 DEF DataInv, DataKeys
    <3>3. ~(stamp[evt] >= stamp[b] + conf.refresh)
      BY <2>1, <3>1, <3>2 DEF RefreshDue, Now, Current
    <3>4. evt \in 1 .. Len(stamp)
      BY <1>0, <2>1, <2>3, <3>2
    <3>5. stamp[evt] \in Nat /\ stamp[b] \in Nat
      BY <2>1, <3>4
    <3>6. conf.refresh \in Nat
      BY ConfsAssumption DEF LoopInv, LoopTyped
    <3> QED BY <3>2, <3>3, <3>5, <3>6
  <2>4. ASSUME NEW e \in 1 .. Passed' PROVE e \in 1 .. Passed \/ e = evt
    BY <1>0, <2>2
  <2> QED BY <1>7, <2>1, <2>3, <2>4, KeptTile
<1>8. CASE pc # "done" /\ EventBeforeBegin
  <2>1. data' = data /\ ticks' = ticks /\ ~started /\ conf.begin # NoTs
    BY <1>8 DEF EventBeforeBegin, BeforeBegin, Truthy, dataVars
  <2>2. DOMAIN data = {}
    BY <1>1, <1>8, <2>1 DEF DataInv, DataKeys
  <2> QED BY <1>8, <2>1, <2>2, KeptTile
<1>9. CASE pc # "done" /\ (EndingReturns \/ EngineReturns)
  <2>1. /\ data' = data /\ ticks' = ticks /\ evt' = evt
        /\ pc \in {"engine", "refresh"} /\ pc' \in {"engine", "refresh"}
    BY <1>9 DEF EndingReturns, EngineReturns, EndingDone, EventDone, loopVars, dataVars
  <2>2. Passed' = Passed
    BY <2>1 DEF Passed
  <2> QED BY <1>9, <2>1, <2>2, KeptTile
<1>10. CASE pc # "done" /\ (NoMoreEvents \/ EventPastEnd \/ RefreshCrashes \/ Automaton)
  <2>1. /\ DOMAIN data' = DOMAIN data /\ ticks' = ticks /\ evt' = evt
        /\ pc \in {"engine", "refresh", "crashed"} <=> pc' \in {"engine", "refresh", "crashed"}
    BY <1>10 DEF NoMoreEvents, EventPastEnd, RefreshCrashes, Automaton, engineVars, dataVars
  <2>2. Passed' = Passed
    BY <2>1 DEF Passed
  <2> QED BY <1>10, <2>1, <2>2, KeptTile
<1>11. CASE UNCHANGED analysisVars
  <2>1. UNCHANGED <<engineVars, loopVars, dataVars>>
    BY <1>11 DEF analysisVars
  <2>2. UNCHANGED <<pc, data, ticks, evt>>
    BY <2>1 DEF engineVars, loopVars, dataVars
  <2>3. Passed' = Passed
    BY <2>2 DEF Passed
  <2>4. CASE pc # "done"
    BY <2>2, <2>3, <2>4, KeptTile
  <2> QED BY <1>2, <2>4
<1> QED
  BY <1>1, <1>2, <1>3, <1>4, <1>5, <1>6, <1>7, <1>8, <1>9, <1>10, <1>11
  DEF Next, EndAllPeriods, EngineClosed, LoopInv, Position

\* With a refresh period, the reports tile the events.
THEOREM AnalysisTiles == Spec => []RefreshPeriodsTile
<1>1. TickInv /\ TileInv => RefreshPeriodsTile
  <2> SUFFICES ASSUME TickInv, TileInv, conf.refresh # NoTs, NEW i \in DOMAIN ticks
               PROVE  Tile(i)
    BY DEF RefreshPeriodsTile, Tile
  <2>1. i \in 1 .. Len(ticks)
    BY DEF TickInv
  <2> QED BY <2>1 DEF TileInv
<1>2. FullInv /\ TileInv /\ FullInv' /\ [Next]_analysisVars => TileInv'
  BY TileNext DEF FullInv, LifeInv
<1> QED BY <1>1, <1>2, TileInit, FullInvariant, PTL DEF Spec, FullInv

-----------------------------------------------------------------------------
(* The statistics of the periods.                                          *)

(* The statistics follow the analysis.                                     *)

\* A call back leaves the analysis alone.
LEMMA StatsSteps ==
    ASSUME [StatsNext]_allVars PROVE [Next]_analysisVars
<1>1. CASE \E p \in dying : StatsEnds(p)
  BY <1>1 DEF StatsEnds, Next
<1>2. CASE \E d \in conf.defs, p \in periods \cup {Root} : StatsBegins(d, p)
  BY <1>2 DEF StatsBegins, Next
<1>3. CASE OtherSteps
  BY <1>3 DEF OtherSteps, Next
<1>4. CASE UNCHANGED allVars
  BY <1>4 DEF allVars
<1> QED BY <1>1, <1>2, <1>3, <1>4 DEF StatsNext

\* The analysis of the periods is an analysis, so that all that is proved of
\* one holds of it (core/periods.py:35).
THEOREM StatsRefine == StatsSpec => Spec
<1>1. StatsInit => Init
  BY DEF StatsInit
<1>2. [StatsNext]_allVars => [Next]_analysisVars
  BY StatsSteps
<1> QED BY <1>1, <1>2, PTL DEF StatsSpec, Spec

-----------------------------------------------------------------------------
(* The list of the periods.                                                *)

\* The periods that ended are none of the open ones.
Gone == \A r \in ended : r.period \in Paths /\ r.period # Root /\ r.period \notin periods

LEMMA EndedGone == LoopInv => Gone
BY DEF LoopInv, EngineInv, Typed, Ended, Records, Gone

\* A period that begins is not one of those that ended.
LEMMA BegunIsNew ==
    ASSUME LoopInv, NEW d \in Defs, NEW p \in periods \cup {Root}, BeginPeriod(d, p)
    PROVE  LET n == Append(p, [def |-> d, begin |-> evt]) IN
           /\ n \in Paths /\ n # Root /\ Parent(n) = p
           /\ n \notin periods /\ n \notin Completed
<1> DEFINE x == [def |-> d, begin |-> evt]
           n == Append(p, x)
<1>1. EngineInv /\ periods \subseteq Paths /\ evt \in Nat /\ ended \subseteq Records
  BY DEF LoopInv, EngineInv, Typed
<1>2. p \in Paths /\ x \in Instances /\ x.begin = evt
  <2>1. << >> \in Paths
    BY DEF Paths
  <2> QED BY <1>1, <2>1 DEF Root, Instances
<1>3. /\ n \in Paths /\ n # Root /\ Parent(n) = p /\ Last(n) = x
  BY <1>2, ChildPath
<1>4. n \notin periods /\ phase = "begin"
  BY DEF BeginPeriod
<1>5. ASSUME NEW r \in ended, r.period = n PROVE FALSE
  <2>1. r.end # NoEvent /\ BeginOf(r.period) < r.end /\ r.end <= evt
    BY <1>1, <1>4 DEF EngineInv, Ended
  <2>2. BeginOf(n) = evt /\ r.end \in Nat
    BY <1>1, <1>2, <1>3, <2>1 DEF BeginOf, Records
  <2> QED BY <1>1, <1>5, <2>1, <2>2
<1> QED BY <1>3, <1>4, <1>5 DEF Completed

\* What the end of a period adds to the completed ones.
LEMMA EndedMore ==
    ASSUME LoopInv, NEW p \in dying, EndPeriod(p)
    PROVE  /\ p \in Paths /\ p # Root /\ p \in periods /\ p \notin Completed
           /\ periods' = periods \ {p}
           /\ Completed' = Completed \cup (IF p \in matched THEN {p} ELSE {})
<1> DEFINE b == p \in matched
           e == IF phase = "end" THEN evt ELSE NoEvent
           r0 == [period |-> p, end |-> e, completed |-> b]
<1>1. p \in periods /\ p \in Paths /\ p # Root
  BY DEF LoopInv, EngineInv, Typed
<1>2. p \notin Completed
  BY <1>1, EndedGone DEF Gone, Completed
<1>3. periods' = periods \ {p} /\ ended' = ended \cup {r0}
  BY DEF EndPeriod
<1>4. r0.period = p /\ r0.completed = b
  OBVIOUS
<1>5. b <=> p \in matched
  OBVIOUS
<1> HIDE DEF r0, b, e
<1>6. Completed' = Completed \cup (IF b THEN {p} ELSE {})
  <2>1. CASE b
    BY <1>3, <1>4, <2>1 DEF Completed
  <2>2. CASE ~b
    BY <1>3, <1>4, <2>2 DEF Completed
  <2> QED BY <2>1, <2>2
<1> QED BY <1>1, <1>2, <1>3, <1>5, <1>6

\* The rest of the analysis ends and begins no period.
LEMMA OtherEnds ==
    ASSUME OtherSteps \/ UNCHANGED analysisVars PROVE UNCHANGED <<periods, ended>>
BY DEF OtherSteps, analysisVars, engineVars, ReadEvent, NoMoreEvents, EventPastEnd,
       EventBeforeBegin, SkipEvent, Analyse, ProcessEvent, EndingReturns, EndingDone,
       EngineReturns, EventDone, KeepPeriod, RefreshPeriod, RefreshCrashes, Automaton,
       EndDeflessPeriod, EndAllPeriods, RemoveAllPeriods, EngineClosed, RemovalDone

Elements == {allList[i] : i \in 1 .. Len(allList)}

\* The list has every open or completed period once.
ListInv ==
    /\ allList \in Seq(Paths)
    /\ \A i, j \in 1 .. Len(allList) : allList[i] = allList[j] => i = j
    /\ Elements = Completed \cup periods

LEMMA ListInit == StatsInit => ListInv
<1> SUFFICES ASSUME StatsInit PROVE ListInv
  OBVIOUS
<1>1. allList = << >> /\ periods = {} /\ ended = {}
  BY DEF StatsInit, Init, EngineInit
<1>2. allList \in Seq(Paths) /\ Len(allList) = 0
  BY <1>1
<1> QED BY <1>1, <1>2 DEF ListInv, Elements, Completed

LEMMA ListNext ==
    ASSUME LoopInv, ListInv, [StatsNext]_allVars PROVE ListInv'
<1> USE DEF ListInv
<1>1. CASE UNCHANGED <<periods, ended, allList>>
  BY <1>1 DEF Elements, Completed
<1>2. CASE OtherSteps /\ UNCHANGED statsVars
  BY <1>1, <1>2, OtherEnds DEF statsVars
<1>3. CASE UNCHANGED allVars
  BY <1>1, <1>3, OtherEnds DEF allVars, statsVars
<1>4. ASSUME NEW p \in dying, StatsEnds(p) PROVE ListInv'
  <2>1. EndPeriod(p)
    BY <1>4 DEF StatsEnds, PeriodEnds
  <2>2. /\ p \in Paths /\ p \in periods /\ p \notin Completed
        /\ periods' = periods \ {p}
        /\ Completed' = Completed \cup (IF p \in matched THEN {p} ELSE {})
    BY <2>1, EndedMore
  <2>3. CASE p \in matched
    <3>1. allList' = allList
      BY <1>4, <2>3 DEF StatsEnds, CompletedCb
    <3> QED BY <2>2, <2>3, <3>1 DEF Elements
  <2>4. CASE p \notin matched
    <3>1. allList' = RemoveFirst(allList, p)
      BY <1>4, <2>4 DEF StatsEnds, AbortedCb
    <3>2. \E i \in 1 .. Len(allList) : allList[i] = p
      BY <2>2 DEF Elements
    <3> DEFINE r == RemoveFirst(allList, p)
    <3>3. /\ r \in Seq(Paths)
          /\ \A i, j \in 1 .. Len(r) : r[i] = r[j] => i = j
          /\ \A i \in 1 .. Len(r) : r[i] # p /\ \E n \in 1 .. Len(allList) : allList[n] = r[i]
          /\ \A n \in 1 .. Len(allList) :
               allList[n] # p => \E i \in 1 .. Len(r) : r[i] = allList[n]
      BY <2>2, <3>2, RemoveOnly
    <3> HIDE DEF r
    <3>4. allList' = r
      BY <3>1 DEF r
    <3>5. Elements' = {r[i] : i \in 1 .. Len(r)}
      BY <3>4 DEF Elements
    <3>6. {r[i] : i \in 1 .. Len(r)} = Elements \ {p}
      <4>1. ASSUME NEW i \in 1 .. Len(r) PROVE r[i] \in Elements \ {p}
        BY <3>3 DEF Elements
      <4>2. ASSUME NEW v \in Elements \ {p} PROVE v \in {r[i] : i \in 1 .. Len(r)}
        <5>1. PICK n \in 1 .. Len(allList) : allList[n] = v
          BY DEF Elements
        <5> QED BY <3>3, <5>1
      <4> QED BY <4>1, <4>2
    <3>7. Elements' = Completed' \cup periods'
      BY <2>2, <2>4, <3>5, <3>6
    <3>8. allList' \in Seq(Paths)
      BY <3>3, <3>4
    <3>9. \A i, j \in 1 .. Len(allList') : allList'[i] = allList'[j] => i = j
      BY <3>3, <3>4
    <3> QED BY <3>7, <3>8, <3>9 DEF ListInv
  <2> QED BY <2>3, <2>4
<1>5. ASSUME NEW d \in conf.defs, NEW p \in periods \cup {Root}, StatsBegins(d, p)
      PROVE  ListInv'
  <2> DEFINE n == Append(p, [def |-> d, begin |-> evt])
  <2>1. d \in Defs
    BY ConfsAssumption DEF LoopInv, LoopTyped
  <2>2. BeginPeriod(d, p)
    BY <1>5 DEF StatsBegins, PeriodBegins
  <2>3. n \in Paths /\ n \notin periods /\ n \notin Completed
    BY <2>1, <2>2, BegunIsNew
  <2>4. periods' = periods \cup {n} /\ ended' = ended
    BY <2>2 DEF BeginPeriod
  <2>5. allList' = Append(allList, n)
    BY <1>5 DEF StatsBegins, BeginPeriodCb
  <2> HIDE DEF n
  <2>6. /\ allList' \in Seq(Paths) /\ Len(allList') = Len(allList) + 1
        /\ Len(allList) \in Nat
        /\ allList'[Len(allList) + 1] = n
        /\ \A i \in 1 .. Len(allList) : allList'[i] = allList[i] /\ allList[i] # n
    BY <2>3, <2>5 DEF Elements
  <2>7. ASSUME NEW i \in 1 .. Len(allList'), NEW j \in 1 .. Len(allList'),
               allList'[i] = allList'[j]
        PROVE  i = j
    BY <2>6, <2>7
  <2>8. Elements' = Elements \cup {n}
    BY <2>6 DEF Elements
  <2>9. Completed' = Completed
    BY <2>4 DEF Completed
  <2> QED BY <2>4, <2>6, <2>7, <2>8, <2>9
<1> QED BY <1>2, <1>3, <1>4, <1>5 DEF StatsNext

\* The period log has every completed period and every open one exactly once,
\* and no aborted one (core/periods.py:83-143).
THEOREM StatsList == StatsSpec => []ListIsExact
<1>1. StatsInit => LoopInv /\ ListInv
  BY LoopInit, ListInit DEF StatsInit
<1>2. LoopInv /\ ListInv /\ [StatsNext]_allVars => (LoopInv /\ ListInv)'
  BY LoopNext, ListNext, StatsSteps
<1>3. ListInv => ListIsExact
  <2> SUFFICES ASSUME ListInv PROVE ListIsExact
    OBVIOUS
  <2>1. DOMAIN allList = 1 .. Len(allList)
    BY DEF ListInv
  <2>2. Listed = Elements
    BY <2>1 DEF Listed, Elements
  <2>3. Len(allList) = Cardinality(Elements)
    BY AllDifferent DEF ListInv, Elements
  <2> QED BY <2>2, <2>3 DEF ListIsExact, ListInv
<1> QED BY <1>1, <1>2, <1>3, PTL DEF StatsSpec

-----------------------------------------------------------------------------
(* The tree of the period events.                                          *)

\* The last timestamp is one of an event that was read; only an event matches
\* a period, and it has set the timestamp.
Clock ==
    /\ lastTs # NoTs => \E i \in 1 .. Len(stamp) : stamp[i] = lastTs
    /\ phase = "end" => pc = "engine" /\ lastTs # NoTs /\ lastTs = Now
    /\ phase # "end" => matched = {}

LEMMA ClockInit == Init => Clock
BY DEF Init, EngineInit, Clock

\* Time does not go back.
LEMMA ClockNext ==
    ASSUME LoopInv, Clock, [Next]_analysisVars
    PROVE  Clock' /\ (lastTs # NoTs => lastTs' \in Nat /\ lastTs \in Nat /\ lastTs <= lastTs')
<1>1. /\ lastTs \in Nat \cup {NoTs} /\ stamp \in Seq(Nat) /\ Len(stamp) \in Nat
      /\ NoTs \notin Nat /\ InOrder /\ Position
      /\ \A i \in 1 .. Len(stamp) : stamp[i] \in Nat
  BY ConfsAssumption DEF LoopInv, LoopTyped
<1>2. CASE lastTs' = lastTs /\ stamp' = stamp /\ matched' = matched /\ phase' = phase /\ pc' = pc
  BY <1>1, <1>2 DEF Clock, Now, Current
<1>3. ASSUME NEW ts \in 0 .. conf.last, ReadEvent(ts)
      PROVE  Clock' /\ (lastTs # NoTs => lastTs' \in Nat /\ lastTs <= lastTs')
  <2>1. /\ lastTs' = lastTs /\ matched' = matched /\ phase' = phase /\ pc = "read"
        /\ phase = "idle"
    BY <1>1, <1>3 DEF ReadEvent, engineVars, Position
  <2>2. Len(stamp') = Len(stamp) + 1 /\ \A i \in 1 .. Len(stamp) : stamp'[i] = stamp[i]
    BY <1>3, ReadLoop
  <2>3. lastTs' # NoTs => \E i \in 1 .. Len(stamp') : stamp'[i] = lastTs'
    BY <1>1, <2>1, <2>2 DEF Clock
  <2> QED BY <1>1, <2>1, <2>3 DEF Clock
<1>4. ASSUME EventBeforeBegin \/ \E M \in SUBSET periods : Analyse(M)
      PROVE  Clock' /\ (lastTs # NoTs => lastTs' \in Nat /\ lastTs <= lastTs')
  <2>1. /\ pc = "event" /\ stamp' = stamp /\ lastTs' = stamp[Len(stamp)]
        /\ \/ phase' = "end" /\ pc' = "engine"
           \/ phase' = phase /\ matched' = matched
    BY <1>4 DEF EventBeforeBegin, SkipEvent, Analyse, ProcessEvent, Now, Current
  <2>2. Len(stamp) \in 1 .. Len(stamp) /\ phase = "idle"
    <3>1. evt \in Nat /\ Len(stamp) = evt + 1 /\ phase = "idle"
      BY <1>1, <2>1 DEF Position, LoopInv, EngineInv, Typed
    <3> QED BY <3>1
  <2>3. lastTs' \in Nat /\ lastTs' # NoTs
    BY <1>1, <2>1, <2>2
  <2>4. lastTs # NoTs => lastTs <= lastTs'
    <3> SUFFICES ASSUME lastTs # NoTs PROVE lastTs <= lastTs'
      OBVIOUS
    <3>1. PICK i \in 1 .. Len(stamp) : stamp[i] = lastTs
      BY DEF Clock
    <3> QED BY <1>1, <2>1, <2>2, <3>1 DEF InOrder
  <2>5. lastTs' = Now'
    BY <2>1 DEF Now, Current
  <2> QED BY <2>1, <2>2, <2>3, <2>4, <2>5 DEF Clock
<1>5. CASE NoMoreEvents \/ EventPastEnd \/ KeepPeriod \/ RefreshPeriod \/ RefreshCrashes
           \/ Automaton \/ EndDeflessPeriod \/ EndAllPeriods \/ EngineClosed
           \/ EndingReturns \/ EngineReturns
  <2>1. /\ lastTs' = lastTs /\ stamp' = stamp
        /\ phase' # "end" /\ (matched' = matched \/ matched' = {})
        /\ phase # "end" \/ matched' = {}
    BY <1>1, <1>5
    DEF NoMoreEvents, EventPastEnd, KeepPeriod, RefreshPeriod, RefreshCrashes, Automaton,
        EndDeflessPeriod, EndAllPeriods, EngineClosed, EndingReturns, EngineReturns,
        engineVars, loopVars, Position, EndingDone, EventDone, RemoveAllPeriods,
        RemovalDone
  <2> QED BY <1>1, <2>1 DEF Clock
<1>6. CASE \E p \in dying : PeriodEnds(p)
  BY <1>2, <1>6 DEF PeriodEnds, EndPeriod, loopVars
<1>7. CASE \E d \in conf.defs, p \in periods \cup {Root} : PeriodBegins(d, p)
  BY <1>2, <1>7 DEF PeriodBegins, BeginPeriod, loopVars
<1>8. CASE UNCHANGED analysisVars
  BY <1>2, <1>8 DEF analysisVars, loopVars, engineVars
<1> QED BY <1>1, <1>3, <1>4, <1>5, <1>6, <1>7, <1>8 DEF Next

\* The completed periods that have a parent.
Inner == {p \in Completed : Len(p) > 1}

\* The open periods are tracked; a completed one ended before its parent.
TreeInv ==
    /\ ~keyError
    /\ periods \subseteq current
    /\ children = {<<Parent(p), p>> : p \in Inner}
    /\ DOMAIN endTs = Completed
    /\ \A p \in Completed : endTs[p] \in Nat /\ lastTs \in Nat /\ endTs[p] <= lastTs
    /\ \A p \in Completed : Parent(p) \in Completed => endTs[p] <= endTs[Parent(p)]

LEMMA TreeInit == StatsInit => TreeInv
<1> SUFFICES ASSUME StatsInit PROVE TreeInv
  OBVIOUS
<1>1. /\ keyError = FALSE /\ current = {} /\ children = {} /\ periods = {} /\ ended = {}
      /\ endTs = [p \in {} |-> 0]
  BY DEF StatsInit, Init, EngineInit
<1>2. Completed = {} /\ Inner = {} /\ DOMAIN endTs = {}
  BY <1>1 DEF Completed, Inner
<1>3. ~keyError
  BY <1>1
<1> QED BY <1>1, <1>2, <1>3 DEF TreeInv

\* The parent of a period below another one is open.
LEMMA ParentTracked ==
    ASSUME LoopInv, NEW p \in Paths, p # Root, Len(p) > 1, Parent(p) \in periods \cup {Root}
    PROVE  Parent(p) \in periods
<1>1. Len(Parent(p)) = Len(p) - 1 /\ Len(p) \in Nat
  BY ParentPath
<1> QED BY <1>1 DEF Root

\* A period completes.
LEMMA CompletedTree ==
    ASSUME LoopInv, Clock, TreeInv, NEW p \in dying, StatsEnds(p), p \in matched
    PROVE  TreeInv'
<1>1. EndPeriod(p) /\ CompletedCb(p) /\ lastTs' = lastTs
  BY DEF StatsEnds, PeriodEnds, loopVars
<1>2. /\ p \in Paths /\ p # Root /\ p \in periods /\ p \notin Completed
      /\ periods' = periods \ {p}
      /\ Completed' = Completed \cup {p}
  BY <1>1, EndedMore
<1>3. lastTs \in Nat
  BY ConfsAssumption DEF Clock, LoopInv, LoopTyped
<1>4. Parent(p) \in periods \cup {Root}
  BY <1>2 DEF LoopInv, EngineInv, ParentIsOpen
<1>5. Len(p) > 1 => Parent(p) \in current
  BY <1>2, <1>4, ParentTracked DEF TreeInv
<1>6. ~keyError'
  BY <1>1, <1>5 DEF CompletedCb, TreeInv
<1>7. periods' \subseteq current'
  BY <1>1, <1>2 DEF CompletedCb, TreeInv
<1>8. children' = {<<Parent(q), q>> : q \in Inner'}
  <2>1. Inner' = Inner \cup (IF Len(p) > 1 THEN {p} ELSE {})
    BY <1>2 DEF Inner
  <2>2. children' = children \cup (IF Len(p) > 1 THEN {<<Parent(p), p>>} ELSE {})
    BY <1>1 DEF CompletedCb
  <2> QED BY <2>1, <2>2 DEF TreeInv
<1>9. /\ DOMAIN endTs' = Completed' /\ endTs'[p] = lastTs
      /\ \A q \in Completed : endTs'[q] = endTs[q]
  BY <1>1, <1>2 DEF CompletedCb, Put, TreeInv
<1>10. \A q \in Completed' : endTs'[q] \in Nat /\ endTs'[q] <= lastTs
  BY <1>2, <1>3, <1>9 DEF TreeInv
<1>11. ASSUME NEW q \in Completed', Parent(q) \in Completed' PROVE endTs'[q] <= endTs'[Parent(q)]
  <2>1. CASE q = p
    <3>1. Parent(p) \notin Completed
      <4>1. Root \notin Completed /\ \A x \in periods : x \notin Completed
        BY EndedGone DEF Gone, Completed
      <4> QED BY <1>4, <4>1
    <3>2. Parent(p) = p
      BY <1>2, <1>11, <2>1, <3>1
    <3>3. Len(Parent(p)) = Len(p) - 1 /\ Len(p) \in Nat
      BY <1>2, ParentPath
    <3> QED BY <3>2, <3>3
  <2>2. CASE q \in Completed /\ Parent(q) = p
    BY <1>9, <1>10, <2>2
  <2>3. CASE q \in Completed /\ Parent(q) \in Completed
    BY <1>9, <2>3 DEF TreeInv
  <2> QED BY <1>2, <1>11, <2>1, <2>2, <2>3
<1> QED BY <1>1, <1>3, <1>6, <1>7, <1>8, <1>9, <1>10, <1>11 DEF TreeInv

LEMMA TreeNext ==
    ASSUME LoopInv, Clock, TreeInv, [StatsNext]_allVars PROVE TreeInv'
<1>1. lastTs # NoTs => lastTs' \in Nat /\ lastTs \in Nat /\ lastTs <= lastTs'
  BY ClockNext, StatsSteps
<1>2. ASSUME Completed' = Completed, UNCHANGED <<children, endTs>>,
             ~keyError', periods' \subseteq current'
      PROVE  TreeInv'
  <2>1. Inner' = Inner
    BY <1>2 DEF Inner
  <2>2. \A q \in Completed : endTs[q] \in Nat /\ lastTs' \in Nat /\ endTs[q] <= lastTs'
    BY <1>1, ConfsAssumption DEF TreeInv
  <2> QED BY <1>2, <2>1, <2>2 DEF TreeInv
<1>3. CASE OtherSteps /\ UNCHANGED statsVars
  BY <1>2, <1>3, OtherEnds DEF statsVars, Completed, TreeInv
<1>4. CASE UNCHANGED allVars
  BY <1>2, <1>4, OtherEnds DEF allVars, statsVars, Completed, TreeInv
<1>5. ASSUME NEW p \in dying, StatsEnds(p) PROVE TreeInv'
  <2>1. CASE p \in matched
    BY <1>5, <2>1, CompletedTree
  <2>2. CASE p \notin matched
    <3>1. EndPeriod(p) /\ AbortedCb(p)
      BY <1>5, <2>2 DEF StatsEnds, PeriodEnds
    <3>2. Completed' = Completed /\ periods' = periods \ {p}
      BY <2>2, <3>1, EndedMore
    <3> QED BY <1>2, <3>1, <3>2 DEF AbortedCb, TreeInv
  <2> QED BY <2>1, <2>2
<1>6. ASSUME NEW d \in conf.defs, NEW p \in periods \cup {Root}, StatsBegins(d, p)
      PROVE  TreeInv'
  <2> DEFINE n == Append(p, [def |-> d, begin |-> evt])
  <2>1. d \in Defs
    BY ConfsAssumption DEF LoopInv, LoopTyped
  <2>2. BeginPeriod(d, p) /\ BeginPeriodCb(d, n)
    BY <1>6 DEF StatsBegins, PeriodBegins
  <2>3. n \in Paths /\ n # Root /\ Parent(n) = p
    BY <2>1, <2>2, BegunIsNew
  <2>4. periods' = periods \cup {n} /\ ended' = ended
    BY <2>2 DEF BeginPeriod
  <2> HIDE DEF n
  <2>5. Len(n) > 1 => Parent(n) \in current
    BY <2>3, ParentTracked DEF TreeInv
  <2>6. ~keyError' /\ current' = current \cup {n} /\ UNCHANGED <<children, endTs>>
    BY <2>2, <2>5 DEF BeginPeriodCb, TreeInv
  <2> QED BY <1>2, <2>4, <2>6 DEF Completed, TreeInv
<1> QED BY <1>3, <1>4, <1>5, <1>6 DEF StatsNext

\* No call back looks up a period event that is gone; each completed child is
\* attached to its parent's event, once, and does not end after it
\* (core/periods.py:83-143).
THEOREM StatsTree == StatsSpec => []ChildrenAreAttached
<1>1. StatsInit => LoopInv /\ Clock /\ TreeInv
  BY LoopInit, ClockInit, TreeInit DEF StatsInit
<1>2. LoopInv /\ Clock /\ TreeInv /\ [StatsNext]_allVars => (LoopInv /\ Clock /\ TreeInv)'
  BY LoopNext, ClockNext, TreeNext, StatsSteps
<1>3. LoopInv /\ TreeInv => ChildrenAreAttached
  <2> SUFFICES ASSUME LoopInv, TreeInv PROVE ChildrenAreAttached
    OBVIOUS
  <2>1. ASSUME NEW c \in children, c[1] \in Completed PROVE endTs[c[2]] <= endTs[c[1]]
    <3>1. PICK p \in Inner : c = <<Parent(p), p>>
      BY DEF TreeInv
    <3>2. c[1] = Parent(p) /\ c[2] = p /\ p \in Completed
      BY <3>1 DEF Inner
    <3> QED BY <2>1, <3>2 DEF TreeInv
  <2> QED BY <2>1 DEF ChildrenAreAttached, TreeInv, Inner
<1> QED BY <1>1, <1>2, <1>3, PTL DEF StatsSpec

-----------------------------------------------------------------------------
(* The statistics by name.                                                 *)

\* The periods began with an event that was read.
BegunByNow == \A p \in periods \cup Completed : BeginOf(p) \in 1 .. Len(stamp)

Totals    == [min : Nat \cup {NoTs}, max : Nat \cup {NoTs}, total : Nat]
Durations == [list : Seq(Paths), min : Nat \cup {NoTs}, max : Nat \cup {NoTs}, total : Nat]

\* Statistics of exactly the periods of T.
About(s, T) ==
    /\ \A i, j \in 1 .. Len(s.list) : s.list[i] = s.list[j] => i = j
    /\ {s.list[i] : i \in 1 .. Len(s.list)} = T
    /\ Measures(s, Lengths(T))

StatsInv ==
    /\ BegunByNow
    /\ IsFiniteSet(Completed)
    /\ \A p \in Completed : DurationOf(p) \in Nat
    /\ \A p \in periods \cup Completed : NameOf[DefOf(p)] \in DOMAIN allStats
    /\ totals \in Totals
    /\ Measures(totals, Lengths(Completed))
    /\ \A n \in DOMAIN allStats :
         allStats[n] \in Durations /\ (n # Unnamed => About(allStats[n], NamedLike(n)))

\* There are no durations of no periods.
LEMMA MeasuresNone ==
    ASSUME NEW s, s.total = 0, s.min = NoTs, s.max = NoTs, NEW f, DOMAIN f = {}
    PROVE  Measures(s, f)
<1>1. SumFunction(f) = 0
  BY SumEmpty DEF SumFunction
<1> QED BY <1>1 DEF Measures

\* One more duration.
LEMMA MeasuresMore ==
    ASSUME NEW s, NEW e, NEW f, NEW g, NEW x,
           s.min \in Nat \cup {NoTs}, s.max \in Nat \cup {NoTs}, Measures(s, f),
           IsFiniteSet(DOMAIN f), x \notin DOMAIN f, DOMAIN g = DOMAIN f \cup {x},
           \A y \in DOMAIN g : g[y] \in Nat, \A y \in DOMAIN f : g[y] = f[y],
           e.min = Least(s.min, g[x]), e.max = Greatest(s.max, g[x]), e.total = s.total + g[x]
    PROVE  Measures(e, g)
<1>1. e.total = SumFunction(g)
  <2>1. g[x] \in Int /\ \A y \in DOMAIN f : f[y] \in Int /\ g[y] = f[y]
    OBVIOUS
  <2> QED BY <2>1, SumMore DEF Measures
<1> DEFINE F == {f[y] : y \in DOMAIN f}
           G == {g[y] : y \in DOMAIN g}
<1>2. g[x] \in G /\ F \subseteq G /\ DOMAIN g # {}
  OBVIOUS
<1>3. CASE DOMAIN f = {}
  <2>1. s.min = NoTs /\ s.max = NoTs
    BY <1>3 DEF Measures
  <2>2. e.min = g[x] /\ e.max = g[x]
    BY <2>1 DEF Least, Greatest
  <2>3. DOMAIN g = {x}
    BY <1>3
  <2>4. \A y \in DOMAIN g : e.min <= g[y] /\ g[y] <= e.max
    BY <2>2, <2>3
  <2> QED BY <1>1, <1>2, <2>2, <2>4 DEF Measures
<1>4. CASE DOMAIN f # {}
  <2>1. {s.min, s.max} \subseteq F /\ \A y \in DOMAIN f : s.min <= f[y] /\ f[y] <= s.max
    BY <1>4 DEF Measures
  <2>2. F \subseteq Nat
    OBVIOUS
  <2>3. s.min \in Nat /\ s.max \in Nat /\ s.min # NoTs /\ s.max # NoTs
    BY <2>1, <2>2, ConfsAssumption
  <2>4. /\ e.min \in {s.min, g[x]} /\ e.min <= s.min /\ e.min <= g[x]
        /\ e.max \in {s.max, g[x]} /\ s.max <= e.max /\ g[x] <= e.max
    BY <2>3 DEF Least, Greatest
  <2>5. {e.min, e.max} \subseteq G
    BY <1>2, <2>1, <2>4
  <2>6. ASSUME NEW y \in DOMAIN g PROVE e.min <= g[y] /\ g[y] <= e.max
    <3>1. CASE y = x
      BY <2>4, <3>1
    <3>2. CASE y \in DOMAIN f
      <4>1. s.min <= g[y] /\ g[y] <= s.max /\ g[y] \in Nat
        BY <2>1, <3>2
      <4>2. e.min \in Nat /\ e.max \in Nat
        BY <2>3, <2>4
      <4> QED BY <2>3, <2>4, <4>1, <4>2
    <3> QED BY <3>1, <3>2
  <2> QED BY <1>1, <1>2, <2>5, <2>6 DEF Measures
<1> QED BY <1>3, <1>4

LEMMA StatsInvInit == StatsInit => StatsInv
<1> SUFFICES ASSUME StatsInit PROVE StatsInv
  OBVIOUS
<1>1. /\ periods = {} /\ ended = {} /\ allStats = [n \in {} |-> NewStats]
      /\ totals = [min |-> NoTs, max |-> NoTs, total |-> 0]
  BY DEF StatsInit, Init, EngineInit
<1>2. Completed = {} /\ DOMAIN allStats = {}
  BY <1>1 DEF Completed
<1>3. IsFiniteSet(Completed)
  BY <1>2, FS_EmptySet
<1>4. Measures(totals, Lengths(Completed))
  <2>1. DOMAIN Lengths(Completed) = {}
    BY <1>2 DEF Lengths
  <2>2. totals.total = 0 /\ totals.min = NoTs /\ totals.max = NoTs
    BY <1>1
  <2> QED BY <2>1, <2>2, MeasuresNone
<1> QED BY <1>1, <1>2, <1>3, <1>4 DEF StatsInv, BegunByNow, Totals

\* update_stats() with a period of duration d.
Entry(s, d, p) == [Accumulate(s, d) EXCEPT !.list = Append(s.list, p)]

LEMMA AccumulateEntry ==
    ASSUME NEW s \in Durations, NEW d \in Nat, NEW p \in Paths
    PROVE  LET e == Entry(s, d, p) IN
           /\ e.list = Append(s.list, p)
           /\ e.min = Least(s.min, d)
           /\ e.max = Greatest(s.max, d)
           /\ e.total = s.total + d
           /\ e \in Durations
<1> DEFINE a == Accumulate(s, d)
           e == [a EXCEPT !.list = Append(s.list, p)]
<1>1. s.list \in Seq(Paths) /\ s.total \in Nat /\ s.min \in Nat \cup {NoTs} /\ s.max \in Nat \cup {NoTs}
  BY DEF Durations
<1>2. Least(s.min, d) \in Nat \cup {NoTs} /\ Greatest(s.max, d) \in Nat \cup {NoTs}
  BY <1>1 DEF Least, Greatest
<1>3. /\ a \in Durations /\ a.list = s.list
      /\ a.min = Least(s.min, d) /\ a.max = Greatest(s.max, d) /\ a.total = s.total + d
  <2> DEFINE l == Least(s.min, d)
             g == Greatest(s.max, d)
             t == s.total + d
  <2>1. a = [s EXCEPT !.min = l, !.max = g, !.total = t]
    BY DEF Accumulate
  <2>2. l \in Nat \cup {NoTs} /\ g \in Nat \cup {NoTs} /\ t \in Nat
    BY <1>1, <1>2
  <2> HIDE DEF l, g, t, a
  <2>3. a \in Durations /\ a.list = s.list /\ a.min = l /\ a.max = g /\ a.total = t
    BY <2>1, <2>2 DEF Durations
  <2> QED BY <2>3 DEF l, g, t
<1> HIDE DEF a
<1>4. Append(s.list, p) \in Seq(Paths)
  BY <1>1
<1>5. /\ e \in Durations /\ e.list = Append(s.list, p)
      /\ e.min = a.min /\ e.max = a.max /\ e.total = a.total
  BY <1>3, <1>4 DEF Durations
<1> QED BY <1>3, <1>5 DEF a, Entry

LEMMA AccumulateTotals ==
    ASSUME NEW s \in [min : Nat \cup {NoTs}, max : Nat \cup {NoTs}, total : Nat], NEW d \in Nat
    PROVE  /\ Accumulate(s, d).min = Least(s.min, d)
           /\ Accumulate(s, d).max = Greatest(s.max, d)
           /\ Accumulate(s, d).total = s.total + d
           /\ Accumulate(s, d) \in [min : Nat \cup {NoTs}, max : Nat \cup {NoTs}, total : Nat]
<1> DEFINE l == Least(s.min, d)
           g == Greatest(s.max, d)
           t == s.total + d
           a == Accumulate(s, d)
<1>1. a = [s EXCEPT !.min = l, !.max = g, !.total = t]
  BY DEF Accumulate
<1>2. l \in Nat \cup {NoTs} /\ g \in Nat \cup {NoTs} /\ t \in Nat
  BY DEF Least, Greatest
<1> HIDE DEF l, g, t, a
<1>3. /\ a \in [min : Nat \cup {NoTs}, max : Nat \cup {NoTs}, total : Nat]
      /\ a.min = l /\ a.max = g /\ a.total = t
  BY <1>1, <1>2
<1> QED BY <1>3 DEF l, g, t, a

\* What a completed period adds to the statistics of its name and to the global
\* ones.
LEMMA CompletedParts ==
    ASSUME LoopInv, Clock, TreeInv, StatsInv, NEW p \in dying, StatsEnds(p), p \in matched
    PROVE  LET n == NameOf[DefOf(p)]
               d == lastTs - stamp[BeginOf(p)]
           IN  /\ n \in DOMAIN allStats /\ d \in Nat
               /\ DOMAIN allStats' = DOMAIN allStats
               /\ \A m \in DOMAIN allStats \ {n} : allStats'[m] = allStats[m]
               /\ allStats'[n] = UpdateStats(allStats[n], p)
               /\ totals' = Accumulate(totals, d)
               /\ Completed' = Completed \cup {p} /\ p \notin Completed
               /\ p \in Paths /\ periods' = periods \ {p}
               /\ DurationOf(p)' = d
               /\ \A q \in Completed : DurationOf(q)' = DurationOf(q)
<1> DEFINE n == NameOf[DefOf(p)]
           d == lastTs - stamp[BeginOf(p)]
<1>1. EndPeriod(p) /\ CompletedCb(p) /\ lastTs' = lastTs /\ stamp' = stamp
  BY DEF StatsEnds, PeriodEnds, loopVars
<1>2. /\ p \in Paths /\ p \in periods /\ p \notin Completed
      /\ periods' = periods \ {p} /\ Completed' = Completed \cup {p}
  BY <1>1, EndedMore
<1>3. d \in Nat
  <2>1. phase = "end"
    BY <1>1 DEF EndPeriod, Clock
  <2>2. /\ BeginOf(p) \in 1 .. Len(stamp) /\ Len(stamp) \in Nat
        /\ \A i \in 1 .. Len(stamp) : stamp[i] \in Nat
    BY <1>2 DEF StatsInv, BegunByNow, LoopInv, LoopTyped
  <2>3. lastTs = stamp[Len(stamp)] /\ stamp[BeginOf(p)] <= stamp[Len(stamp)]
    BY <2>1, <2>2 DEF Clock, Now, Current, LoopInv, InOrder
  <2> QED BY <2>2, <2>3
<1>4. n \in DOMAIN allStats /\ allStats[n] \in Durations
  BY <1>2 DEF StatsInv
<1>5. /\ DOMAIN endTs' = Completed' /\ endTs'[p] = lastTs
      /\ \A q \in Completed : endTs'[q] = endTs[q]
  BY <1>1, <1>2 DEF CompletedCb, Put, TreeInv
<1>6. DurationOf(p)' = d /\ \A q \in Completed : DurationOf(q)' = DurationOf(q)
  BY <1>1, <1>2, <1>5 DEF DurationOf
<1>7. /\ DOMAIN allStats' = DOMAIN allStats
      /\ \A m \in DOMAIN allStats \ {n} : allStats'[m] = allStats[m]
      /\ allStats'[n] = UpdateStats(allStats[n], p)
  <2> DEFINE e == UpdateStats(allStats[n], p)
  <2>1. allStats' = [allStats EXCEPT ![n] = e]
    BY <1>1 DEF CompletedCb
  <2> HIDE DEF e, n
  <2>2. /\ DOMAIN allStats' = DOMAIN allStats /\ allStats'[n] = e
        /\ \A m \in DOMAIN allStats \ {n} : allStats'[m] = allStats[m]
    BY <1>4, <2>1
  <2> QED BY <2>2 DEF e
<1>8. totals' = Accumulate(totals, d)
  BY <1>1 DEF CompletedCb, Duration
<1> HIDE DEF n, d
<1> QED BY <1>2, <1>3, <1>4, <1>6, <1>7, <1>8 DEF n, d

\* A completed period is counted once, in the statistics of its name.
LEMMA CompletedAbout ==
    ASSUME LoopInv, Clock, TreeInv, StatsInv, NEW p \in dying, StatsEnds(p), p \in matched
    PROVE  StatsInv'
<1> DEFINE n == NameOf[DefOf(p)]
           d == lastTs - stamp[BeginOf(p)]
<1>1. /\ n \in DOMAIN allStats /\ d \in Nat
      /\ DOMAIN allStats' = DOMAIN allStats
      /\ \A m \in DOMAIN allStats \ {n} : allStats'[m] = allStats[m]
      /\ allStats'[n] = UpdateStats(allStats[n], p)
      /\ totals' = Accumulate(totals, d)
      /\ Completed' = Completed \cup {p} /\ p \notin Completed
      /\ p \in Paths /\ periods' = periods \ {p}
      /\ DurationOf(p)' = d
      /\ \A q \in Completed : DurationOf(q)' = DurationOf(q)
  BY CompletedParts
<1>2. stamp' = stamp /\ p \in periods
  BY DEF StatsEnds, PeriodEnds, loopVars, LoopInv, EngineInv, Typed
<1>3. d = Duration(p)
  BY DEF Duration
<1> HIDE DEF d, n
<1>4. BegunByNow'
  BY <1>1, <1>2 DEF BegunByNow, StatsInv
<1>5. IsFiniteSet(Completed')
  BY <1>1, FS_AddElement DEF StatsInv
<1>6. \A q \in Completed' : DurationOf(q)' \in Nat
  BY <1>1 DEF StatsInv
<1>7. \A q \in periods' \cup Completed' : NameOf[DefOf(q)] \in DOMAIN allStats'
  BY <1>1, <1>2 DEF StatsInv
<1> PICK s : s = allStats[n]
  OBVIOUS
<1> DEFINE e == Entry(s, d, p)
           t == Accumulate(totals, d)
<1>8. s \in Durations /\ totals \in Totals
  BY <1>1 DEF StatsInv
<1>9. /\ e.list = Append(s.list, p) /\ e.min = Least(s.min, d)
      /\ e.max = Greatest(s.max, d) /\ e.total = s.total + d /\ e \in Durations
  BY <1>1, <1>8, AccumulateEntry
<1>10. /\ t.min = Least(totals.min, d) /\ t.max = Greatest(totals.max, d)
       /\ t.total = totals.total + d /\ t \in Totals
  BY <1>1, <1>8, AccumulateTotals DEF Totals
<1>11. allStats'[n] = e /\ totals' = t
  BY <1>1, <1>3 DEF UpdateStats, Entry
<1> HIDE DEF e, t
<1>12. ASSUME NEW T, T \subseteq Completed, NEW r, NEW q,
              r.min \in Nat \cup {NoTs}, r.max \in Nat \cup {NoTs},
              Measures(r, Lengths(T)),
              q.min = Least(r.min, d), q.max = Greatest(r.max, d), q.total = r.total + d
       PROVE  Measures(q, [x \in T \cup {p} |-> DurationOf(x)'])
  <2> DEFINE f == Lengths(T)
             g == [x \in T \cup {p} |-> DurationOf(x)']
  <2>1. DOMAIN f = T /\ IsFiniteSet(T) /\ p \notin T /\ DOMAIN g = T \cup {p}
    BY <1>1, <1>12, FS_Subset DEF Lengths, StatsInv
  <2>2. /\ g[p] = d /\ \A y \in T : g[y] = f[y] /\ g[y] \in Nat
        /\ \A y \in DOMAIN g : g[y] \in Nat
    <3>1. \A y \in T : DurationOf(y)' = DurationOf(y) /\ DurationOf(y) \in Nat
      BY <1>1, <1>12 DEF StatsInv
    <3>2. \A y \in T : f[y] = DurationOf(y) /\ g[y] = DurationOf(y)'
      BY DEF Lengths
    <3>3. g[p] = DurationOf(p)'
      OBVIOUS
    <3> HIDE DEF f, g
    <3> QED BY <1>1, <2>1, <3>1, <3>2, <3>3
  <2>3. Measures(r, f)
    BY <1>12
  <2> HIDE DEF f, g
  <2>4. Measures(q, g)
    BY <1>12, <2>1, <2>2, <2>3, MeasuresMore
  <2> QED BY <2>4 DEF g
<1>13. Measures(totals, Lengths(Completed))'
  <2>1. totals.min \in Nat \cup {NoTs} /\ totals.max \in Nat \cup {NoTs}
    BY <1>8 DEF Totals
  <2>2. Measures(totals, Lengths(Completed))
    BY DEF StatsInv
  <2>3. Measures(t, [x \in Completed \cup {p} |-> DurationOf(x)'])
    BY <1>10, <1>12, <2>1, <2>2
  <2>4. Lengths(Completed)' = [x \in Completed \cup {p} |-> DurationOf(x)']
    BY <1>1 DEF Lengths
  <2> QED BY <1>11, <2>3, <2>4 DEF Measures
<1>14. ASSUME NEW m \in DOMAIN allStats, m # n
       PROVE  /\ allStats'[m] \in Durations
              /\ m # Unnamed => About(allStats[m], NamedLike(m))'
  <2>1. allStats'[m] = allStats[m] /\ allStats[m] \in Durations
    BY <1>1, <1>14 DEF StatsInv
  <2>2. NamedLike(m)' = NamedLike(m) /\ NamedLike(m) \subseteq Completed
    BY <1>1, <1>14 DEF NamedLike, n
  <2>3. Lengths(NamedLike(m))' = Lengths(NamedLike(m))
    BY <1>1, <2>2 DEF Lengths
  <2>4. m # Unnamed => About(allStats[m], NamedLike(m))
    BY DEF StatsInv
  <2> QED BY <2>1, <2>2, <2>3, <2>4 DEF About, Measures
<1>15. n # Unnamed => About(allStats[n], NamedLike(n))'
  <2> SUFFICES ASSUME n # Unnamed PROVE About(allStats[n], NamedLike(n))'
    OBVIOUS
  <2> DEFINE T == NamedLike(n)
             U == T \cup {p}
  <2>1. About(s, T)
    BY <1>1 DEF StatsInv
  <2>2. NamedLike(n)' = U /\ T \subseteq Completed /\ p \notin T
    BY <1>1 DEF NamedLike, n
  <2>3. s.list \in Seq(Paths) /\ s.min \in Nat \cup {NoTs} /\ s.max \in Nat \cup {NoTs}
    BY <1>8 DEF Durations
  <2>4. Lengths(NamedLike(n))' = [x \in U |-> DurationOf(x)']
    BY <2>2 DEF Lengths
  <2> HIDE DEF T
  <2>5. Measures(e, [x \in T \cup {p} |-> DurationOf(x)'])
    <3>1. Measures(s, Lengths(T))
      BY <2>1 DEF About
    <3> QED BY <1>9, <1>12, <2>2, <2>3, <3>1
  <2>6. /\ \A i, j \in 1 .. Len(s.list) : s.list[i] = s.list[j] => i = j
        /\ {s.list[i] : i \in 1 .. Len(s.list)} = T
    BY <2>1 DEF About
  <2>7. /\ {e.list[i] : i \in 1 .. Len(e.list)} = U
        /\ \A i, j \in 1 .. Len(e.list) : e.list[i] = e.list[j] => i = j
    BY <1>1, <1>9, <2>2, <2>3, <2>6, ListMore
  <2>8. PICK g : g = [x \in T \cup {p} |-> DurationOf(x)']
    OBVIOUS
  <2>9. Measures(e, g) /\ Lengths(NamedLike(n))' = g
    BY <2>4, <2>5, <2>8
  <2>10. Measures(allStats[n], Lengths(NamedLike(n)))'
    BY <1>11, <2>9 DEF Measures
  <2> QED BY <1>11, <2>2, <2>7, <2>10 DEF About
<1> QED BY <1>1, <1>4, <1>5, <1>6, <1>7, <1>9, <1>10, <1>11, <1>13, <1>14, <1>15 DEF StatsInv

\* The other steps count nothing: at most they begin the statistics of names
\* of which no period has ended.
LEMMA StatsSame ==
    ASSUME LoopInv, LoopInv', StatsInv, NEW M, UNCHANGED <<totals, endTs>>,
           Completed' = Completed,
           DOMAIN allStats' = DOMAIN allStats \cup M,
           \A m \in DOMAIN allStats \ M : allStats'[m] = allStats[m],
           \A m \in M : allStats'[m] = NewStats /\ (m # Unnamed => NamedLike(m) = {}),
           \A p \in periods' : NameOf[DefOf(p)] \in DOMAIN allStats',
           \A p \in periods' : BeginOf(p) \in 1 .. Len(stamp'),
           Len(stamp') >= Len(stamp), \A i \in 1 .. Len(stamp) : stamp'[i] = stamp[i]
    PROVE  StatsInv'
<1>1. Completed' = Completed /\ \A m : NamedLike(m)' = NamedLike(m) /\ NamedLike(m) \subseteq Completed
  BY DEF NamedLike
<1>2. \A p \in Completed : DurationOf(p)' = DurationOf(p)
  BY DEF StatsInv, BegunByNow, DurationOf
<1>3. BegunByNow'
  <2>1. Len(stamp) \in Nat /\ Len(stamp') \in Nat
    BY DEF LoopInv, LoopTyped
  <2> QED BY <1>1, <2>1 DEF StatsInv, BegunByNow
<1>4. ASSUME NEW m \in M
      PROVE  /\ allStats'[m] \in Durations
             /\ m # Unnamed => About(allStats[m], NamedLike(m))'
  <2>0. PICK s : s = NewStats
    OBVIOUS
  <2>1. /\ s.list = << >> /\ s.min = NoTs /\ s.max = NoTs /\ s.total = 0
        /\ s \in Durations
    BY <2>0 DEF NewStats, Durations
  <2>2. ASSUME m # Unnamed PROVE About(allStats[m], NamedLike(m))'
    <3>1. NamedLike(m)' = {}
      BY <1>1, <2>2
    <3>2. allStats'[m] = s
      BY <1>1, <2>0
    <3>3. PICK f : f = Lengths(NamedLike(m))'
      OBVIOUS
    <3>4. DOMAIN f = {}
      BY <3>1, <3>3 DEF Lengths
    <3>5. Measures(s, f)
      BY <2>1, <3>4, MeasuresNone
    <3>6. allStats'[m].list = << >>
      BY <2>1, <3>2
    <3>7. 1 .. Len(allStats'[m].list) = {}
      BY <3>6
    <3>8. Measures(allStats[m], Lengths(NamedLike(m)))'
      BY <3>2, <3>3, <3>5 DEF Measures
    <3>9. /\ \A i, j \in 1 .. Len(allStats'[m].list) :
                 allStats'[m].list[i] = allStats'[m].list[j] => i = j
          /\ {allStats'[m].list[i] : i \in 1 .. Len(allStats'[m].list)} = NamedLike(m)'
      BY <3>1, <3>7
    <3> QED BY <3>8, <3>9 DEF About
  <2>3. allStats'[m] \in Durations
    BY <1>1, <2>0, <2>1
  <2> QED BY <2>2, <2>3
<1>5. ASSUME NEW m \in DOMAIN allStats \ M
      PROVE  /\ allStats'[m] \in Durations
             /\ m # Unnamed => About(allStats[m], NamedLike(m))'
  <2>1. allStats'[m] = allStats[m] /\ allStats[m] \in Durations
    BY DEF StatsInv
  <2>2. Lengths(NamedLike(m))' = Lengths(NamedLike(m))
    BY <1>1, <1>2 DEF Lengths
  <2>3. m # Unnamed => About(allStats[m], NamedLike(m))
    BY DEF StatsInv
  <2> QED BY <1>1, <2>1, <2>2, <2>3 DEF About, Measures
<1>6. \A p \in Completed' : DurationOf(p)' \in Nat
  BY <1>1, <1>2 DEF StatsInv
<1>7. \A p \in periods' \cup Completed' : NameOf[DefOf(p)] \in DOMAIN allStats'
  BY <1>1 DEF StatsInv
<1>8. Measures(totals, Lengths(Completed))'
  <2>1. Lengths(Completed)' = Lengths(Completed)
    BY <1>1, <1>2 DEF Lengths
  <2> QED BY <2>1 DEF StatsInv, Measures
<1> QED BY <1>1, <1>3, <1>4, <1>5, <1>6, <1>7, <1>8 DEF StatsInv

LEMMA StatsKept ==
    ASSUME LoopInv, LoopInv', StatsInv, [StatsNext]_allVars,
           UNCHANGED <<allStats, totals, endTs>>, Completed' = Completed,
           periods' \subseteq periods
    PROVE  StatsInv'
<1>1. /\ Len(stamp') >= Len(stamp) /\ Len(stamp) \in Nat /\ Len(stamp') \in Nat
      /\ \A i \in 1 .. Len(stamp) : stamp'[i] = stamp[i]
  BY StatsSteps, StampGrows
<1>2. \A p \in periods' : BeginOf(p) \in 1 .. Len(stamp')
  BY <1>1 DEF StatsInv, BegunByNow
<1>3. \A p \in periods' : NameOf[DefOf(p)] \in DOMAIN allStats'
  BY DEF StatsInv
<1> DEFINE M == {}
<1>4. /\ DOMAIN allStats' = DOMAIN allStats \cup M
      /\ \A m \in DOMAIN allStats \ M : allStats'[m] = allStats[m]
      /\ \A m \in M : allStats'[m] = NewStats /\ (m # Unnamed => NamedLike(m) = {})
  OBVIOUS
<1> HIDE DEF M
<1> QED BY <1>1, <1>2, <1>3, <1>4, StatsSame

\* A period begins, and with it perhaps the statistics of its name.
LEMMA BegunAbout ==
    ASSUME LoopInv, LoopInv', StatsInv, NEW d \in Defs, NEW p \in periods \cup {Root},
           StatsBegins(d, p)
    PROVE  StatsInv'
<1> DEFINE n == Append(p, [def |-> d, begin |-> evt])
           M == IF NameOf[d] \in DOMAIN allStats /\ NameOf[d] # Unnamed THEN {} ELSE {NameOf[d]}
<1>1. /\ BeginPeriod(d, p) /\ BeginPeriodCb(d, n) /\ pc = "engine" /\ stamp' = stamp
  BY DEF StatsBegins, PeriodBegins, loopVars
<1>2. n \in Paths /\ n # Root /\ DefOf(n) = d /\ BeginOf(n) = evt
  <2>1. n \in Paths /\ n # Root
    BY <1>1, BegunIsNew
  <2>2. p \in Paths /\ [def |-> d, begin |-> evt] \in Instances
    <3>1. << >> \in Paths
      BY DEF Paths
    <3> QED BY <3>1 DEF LoopInv, EngineInv, Typed, Root, Instances
  <2>3. Last(n) = [def |-> d, begin |-> evt]
    BY <2>2, ChildPath
  <2> QED BY <2>1, <2>3 DEF DefOf, BeginOf
<1>3. periods' = periods \cup {n} /\ Completed' = Completed
  BY <1>1 DEF BeginPeriod, Completed
<1>4. /\ DOMAIN allStats' = DOMAIN allStats \cup M
      /\ \A m \in DOMAIN allStats \ M : allStats'[m] = allStats[m]
      /\ \A m \in M : allStats'[m] = NewStats
  BY <1>1 DEF BeginPeriodCb, EntryFor, Put
<1>5. \A m \in M : m # Unnamed => NamedLike(m) = {}
  BY DEF StatsInv, NamedLike
<1>6. evt \in 1 .. Len(stamp) /\ UNCHANGED <<totals, endTs>>
  BY <1>1 DEF BeginPeriodCb, LoopInv, Position, EngineInv, Typed
<1>7. NameOf[d] \in DOMAIN allStats'
  BY <1>4
<1> HIDE DEF n, M
<1>8. \A q \in periods' : NameOf[DefOf(q)] \in DOMAIN allStats' /\ BeginOf(q) \in 1 .. Len(stamp')
  BY <1>1, <1>2, <1>3, <1>4, <1>6, <1>7 DEF StatsInv, BegunByNow
<1>9. Len(stamp) \in Nat
  BY DEF LoopInv, LoopTyped
<1> PICK K : K = M
  OBVIOUS
<1>10. /\ DOMAIN allStats' = DOMAIN allStats \cup K
       /\ \A m \in DOMAIN allStats \ K : allStats'[m] = allStats[m]
       /\ \A m \in K : allStats'[m] = NewStats /\ (m # Unnamed => NamedLike(m) = {})
  BY <1>4, <1>5
<1>11. /\ Len(stamp') >= Len(stamp) /\ \A i \in 1 .. Len(stamp) : stamp'[i] = stamp[i]
  BY <1>1, <1>9
<1>12. /\ \A q \in periods' : NameOf[DefOf(q)] \in DOMAIN allStats'
       /\ \A q \in periods' : BeginOf(q) \in 1 .. Len(stamp')
  BY <1>8
<1> QED BY <1>3, <1>6, <1>10, <1>11, <1>12, StatsSame

LEMMA StatsInvNext ==
    ASSUME LoopInv, LoopInv', Clock, TreeInv, StatsInv, [StatsNext]_allVars PROVE StatsInv'
<1>1. CASE (OtherSteps /\ UNCHANGED statsVars) \/ UNCHANGED allVars
  BY <1>1, OtherEnds, StatsKept DEF allVars, statsVars, Completed
<1>2. ASSUME NEW p \in dying, StatsEnds(p) PROVE StatsInv'
  <2>1. CASE p \in matched
    BY <1>2, <2>1, CompletedAbout
  <2>2. CASE p \notin matched
    <3>1. EndPeriod(p) /\ AbortedCb(p)
      BY <1>2, <2>2 DEF StatsEnds, PeriodEnds
    <3>2. Completed' = Completed /\ periods' = periods \ {p}
      BY <2>2, <3>1, EndedMore
    <3> QED BY <3>1, <3>2, StatsKept DEF AbortedCb
  <2> QED BY <2>1, <2>2
<1>3. ASSUME NEW d \in conf.defs, NEW p \in periods \cup {Root}, StatsBegins(d, p)
      PROVE  StatsInv'
  <2>1. d \in Defs
    BY ConfsAssumption DEF LoopInv, LoopTyped
  <2> QED BY <1>3, <2>1, BegunAbout
<1> QED BY <1>1, <1>2, <1>3 DEF StatsNext

\* The statistics of a name have exactly its completed periods, each once;
\* its total, least and greatest durations are exactly theirs, and the global
\* ones those of all completed periods (core/periods.py:77-85, 165-174).
THEOREM StatsMatch == StatsSpec => []StatsMatchList
<1>1. StatsInit => LoopInv /\ Clock /\ TreeInv /\ StatsInv
  BY LoopInit, ClockInit, TreeInit, StatsInvInit DEF StatsInit
<1>2. LoopInv /\ Clock /\ TreeInv /\ StatsInv /\ [StatsNext]_allVars
        => (LoopInv /\ Clock /\ TreeInv /\ StatsInv)'
  BY LoopNext, ClockNext, TreeNext, StatsInvNext, StatsSteps
<1>3. StatsInv => StatsMatchList
  <2> SUFFICES ASSUME StatsInv, NEW n \in DOMAIN allStats, n # Unnamed, NEW s, s = allStats[n]
               PROVE  /\ {s.list[i] : i \in DOMAIN s.list} = NamedLike(n)
                      /\ Len(s.list) = Cardinality(NamedLike(n))
                      /\ Measures(s, Lengths(NamedLike(n)))
    BY DEF StatsMatchList, StatsInv
  <2>1. s \in Durations /\ About(s, NamedLike(n))
    BY DEF StatsInv
  <2>2. s.list \in Seq(Paths) /\ DOMAIN s.list = 1 .. Len(s.list)
    BY <2>1 DEF Durations
  <2>3. Len(s.list) = Cardinality(NamedLike(n))
    BY <2>1, <2>2, AllDifferent DEF About
  <2> QED BY <2>1, <2>2, <2>3 DEF About
<1> QED BY <1>1, <1>2, <1>3, PTL DEF StatsSpec
=============================================================================

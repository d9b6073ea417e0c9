---------------------------- MODULE PeriodEngine ----------------------------
(***************************************************************************)
(* The period engine (core/period.py:574-766): a forest of open periods    *)
(* which each trace event first prunes (_process_event_end), then grows    *)
(* (_process_event_begin).                                                 *)
(*                                                                         *)
(* Whether a begin or end expression matches an event is a choice of the   *)
(* environment here.  The Period objects are named by their path (see      *)
(* PeriodForest): an event begins at most one period of a definition under *)
(* a given parent, so a path names one object.                             *)
(*                                                                         *)
(* A step is one call back of the owner of the engine.  The code walks     *)
(* sets, depth first; the model lets any ended period without open child   *)
(* go next, and any period whose parent is open begin next, which contains *)
(* every order in which Python may walk those sets.                        *)
(***************************************************************************)
EXTENDS Naturals, FiniteSets, Sequences, SequencesExt

CONSTANTS Defs,           \* the period definitions of the registry
          NoDef,          \* parent of a root definition
          ParentDef,      \* the parent of each definition
          NoEvent,        \* end event of a period no event ended (None)
          MaxEvents,      \* bound: number of events of the trace
          MaxOpen         \* bound: number of periods open at once

ASSUME DefsAssumption ==
    /\ NoDef \notin Defs
    /\ ParentDef \in [Defs -> Defs \cup {NoDef}]

ASSUME BoundsAssumption == MaxEvents \in Nat /\ MaxOpen \in Nat

ASSUME NoEventAssumption == NoEvent \notin Nat

VARIABLES periods,        \* the open periods, from _root_periods down
          evt,            \* number of the current event
          phase,          \* where process_event() is
          matched,        \* open periods whose end expression matches evt
          dying,          \* periods that evt is going to end
          ended           \* history: the periods that ended, how and when

engineVars == <<periods, evt, phase, matched, dying, ended>>

Instances == [def : Defs, begin : Nat]
Paths     == Seq(Instances)
Root      == << >>

Parent(p)  == Front(p)
DefOf(p)   == IF p = Root THEN NoDef ELSE Last(p).def
BeginOf(p) == Last(p).begin

\* Mutant: the children of a matched period stay.
OnlyMatched(M) == M

\* What ending the periods of M ends: they and everything open below them.
Doomed(M) == {p \in periods : \E m \in M : IsPrefix(m, p)}

\* Mutant: a period may end before its children.
ParentFirst(p) == TRUE

IsLeaf(p) == \A q \in periods : Parent(q) # p

-----------------------------------------------------------------------------
EngineInit ==
    /\ periods = {}
    /\ evt = 0
    /\ phase = "idle"
    /\ matched = {}
    /\ dying = {}
    /\ ended = {}

\* process_event(): the event satisfies the end expressions of the periods M.
ProcessEvent(M) ==
    /\ phase = "idle"
    /\ evt < MaxEvents
    /\ evt' = evt + 1
    /\ phase' = "end"
    /\ matched' = M
    /\ dying' = Doomed(M)
    /\ UNCHANGED <<periods, ended>>

\* The owner reads an event that it does not pass on to the engine.
SkipEvent ==
    /\ phase = "idle"
    /\ evt < MaxEvents
    /\ evt' = evt + 1
    /\ UNCHANGED <<periods, phase, matched, dying, ended>>

\* One period ends, after everything below it: completed if its own end
\* expression matched, aborted if only an ancestor's did.
EndPeriod(p) ==
    /\ phase \in {"end", "remove"}
    /\ p \in dying
    /\ IsLeaf(p)
    /\ periods' = periods \ {p}
    /\ dying' = dying \ {p}
    /\ ended' = ended \cup {[period    |-> p,
                             end       |-> IF phase = "end" THEN evt ELSE NoEvent,
                             completed |-> p \in matched]}
    /\ UNCHANGED <<evt, phase, matched>>

\* _process_event_end() returns.
EndingDone ==
    /\ phase = "end"
    /\ dying = {}
    /\ phase' = "begin"
    /\ matched' = {}
    /\ UNCHANGED <<periods, evt, dying, ended>>

\* A period of definition d begins under the open period p (or as a root).
\* The walk goes down into the periods this event began too.
BeginPeriod(d, p) ==
    /\ phase = "begin"
    /\ p \in periods \cup {Root}
    /\ ParentDef[d] = DefOf(p)
    /\ Append(p, [def |-> d, begin |-> evt]) \notin periods
    /\ Cardinality(periods) < MaxOpen
    /\ periods' = periods \cup {Append(p, [def |-> d, begin |-> evt])}
    /\ UNCHANGED <<evt, phase, matched, dying, ended>>

\* _process_event_begin() returns.
EventDone ==
    /\ phase = "begin"
    /\ phase' = "idle"
    /\ UNCHANGED <<periods, evt, matched, dying, ended>>

\* Mutant: only the root periods are removed.
RemoveRootPeriods ==
    /\ phase = "idle"
    /\ phase' = "remove"
    /\ dying' = {p \in periods : Len(p) = 1}
    /\ UNCHANGED <<periods, evt, matched, ended>>

\* remove_all_periods(): no event ends them, none is completed.
RemoveAllPeriods ==
    /\ phase = "idle"
    /\ phase' = "remove"
    /\ dying' = periods
    /\ UNCHANGED <<periods, evt, matched, ended>>

RemovalDone ==
    /\ phase = "remove"
    /\ dying = {}
    /\ phase' = "done"
    /\ UNCHANGED <<periods, evt, matched, dying, ended>>

EngineNext ==
    \/ \E M \in SUBSET periods : ProcessEvent(M)
    \/ SkipEvent
    \/ \E p \in dying : EndPeriod(p)
    \/ EndingDone
    \/ \E d \in Defs, p \in periods \cup {Root} : BeginPeriod(d, p)
    \/ EventDone
    \/ RemoveAllPeriods
    \/ RemovalDone

\* The engine runs to completion in the loop that reads a finite trace.
EngineSpec == EngineInit /\ [][EngineNext]_engineVars
FairEngineSpec == EngineSpec /\ WF_engineVars(EngineNext)

-----------------------------------------------------------------------------
\* Type invariant of the engine (Period and PeriodEngine objects).
TypeOK ==
    /\ periods \subseteq Paths
    /\ evt \in Nat
    /\ phase \in {"idle", "end", "begin", "remove", "done"}
    /\ matched \subseteq Paths
    /\ dying \subseteq periods
    /\ \A r \in ended : r.period \in Paths /\ r.completed \in BOOLEAN
                        /\ r.end \in Nat \cup {NoEvent}

\* No period outlives its parent, in the middle of an event either: every
\* open period hangs, with the definitions agreeing, from an open one, and
\* once the end phase has chosen what goes, nothing that stays hangs below
\* something that goes (core/period.py:715-733).
ParentIsOpen ==
    \A p \in periods :
        /\ p # Root
        /\ Parent(p) \in periods \cup {Root}
        /\ ParentDef[DefOf(p)] = DefOf(Parent(p))

DyingIsClosed ==
    \A p \in periods : Parent(p) \in dying => p \in dying

PeriodsNest == ParentIsOpen /\ DyingIsClosed

\* A period ends uncompleted only together with its parent, by the same
\* event; by no event only when the engine removes all of them.
AbortedWithParent ==
    phase \in {"idle", "done"} =>
        \A r \in ended : (~r.completed /\ r.end # NoEvent) =>
            \E q \in ended : q.period = Parent(r.period) /\ q.end = r.end

\* The interval of a child lies inside its parent's, and no period is ended
\* by the event which began it.
NestedIntervals ==
    \A r \in ended :
        /\ r.end # NoEvent => BeginOf(r.period) < r.end
        /\ \A q \in ended : q.period = Parent(r.period) =>
             /\ BeginOf(q.period) <= BeginOf(r.period)
             /\ q.end # NoEvent => r.end # NoEvent /\ r.end <= q.end

\* The engine implements the forest of periods the README describes.
Forest == INSTANCE PeriodForest
            WITH open <- periods, closed <- {r.period : r \in ended}
ImplementsForest == Forest!ForestSpec
=============================================================================

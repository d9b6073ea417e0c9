---------------------------- MODULE PeriodStats -----------------------------
(***************************************************************************)
(* The period analyses (core/periods.py): PeriodAnalysis counts the        *)
(* periods themselves.  Its call backs run inside those of the analysis    *)
(* base class, of which this module refines every step.                    *)
(*                                                                         *)
(* A PeriodEvent is named by the path of its period; its dates are those   *)
(* of the events which begin and end the period.                           *)
(***************************************************************************)
EXTENDS Analysis

CONSTANTS NameOf,         \* the name of a definition, or Unnamed
          Unnamed

\* Names are unique; any number of definitions may have none.
ASSUME NamesAssumption ==
    /\ DOMAIN NameOf = Defs
    /\ \A d, e \in Defs : NameOf[d] = NameOf[e] /\ NameOf[d] # Unnamed => d = e

VARIABLES allStats,       \* _all_period_stats, by name
          allList,        \* _all_period_list, in order of beginning
          totals,         \* _all_{min,max,total}_duration
          current,        \* keys of _current_periods
          children,       \* pairs <<parent, child>> made by add_child()
          endTs,          \* _end_ts of the finished PeriodEvents
          keyError        \* a look-up in a map failed

statsVars == <<allStats, allList, totals, current, children, endTs, keyError>>
allVars   == <<analysisVars, statsVars>>

NewStats == [list |-> << >>, min |-> NoTs, max |-> NoTs, total |-> 0]

\* Mutant: the minimum begins with 0.
LeastFromZero(a, b) == IF a = NoTs THEN 0 ELSE IF b < a THEN b ELSE a

Least(a, b)    == IF a = NoTs \/ b < a THEN b ELSE a
Greatest(a, b) == IF a = NoTs \/ b > a THEN b ELSE a

\* The running minimum, maximum and sum, given one more duration.
Accumulate(s, d) == [s EXCEPT !.min = Least(@, d),
                              !.max = Greatest(@, d),
                              !.total = @ + d]

Put(f, k, v) == [x \in DOMAIN f \cup {k} |-> IF x = k THEN v ELSE f[x]]

Duration(p) == lastTs - stamp[BeginOf(p)]

\* update_stats(): p is one more period of the name.
UpdateStats(s, p) ==
    [Accumulate(s, Duration(p)) EXCEPT !.list = Append(s.list, p)]

-----------------------------------------------------------------------------
StatsInit ==
    /\ Init
    /\ allStats = [n \in {} |-> NewStats]
    /\ allList = << >>
    /\ totals = [min |-> NoTs, max |-> NoTs, total |-> 0]
    /\ current = {}
    /\ children = {}
    /\ endTs = [p \in {} |-> 0]
    /\ keyError = FALSE

\* The entry that a beginning period sets in the statistics.  The test is on
\* the definition's name (None for an anonymous one), the key is the name or
\* the empty string: an anonymous definition always gets a new entry.
EntryFor(d) ==
    IF NameOf[d] \in DOMAIN allStats /\ NameOf[d] # Unnamed
      THEN allStats
      ELSE Put(allStats, NameOf[d], NewStats)

\* _begin_period_cb() of a period with definition d.
BeginPeriodCb(d, p) ==
    /\ allStats' = EntryFor(d)
    /\ keyError' = (keyError \/ (Len(p) > 1 /\ Parent(p) \notin current))
    /\ allList' = Append(allList, p)
    /\ current' = current \cup {p}
    /\ UNCHANGED <<totals, children, endTs>>

\* _end_period_cb() of a completed period.
CompletedCb(p) ==
    LET name == NameOf[DefOf(p)] IN
    /\ endTs' = Put(endTs, p, lastTs)
    /\ allStats' = [allStats EXCEPT ![name] = UpdateStats(@, p)]
    /\ totals' = Accumulate(totals, Duration(p))
    /\ keyError' = (keyError \/ (Len(p) > 1 /\ Parent(p) \notin current))
    /\ children' = IF Len(p) > 1 THEN children \cup {<<Parent(p), p>>}
                                 ELSE children
    /\ current' = current \ {p}
    /\ UNCHANGED allList

\* Mutant: an aborted period stays in the list.
AbortedCbKeeps(p) == UNCHANGED statsVars

\* _end_period_cb() of an aborted period: it only leaves the list.
AbortedCb(p) ==
    /\ allList' = RemoveFirst(allList, p)
    /\ UNCHANGED <<allStats, totals, current, children, endTs, keyError>>

StatsBegins(d, p) ==
    /\ PeriodBegins(d, p)
    /\ BeginPeriodCb(d, Append(p, [def |-> d, begin |-> evt]))

StatsEnds(p) ==
    /\ PeriodEnds(p)
    /\ IF p \in matched THEN CompletedCb(p) ELSE AbortedCb(p)

\* The steps that call no call back, or one about a period without
\* definition, which both ignore.
OtherSteps ==
    \/ \E ts \in 0 .. conf.last : ReadEvent(ts)
    \/ NoMoreEvents
    \/ EventPastEnd
    \/ EventBeforeBegin
    \/ \E M \in SUBSET periods : Analyse(M)
    \/ EndingReturns
    \/ EngineReturns
    \/ KeepPeriod
    \/ RefreshPeriod
    \/ RefreshCrashes
    \/ Automaton
    \/ EndDeflessPeriod
    \/ EndAllPeriods
    \/ EngineClosed

StatsNext ==
    \/ \E p \in dying : StatsEnds(p)
    \/ \E d \in conf.defs, p \in periods \cup {Root} : StatsBegins(d, p)
    \/ OtherSteps /\ UNCHANGED statsVars

StatsSpec == StatsInit /\ [][StatsNext]_allVars

-----------------------------------------------------------------------------
\* The periods which ended because their end expression matched.
Completed == {r.period : r \in {q \in ended : q.completed}}
Listed    == {allList[i] : i \in DOMAIN allList}
NamedLike(n) == {p \in Completed : NameOf[DefOf(p)] = n}
DurationOf(p) == endTs[p] - stamp[BeginOf(p)]

\* The period log holds every completed period once and drops every aborted
\* one, whatever the nesting and the order of the call backs; while the
\* analysis runs it also holds the open ones.
ListIsExact ==
    /\ Len(allList) = Cardinality(Listed)
    /\ Listed = Completed \cup periods

Lengths(P) == [p \in P |-> DurationOf(p)]

\* s.total, s.min and s.max are the sum, the least and the greatest of these
\* durations, and nothing else.
Measures(s, lengths) ==
    /\ s.total = SumFunction(lengths)
    /\ IF DOMAIN lengths = {} THEN s.min = NoTs /\ s.max = NoTs
       ELSE {s.min, s.max} \subseteq {lengths[p] : p \in DOMAIN lengths}
    /\ \A p \in DOMAIN lengths : s.min <= lengths[p] /\ lengths[p] <= s.max

\* The statistics of a name list each of its completed periods once, and their
\* total, least and greatest durations are those of the list; the global ones
\* are those of all completed periods, of any name or none
\* (core/periods.py:77-85, 165-174).
StatsMatchList ==
    /\ Measures(totals, Lengths(Completed))
    /\ \A n \in DOMAIN allStats : n # Unnamed =>
          LET s == allStats[n] IN
          /\ {s.list[i] : i \in DOMAIN s.list} = NamedLike(n)
          /\ Len(s.list) = Cardinality(NamedLike(n))
          /\ Measures(s, Lengths(NamedLike(n)))

\* Every completed child is attached to the event of its parent, which is
\* still tracked: neither call back looks up a key that is gone.  The end of
\* the parent follows, in the same event or a later one
\* (core/periods.py:87-92, 140-142).
ChildrenAreAttached ==
    /\ ~keyError
    /\ children = {<<Parent(p), p>> : p \in {q \in Completed : Len(q) > 1}}
    /\ \A c \in children : c[1] \in Completed => endTs[c[2]] <= endTs[c[1]]

=============================================================================

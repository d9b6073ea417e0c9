---------------------------- MODULE SchedReport -----------------------------
(***************************************************************************)
(* The reports of lttng-schedlog, -schedtop, -schedstats and -schedfreq    *)
(* (cli/sched.py), from what core/sched.py accumulates in a period.        *)
(*                                                                         *)
(* A scheduling is [wakee, waker, prio, latency]; processes are thread     *)
(* ids, and the names that sort them are numbers.                          *)
(***************************************************************************)
EXTENDS Frequencies

Latencies(list) == [i \in DOMAIN list |-> list[i].latency]

\* The running minimum, maximum and sum (core/sched.py:103-113, 129-137).
NewStats == [min |-> None, max |-> None, total |-> 0, list |-> << >>]
WithSched(s, e) ==
    [min   |-> IF s.min = None \/ e.latency < s.min THEN e.latency ELSE s.min,
     max   |-> IF s.max = None \/ e.latency > s.max THEN e.latency ELSE s.max,
     total |-> s.total + e.latency,
     list  |-> Append(s.list, e)]

\* _process_sched_switch(), after its filters: the waker is known too.
WithSwitch(data, e) ==
    LET known == ({e.waker} \ {None}) \cup {e.wakee}
        tids  == [t \in DOMAIN data.tids \cup known |->
                    IF t \in DOMAIN data.tids THEN data.tids[t] ELSE NewStats]
    IN [data EXCEPT !.tids = [tids EXCEPT ![e.wakee] = WithSched(@, e)],
                    !.all  = WithSched(@, e)]

SchedData(begin, end, comm, events) ==
    FoldLeft(WithSwitch,
             [begin |-> begin, end |-> end, comm |-> comm, all |-> NewStats,
              tids |-> [t \in {} |-> NewStats]], events)

-----------------------------------------------------------------------------
\* _get_tid_sched_lists_stats(), _get_prio_sched_lists_stats(), in the order
\* of their keys.
Groups(list, Key(_)) ==
    LET keys == SetToSortSeq({Key(list[i]) : i \in DOMAIN list}, <)
    IN [k \in DOMAIN keys |->
          [key |-> keys[k], list |-> SelectSeq(list, LAMBDA e : Key(e) = keys[k])]]
ByTid(list)  == Groups(list, LAMBDA e : e.wakee)

ByPrio(list) == Groups(list, LAMBDA e : e.prio)

SchedLog(data) == data.all.list

\* [:limit]: a negative limit leaves out the last ones.
SchedTop(data, args) ==
    LET sorted == Descending(data.all.list, LAMBDA e : e.latency)
    IN IF args.limit >= 0 THEN Take(sorted, args.limit)
                          ELSE SubSeq(sorted, 1, Len(sorted) + args.limit)

\* A row of statistics; no standard deviation of less than two.
StatsRow(key, count, range, total) ==
    [key |-> key, count |-> count, min |-> OrZero(range.min),
     max |-> OrZero(range.max), total |-> total, stdev |-> count >= 2]

TotalStats(data) ==
    <<StatsRow("total", Len(data.all.list), data.all, data.all.total)>>

\* Threads which only woke others have no row.
PerTidStats(data) ==
    LET tids == SetToSortSeq({t \in DOMAIN data.tids : data.tids[t].list # << >>},
                             LAMBDA a, b : data.comm[a] < data.comm[b])
    IN [i \in DOMAIN tids |->
          LET s == data.tids[tids[i]] IN StatsRow(tids[i], Len(s.list), s, s.total)]

PerPrioStats(data) ==
    LET groups == ByPrio(data.all.list)
    IN [i \in DOMAIN groups |->
          LET l == Latencies(groups[i].list)
          IN StatsRow(groups[i].key, Len(l), RangeOf(l), Total(l, LAMBDA d : d))]

\* The bounds shared after a tick: every grouping has the same latencies.
SchedUniform(data, args, shared) ==
    IF args.freq /\ IsUniform(args)
      THEN UniformAfter(shared, args, Latencies(data.all.list), NsPerUs)
      ELSE shared

\* The bounds of a histogram: shared, or of the list's own statistics.
SchedRange(list, args, shared) ==
    IF IsUniform(args) THEN shared ELSE OwnRange(args, RangeOf(Latencies(list)))

SchedFreq(data, args, shared, groups) ==
    [i \in DOMAIN groups |->
       Table("freq", data.begin, data.end,
             FreqRows(Latencies(groups[i].list),
                      SchedRange(groups[i].list, args, shared), args.resolution))]

AllGroup(data) == <<[key |-> "total", list |-> data.all.list]>>

\* Without --total and --per-prio, --per-tid (cli/sched.py:840-846).
PerTid(args) == args.perTid \/ ~(args.total \/ args.perPrio)

\* The groups whose histograms a tick makes.
FreqGroups(data, args) ==
    (IF args.total THEN AllGroup(data) ELSE << >>)
    \o (IF PerTid(args) THEN ByTid(data.all.list) ELSE << >>)
    \o (IF args.perPrio THEN ByPrio(data.all.list) ELSE << >>)

\* A histogram or a series that cannot be made.
SchedRaises(data, args, shared) ==
    /\ args.freq
    /\ LET u      == SchedUniform(data, args, shared)
           groups == FreqGroups(data, args)
       IN \/ \E g \in ToSet(groups) :
               FreqRaises(Latencies(g.list), SchedRange(g.list, args, u), args.resolution)
          \/ args.series /\ \E by \in {ByTid(data.all.list), ByPrio(data.all.list)} :
               SeriesRaises(SchedFreq(data, args, u, by))

If(wanted, tables) == IF wanted THEN tables ELSE << >>

\* _analysis_tick()
SchedTick(data, args, shared) ==
    LET u == SchedUniform(data, args, shared)
        T(class, rows) == <<Table(class, data.begin, data.end, rows)>>
    IN If(args.log, T("log", SchedLog(data)))
       \o If(args.top, T("top", SchedTop(data, args)))
       \o If(args.stats /\ args.total, T("total_stats", TotalStats(data)))
       \o If(args.stats /\ PerTid(args), T("per_tid_stats", PerTidStats(data)))
       \o If(args.stats /\ args.perPrio, T("per_prio_stats", PerPrioStats(data)))
       \o If(args.freq /\ args.total, SchedFreq(data, args, u, AllGroup(data)))
       \o If(args.freq /\ PerTid(args),
             OrSeries(args, "freq-series", SchedFreq(data, args, u, ByTid(data.all.list))))
       \o If(args.freq /\ args.perPrio,
             OrSeries(args, "freq-series", SchedFreq(data, args, u, ByPrio(data.all.list))))
=============================================================================

----------------------------- MODULE IrqReport ------------------------------
(***************************************************************************)
(* The reports of lttng-irqlog, -irqstats and -irqfreq (cli/irq.py), from  *)
(* what core/irq.py accumulates in a period.                               *)
(*                                                                         *)
(* An event is the entry of a hard interrupt, [kind |-> "entry", id], or   *)
(* the exit of an interrupt: [kind |-> "hard" or "soft", id, duration,     *)
(* latency], the latency of its raise being None if that is not known.     *)
(***************************************************************************)
EXTENDS Frequencies

\* HardIrqStats, SoftIrqStats: the interrupts, minima, maxima and sums.
NewIrqStats ==
    [list |-> << >>, min |-> None, max |-> None, total |-> 0,
     raises |-> 0, minRaise |-> None, maxRaise |-> None, totalRaise |-> 0]

Below(n, m) == m = None \/ n < m
Above(n, m) == m = None \/ n > m

\* update_stats()
WithIrq(s, irq) ==
    LET t == [s EXCEPT !.list = Append(@, irq), !.total = @ + irq.duration,
                       !.min = IF Below(irq.duration, @) THEN irq.duration ELSE @,
                       !.max = IF Above(irq.duration, @) THEN irq.duration ELSE @]
    IN IF irq.kind = "hard" \/ irq.latency = None THEN t
       ELSE [t EXCEPT !.raises = @ + 1, !.totalRaise = @ + irq.latency,
                      !.minRaise = IF Below(irq.latency, @) THEN irq.latency ELSE @,
                      !.maxRaise = IF Above(irq.latency, @) THEN irq.latency ELSE @]

\* _process_irq_handler_entry(), _process_irq_handler_exit() and
\* _process_softirq_exit(), after the filters.
WithIrqEvent(data, e) ==
    CASE e.kind = "entry" -> [data EXCEPT !.hard = With(@, e.id, NewIrqStats, LAMBDA s : s)]
      [] e.kind = "hard"  -> [data EXCEPT !.list = Append(@, e),
                                !.hard = With(@, e.id, NewIrqStats, LAMBDA s : WithIrq(s, e))]
      [] e.kind = "soft"  -> [data EXCEPT !.list = Append(@, e),
                                !.soft = With(@, e.id, NewIrqStats, LAMBDA s : WithIrq(s, e))]

IrqData(begin, end, events) ==
    FoldLeft(WithIrqEvent,
             [begin |-> begin, end |-> end, list |-> << >>,
              hard |-> [i \in {} |-> NewIrqStats], soft |-> [i \in {} |-> NewIrqStats]],
             events)

-----------------------------------------------------------------------------
\* --irq and --softirq: None, or the ids to report.
Wanted(filter, id) == filter = None \/ id \in filter

\* One kind is left out if there is only a filter of the other.
ReportsHard(args) == args.irqs # None \/ args.softirqs = None
ReportsSoft(args) == args.softirqs # None \/ args.irqs = None

\* Mutant: a filter of one kind does not leave out the other.
WantedInLogAlways(args, irq) ==
    Wanted(IF irq.kind = "hard" THEN args.irqs ELSE args.softirqs, irq.id)

\* _filter_irq()
WantedInLog(args, irq) ==
    IF irq.kind = "hard"
      THEN IF args.irqs # None THEN irq.id \in args.irqs ELSE args.softirqs = None
      ELSE IF args.softirqs # None THEN irq.id \in args.softirqs ELSE args.irqs = None

IrqLog(data, args) == SelectSeq(data.list, LAMBDA irq : WantedInLog(args, irq))

\* The ids of a kind with a row of statistics, or a histogram, in order.
Ids(stats, filter) ==
    SetToSortSeq({i \in DOMAIN stats : Wanted(filter, i) /\ stats[i].list # << >>}, <)

HardRow(id, s) ==
    [irq |-> <<"hard", id>>, count |-> Len(s.list), min |-> s.min, max |-> s.max,
     total |-> s.total, stdev |-> Len(s.list) >= 2]
SoftRow(id, s) ==
    [irq |-> <<"soft", id>>, raises |-> s.raises,
     minRaise |-> s.minRaise, maxRaise |-> s.maxRaise, totalRaise |-> s.totalRaise]
    @@ HardRow(id, s)

HardRows(data, args) ==
    LET ids == IF ReportsHard(args) THEN Ids(data.hard, args.irqs) ELSE << >>
    IN [i \in DOMAIN ids |-> HardRow(ids[i], data.hard[ids[i]])]
SoftRows(data, args) ==
    LET ids == IF ReportsSoft(args) THEN Ids(data.soft, args.softirqs) ELSE << >>
    IN [i \in DOMAIN ids |-> SoftRow(ids[i], data.soft[ids[i]])]

\* The statistics that have a histogram, hard interrupts first.
Counted(data, args) ==
    LET hard == HardRows(data, args)
        soft == SoftRows(data, args)
    IN [i \in DOMAIN hard |-> data.hard[hard[i].irq[2]]]
       \o [i \in DOMAIN soft |-> data.soft[soft[i].irq[2]]]

IrqDurations(list) == [i \in DOMAIN list |-> list[i].duration]

\* The shared bounds are those of all interrupts, whatever the filters.
IrqUniform(data, args, shared) ==
    IF args.freq /\ IsUniform(args) /\ Counted(data, args) # << >>
      THEN UniformAfter(shared, args, IrqDurations(data.list), NsPerUs)
      ELSE shared

IrqRange(s, args, shared) == IF IsUniform(args) THEN shared ELSE OwnRange(args, s)

\* An empty histogram stays: there is one for each row of statistics.
IrqFreq(data, args, shared) ==
    LET counted == Counted(data, args)
    IN [i \in DOMAIN counted |->
          Table("freq", data.begin, data.end,
                FreqRows(IrqDurations(counted[i].list),
                         IrqRange(counted[i], args, shared), args.resolution))]

IrqRaises(data, args, shared) ==
    /\ args.freq
    /\ LET u == IrqUniform(data, args, shared)
       IN \/ \E s \in ToSet(Counted(data, args)) :
               FreqRaises(IrqDurations(s.list), IrqRange(s, args, u), args.resolution)
          \/ args.series /\ SeriesRaises(IrqFreq(data, args, u))

\* _analysis_tick(): --freq makes tables of statistics too, without rows.
IrqTick(data, args, shared) ==
    LET u == IrqUniform(data, args, shared)
        T(wanted, class, rows) ==
            IF wanted THEN Table(class, data.begin, data.end, rows) ELSE None
    IN << T(args.log, "log", IrqLog(data, args)),
          T(args.stats, "hard_stats", HardRows(data, args)),
          T(args.stats, "soft_stats", SoftRows(data, args)) >>
       \o (IF args.freq THEN OrSeries(args, "freq-series", IrqFreq(data, args, u)) ELSE << >>)

\* "assert len(hard_stats_tables) == len(soft_stats_tables)", then their
\* dates are compared; without --stats there is nothing to sum up.
IrqSummaryRaises(tables, args) ==
    args.stats /\
        LET hard == TablesOf(tables, "hard_stats")
            soft == TablesOf(tables, "soft_stats")
        IN \/ Len(hard) # Len(soft) \/ hard = << >>
           \/ \E i \in DOMAIN hard \cap DOMAIN soft :
                 <<hard[i].begin, hard[i].end>> # <<soft[i].begin, soft[i].end>>

IrqSummary(tables, args) ==
    LET hard == TablesOf(tables, "hard_stats")
        soft == TablesOf(tables, "soft_stats")
    IN IF ~args.stats THEN ClearTables
       ELSE AppendTable(ClearTables,
              Table("summary", Head(hard).begin, Last(hard).end,
                FlattenSeq([i \in DOMAIN hard |->
                  LET rows == hard[i].rows \o soft[i].rows
                  IN [k \in DOMAIN rows |->
                        [begin |-> hard[i].begin, end |-> hard[i].end,
                         count |-> rows[k].count]]])))
=============================================================================

------------------------------ MODULE Command ------------------------------
(***************************************************************************)
(* The life of a command (cli/command.py): its steps, what it prints, its  *)
(* exit status; its arguments and dates; the progress; the ticks, whose    *)
(* tables are those of Reports, and the summary.                           *)
(*                                                                         *)
(* `run` holds what does not change: the tool, its arguments, the trace.   *)
(* When the analysis ticks, and for which period, is the matter of         *)
(* Analysis: here a period may end after any event, and there is a tick    *)
(* without a period at the end.                                            *)
(***************************************************************************)
EXTENDS Reports, Dates

CONSTANTS Runs,           \* the runs: [tool, mi, args, trace, data, final],
                          \* data of the periods that may end, and of the end
          MaxTicks,       \* bound: ticks in a run
          EventsPerUpdate \* the progress is looked at after more events (101)

VARIABLES run,
          stage,          \* parse, open, create, setup, run, end, post, close
                          \* or exited
          out,            \* what was printed
          status,         \* exit status; NoDate while it runs
          conf,           \* begin_ts and end_ts
          intersect,      \* intersect_mode
          lastTs,         \* of the last event read, and how many there were
          progress,       \* _Progress: [at, max, count, checked]; None if none
          ticks,          \* _period_ticks
          tables,         \* _result_tables
          uniform,        \* uniform_min and uniform_max
          reported        \* history: [data, tables, uniform] of the reports

\* The timestamps of the events are between those of the trace, which
\* Babeltrace takes from them; a date is not None.
IsDate(d) == {d.day, d.sec, d.nsec} \subseteq Int
ASSUME RunsAssumption ==
    \A r \in Runs :
        /\ {r.trace.begin, r.trace.end} \subseteq Int \cup {NoDate}
        /\ r.trace.size \in Nat
        /\ r.trace.stamps \subseteq Int
        /\ \A ns \in r.trace.stamps :
              /\ r.trace.begin # NoDate => r.trace.begin <= ns
              /\ r.trace.end # NoDate => ns <= r.trace.end
              /\ NoDate \notin {FormatTimestamp(ns, TRUE, FALSE), FormatTimestamp(ns, FALSE, FALSE),
                               FormatTimeRange(ns, ns, TRUE, FALSE)}
        /\ r.args.gmt \in BOOLEAN
        /\ \A d \in {r.args.begin, r.args.end} \ {NoDate} : IsDate(d)
        /\ r.args.timerange # NoDate /\ r.args.timerange.form = "range" =>
              IsDate(r.args.timerange.begin) /\ IsDate(r.args.timerange.end)

commandVars == <<run, stage, out, status, conf, intersect, lastTs, progress,
                 ticks, tables, uniform, reported>>

args  == run.args
trace == run.trace

\* What is printed, each a tuple that begins with its kind; warnings are left
\* out.  In MI mode only tables, errors and the progress are printed.
AnError == <<"error">>
Said(what) == IF run.mi THEN << >> ELSE << what >>

\* A step of the command ends it when a check fails: the outputs of the first
\* failure, and the exit status.
Check(fails, outputs, code) == [fails |-> fails, out |-> outputs, code |-> code]
Error(fails) == Check(fails, <<AnError>>, 1)
Failures(checks) == {i \in DOMAIN checks : checks[i].fails}

Exits(outputs, code) ==
    /\ out' = out \o outputs
    /\ stage' = "exited"
    /\ status' = code

\* What a step prints first, its checks, and the next stage if they all pass.
Step(from, to, outputs, checks) ==
    /\ stage = from
    /\ IF Failures(checks) # {}
         THEN \E i \in Failures(checks) :
                /\ \A j \in Failures(checks) : i <= j
                /\ Exits(outputs \o checks[i].out, checks[i].code)
         ELSE /\ out' = out \o outputs
              /\ stage' = to
              /\ UNCHANGED status

-----------------------------------------------------------------------------
(* parse arguments                                                         *)

\* The old options of periods exclude the new ones.
MixesPeriodOptions == args.old # "none" /\ (args.periods # << >> \/ args.captures # << >>)

\* --period-captures is read only if there is a --period.
CapturesFail ==
    /\ args.periods # << >>
    /\ \/ \E i \in DOMAIN args.captures : args.captures[i].error # "none"
       \/ \E i, j \in DOMAIN args.captures :
             i < j /\ args.captures[i].name = args.captures[j].name

\* The first --period that is not accepted; an invalid definition is told
\* twice.
PeriodErrors ==
    LET bad == {i \in DOMAIN args.periods : args.periods[i].error # "none"}
    IN IF bad = {} THEN << >>
       ELSE IF args.periods[Min(bad)].error = "invalid" THEN <<AnError, AnError>>
       ELSE <<AnError>>

\* Captures for a period that does not exist.
UnknownCaptures ==
    /\ args.periods # << >>
    /\ \E i \in DOMAIN args.captures :
          \A j \in DOMAIN args.periods : args.periods[j].name # args.captures[i].name

\* period_def_registry.is_empty: the old options define a period if there is
\* a --period-begin.
HasPeriods == args.periods # << >> \/ args.old = "begin"

\* Mutant: an invalid definition is told, with no exit status.
ValidatePeriodArgsNoExit ==
    << Error(MixesPeriodOptions), Error(CapturesFail),
       Check(PeriodErrors # << >>, PeriodErrors, IF Len(PeriodErrors) = 2 THEN 0 ELSE 1) >>

ValidatePeriodArgs ==
    << Error(MixesPeriodOptions),
       Error(CapturesFail),
       Check(PeriodErrors # << >>, PeriodErrors, 1),
       Error(UnknownCaptures) >>

Refresh == ParseDuration(args.refresh, NsPerSec)

\* _validate_transform_common_args()
ValidateCommonArgs ==
    << Error(args.refresh # NoDate /\ Refresh = {}) >>
    \o ValidatePeriodArgs
    \o << Error(args.refresh # NoDate /\ HasPeriods),
          Check(run.mi /\ args.miVersion, << <<"version">> >>, 0),
          Check(run.mi /\ args.metadata, << <<"metadata">> >>, 0),
          Error(~args.path) >>

ParseArgs ==
    /\ Step("parse", "open", << >>, ValidateCommonArgs)
    /\ UNCHANGED <<run, conf, intersect, lastTs, progress, ticks, tables, uniform, reported>>

-----------------------------------------------------------------------------
(* open trace                                                              *)

\* Stream intersection needs Babeltrace 1.4.0.
Intersects == args.intersect /\ ~VersionLess(VersionOf(trace.babeltrace), <<1, 4, 0>>)

MultiDay == IsMultiDay(trace)

NoDates == [error |-> "none", begin |-> NoDate, end |-> NoDate]
DateArg(d) == IF d = NoDate THEN [error |-> "none", ns |-> NoDate]
              ELSE ParseTraceDate(trace, d, args.gmt)

\* Only --end is compared with the beginning of the trace, if that is known.
CheckEnd(range) ==
    IF /\ range.error = "none" /\ args.end # NoDate
       /\ trace.begin # NoDate /\ range.end < trace.begin
      THEN [error |-> "value"] ELSE range

\* _process_date_args(): --timerange wins.
DateRange ==
    IF args.timerange # NoDate THEN ParseTimeRange(trace, args.timerange, args.gmt)
    ELSE CheckEnd(FromTo(DateArg(args.begin), DateArg(args.end)))

\* In MI mode, --test-compatibility skips the validation.
SkipsValidation == args.skipValidation \/ (run.mi /\ args.testCompatibility)
ShowsProgress   == args.progress

OpenTrace ==
    /\ \E dates \in {DateRange} :
          /\ Step("open", "create", << >>,
                  << Check(trace.handles = << >>, <<AnError>>, 255),
                     Error(dates.error # "none"),
                     Error(trace.kernel = "malformed"),
                     Error(~SkipsValidation /\ ~trace.readable) >>)
          /\ conf' = IF dates.error = "none" THEN [begin |-> dates.begin, end |-> dates.end]
                                             ELSE conf
    /\ intersect' = Intersects
    /\ UNCHANGED <<run, lastTs, progress, ticks, tables, uniform, reported>>

CreateAnalysis ==
    /\ Step("create",
            IF run.mi /\ args.testCompatibility THEN "close" ELSE "setup", << >>, << >>)
    /\ UNCHANGED <<run, conf, intersect, lastTs, progress, ticks, tables, uniform, reported>>

-----------------------------------------------------------------------------
(* run analysis                                                            *)

\* Progress by time, unless a date of the trace is not known; by size
\* otherwise.
NewProgress ==
    LET end == IF conf.end # NoDate THEN conf.end ELSE trace.end
        byTime == trace.begin # NoDate /\ end # NoDate /\ ~args.useSize
    IN [byTime |-> byTime, at |-> 0, count |-> 0, checked |-> 0,
        max |-> IF byTime THEN end - trace.begin ELSE trace.size]

\* A fraction, as _update_progress() prints it.
Shown(p) == IF p.at = p.max THEN <<"progress", 1, 1>>
                            ELSE <<"progress", p.at, p.max>>

BeginRun ==
    /\ Step("setup", "run",
            IF ShowsProgress THEN << <<"progress", 0, 1>> >> ELSE << >>,
            << Error(intersect /\ ~trace.intersects) >>)
    /\ progress' = IF ShowsProgress THEN NewProgress ELSE None
    /\ UNCHANGED <<run, conf, intersect, lastTs, ticks, tables, uniform, reported>>

\* Mutant: what an event adds is not cut at the maximum.
UpdatedUncut(p, ts) ==
    [p EXCEPT !.count = @ + 1, !.at = IF p.byTime THEN ts - trace.begin ELSE p.count + 1]

\* _Progress.update()
Updated(p, ts) ==
    LET at == IF p.byTime THEN ts - trace.begin ELSE p.count + 1
    IN [p EXCEPT !.count = @ + 1, !.at = IF at > p.max THEN p.max ELSE at]

\* An event is read.  Whether enough time has passed to show the progress is
\* free.
ReadEvent(ts, slow) ==
    /\ stage = "run" /\ lastTs.n < trace.events
    /\ lastTs.ts # NoDate => ts >= lastTs.ts
    /\ lastTs' = [ts |-> ts, n |-> lastTs.n + 1]
    /\ IF progress = None THEN ~slow /\ UNCHANGED <<progress, out>>
       ELSE LET p   == Updated(progress, ts)
                due == p.count - p.checked >= EventsPerUpdate
            IN /\ slow => due
               /\ progress' = IF due THEN [p EXCEPT !.checked = p.count] ELSE p
               /\ out' = IF slow THEN Append(out, Shown(p)) ELSE out
    /\ UNCHANGED <<run, stage, status, conf, intersect, ticks, tables, uniform, reported>>

\* The loop is over, after the last event or the end date.
EndLoop ==
    /\ stage = "run"
    /\ out' = IF progress = None THEN out ELSE Append(out, <<"progress", 1, 1>>)
    /\ stage' = "end"
    /\ UNCHANGED <<run, status, conf, intersect, lastTs, progress, ticks, tables,
                   uniform, reported>>

\* The arguments of a report; a date that is not known is None.
ReportArgs ==
    args @@ [from |-> IF conf.begin = NoDate THEN None ELSE conf.begin,
             to   |-> IF conf.end = NoDate THEN None ELSE conf.end]

\* _analysis_tick() of a command, in a tick that is counted or not.
Report(data, counted, to) ==
    IF TickRaises(run.tool, data, ReportArgs, uniform, run.mi)
      THEN Exits(<<AnError>>, 1) /\ UNCHANGED <<ticks, tables, uniform, reported>>
      ELSE \E made \in {TickTables(run.tool, data, ReportArgs, uniform)} :
              /\ ticks' = ticks + counted
              /\ tables' = IF run.mi THEN AppendTables(tables, made) ELSE tables
              /\ out' = out \o Said(<<"report", Printed(run.tool, data, ReportArgs)>>)
              /\ uniform' = UniformOf(run.tool, data, ReportArgs, uniform)
              /\ reported' = Append(reported, [data |-> data, tables |-> made, before |-> uniform])
              /\ stage' = to
              /\ UNCHANGED status

\* _analysis_tick_cb() when a period ends.  Without an event there is nothing
\* to report; periods are reported at the end.
Tick(data, endNs) ==
    /\ stage \in {"run", "end"} /\ ticks < MaxTicks /\ lastTs.n > 0
    /\ IF endNs = NoDate \/ run.tool = "periods"
         THEN /\ ticks' = IF endNs = NoDate THEN ticks ELSE ticks + 1
              /\ UNCHANGED <<stage, out, status, tables, uniform, reported>>
         ELSE Report(data, 1, stage)
    /\ UNCHANGED <<run, conf, intersect, lastTs, progress>>

\* end_analysis(): the last tick, without a period, is not counted.
LastTick(endNs) ==
    /\ stage = "end"
    /\ endNs # NoDate => lastTs.n > 0
    /\ IF endNs = NoDate \/ run.tool # "periods"
         THEN stage' = "post" /\ UNCHANGED <<out, status, ticks, tables, uniform, reported>>
         ELSE Report(run.final, 0, "post")
    /\ UNCHANGED <<run, conf, intersect, lastTs, progress>>

\* syscallstats counts tables, the others ticks.
WantsSummary ==
    IF run.tool = "syscallstats" THEN Len(TablesOf(tables, "total")) > 1 ELSE ticks > 1

SummaryRaises == WantsSummary /\ SummaryFails(run.tool, tables, ReportArgs)

\* _post_analysis()
PostAnalysis ==
    /\ stage = "post"
    /\ IF ~run.mi THEN stage' = "close" /\ UNCHANGED <<out, status, tables>>
       ELSE IF SummaryRaises THEN Exits(<<AnError>>, 1) /\ UNCHANGED tables
       ELSE /\ tables' = IF WantsSummary THEN SummaryTables(run.tool, tables, ReportArgs)
                                         ELSE tables
            /\ out' = Append(out, <<"results", tables'>>)
            /\ stage' = "close"
            /\ UNCHANGED status
    /\ UNCHANGED <<run, conf, intersect, lastTs, progress, ticks, uniform, reported>>

CloseTrace ==
    /\ stage = "close"
    /\ Exits(<< >>, 0)
    /\ UNCHANGED <<run, conf, intersect, lastTs, progress, ticks, tables, uniform, reported>>

-----------------------------------------------------------------------------
\* _run_step(): an exception of a handler, or of Babeltrace.
StepRaises ==
    /\ stage \in {"open", "run", "end", "post", "close"}
    /\ Exits(<<AnError>>, 1)
    /\ UNCHANGED <<run, conf, intersect, lastTs, progress, ticks, tables, uniform, reported>>

\* _run_step(): the user interrupts the command.
Cancelled ==
    /\ stage # "exited"
    /\ Exits(Said(<<"cancelled">>), 0)
    /\ UNCHANGED <<run, conf, intersect, lastTs, progress, ticks, tables, uniform, reported>>

CommandInit ==
    /\ run \in Runs
    /\ stage = "parse"
    /\ out = << >>
    /\ status = NoDate
    /\ conf = [begin |-> NoDate, end |-> NoDate]
    /\ intersect = run.args.intersect
    /\ lastTs = [ts |-> NoDate, n |-> 0]
    /\ progress = None
    /\ ticks = 0
    /\ tables = ClearTables
    /\ uniform = NoRange
    /\ reported = << >>

CommandNext ==
    \/ ParseArgs \/ OpenTrace \/ CreateAnalysis \/ BeginRun \/ EndLoop
    \/ PostAnalysis \/ CloseTrace
    \/ \E ts \in trace.stamps, slow \in BOOLEAN : ReadEvent(ts, slow)
    \/ \E data \in run.data, e \in {NoDate, 0} : Tick(data, e)
    \/ \E e \in {NoDate, 0} : LastTick(e)
    \/ StepRaises \/ Cancelled

CommandSpec == CommandInit /\ [][CommandNext]_commandVars

-----------------------------------------------------------------------------
IsOutput(kind, i) == out[i][1] = kind
\* Whoever starts the command in MI mode can tell success from failure: an
\* error was printed if and only if the status is not 0, and no error is
\* followed by results (cli/command.py:71-129).
ErrorsFail ==
    /\ status # NoDate => (status # 0 <=> \E i \in DOMAIN out : IsOutput("error", i))
    /\ \A i, j \in DOMAIN out :
          i < j /\ IsOutput("error", i) => ~IsOutput("results", j)

\* A date prints as another one does, and is the first that does: it is that
\* one itself, unless the clocks were put back between them.
FirstPrinted(read, ns) ==
    LET Same(other) == FormatTimestamp(other, TRUE, FALSE) = FormatTimestamp(ns, TRUE, FALSE)
    IN /\ Same(read)
       /\ \A shift \in {0, Saving, -Saving} :
             LET other == ns + shift * NsPerSec IN Same(other) => read <= other

\* A date copied from a report selects the nanosecond it was printed for, or
\* the first one that is printed so where summer time repeats an hour; a time
\* of day does when it is of the day when the trace began
\* (parse_utils.py:404-418).
DatesRoundTrip ==
    ~args.gmt /\ stage \notin {"parse", "open", "exited"} =>
        \A ns \in trace.stamps :
            /\ args.timerange = NoDate
                  /\ args.begin = FormatTimestamp(ns, MultiDay, FALSE)
                  /\ (MultiDay \/ LocalDay(ns) = LocalDay(trace.begin))
                  => FirstPrinted(conf.begin, ns)
            /\ args.timerange = FormatTimeRange(ns, ns, TRUE, FALSE)
                  => FirstPrinted(conf.begin, ns) /\ FirstPrinted(conf.end, ns)

\* The progress goes from 0 to 1 and never back, whatever the dates of the
\* arguments and of the trace are (cli/progressbar.py:69-92, 139-156).
ProgressAdvances ==
    \A i \in DOMAIN out : IsOutput("progress", i) =>
        /\ 0 <= out[i][2] /\ out[i][2] <= out[i][3]
        /\ \A j \in DOMAIN out : i < j /\ IsOutput("progress", j) =>
              out[i][2] * out[j][3] <= out[j][2] * out[i][3]

-----------------------------------------------------------------------------
\* No results but those of _post_analysis() are printed, once.
ResultsOnce ==
    \A i, j \in DOMAIN out : IsOutput("results", i) /\ IsOutput("results", j) => i = j

Made(r, class) == TablesOf(SelectSeq(r.tables, LAMBDA t : t # None), class)
RowsOf(made) == FlattenSeq([k \in DOMAIN made |-> made[k].rows])

\* What the totals of a tick report, whichever the tool.
Reported(r) ==
    CASE run.tool = "memtop"  -> Total(r.data.tids, LAMBDA t : t.allocated + t.freed)
      [] run.tool = "cputop"  -> Total(r.data.cpus, LAMBDA c : c.usage)
      [] run.tool = "syscallstats" ->
             Total(r.data.tids, LAMBDA t : Total(t.calls, LAMBDA c : Len(c.events)))
      [] run.tool = "irq" -> Len(SelectSeq(r.data.list, LAMBDA i : WantedInLog(ReportArgs, i)))
OfRow(row) ==
    CASE run.tool = "memtop" -> row.allocd + row.freed
      [] run.tool = "cputop" -> row.usage
      [] run.tool \in {"syscallstats", "irq"} -> row.count

\* The results of a run are printed once, and account for every tick, in the
\* totals or in the summary; the summary fails only if no CPU was ever known,
\* or if a tick had interrupts of one kind only (cli/command.py:305-313,
\* cputop.py:98-114, memtop.py:96-114, syscallstats.py:88-116, irq.py:145-171).
ResultsMatchTicks ==
    /\ ResultsOnce
    /\ run.tool \in Totals \/ (run.tool = "irq" /\ args.stats) =>
          \A i \in DOMAIN out : IsOutput("results", i) =>
             LET made == out[i][2]
                 sums == RowsOf(TablesOf(made, "total")) \o RowsOf(TablesOf(made, "summary"))
                         \o RowsOf(TablesOf(made, "hard_stats"))
                         \o RowsOf(TablesOf(made, "soft_stats"))
             IN Total(sums, OfRow) = Total(reported, Reported)
    /\ run.mi /\ stage = "post" /\ SummaryRaises =>
          \/ run.tool = "cputop" /\ \A r \in ToSet(reported) : r.data.known = 0
          \/ run.tool = "irq" /\ \E r \in ToSet(reported) :
                (HardRows(r.data, args) = << >>) # (SoftRows(r.data, args) = << >>)
          \/ run.tool = "irq" /\ \A r \in ToSet(reported) : HardRows(r.data, args) = << >>
-----------------------------------------------------------------------------
(* What the reports of a run say of the data they are made from.           *)

\* The reports of a run that got through its ticks.
AllReports == IF stage = "post" THEN ToSet(reported) ELSE {}
ReportsOf(tool) == IF run.tool = tool THEN AllReports ELSE {}
Count(row) == row.count

\* How many values the histograms of a report have, in their order.
Sizes(hs) == [i \in DOMAIN hs |-> Len(hs[i].values)]
Populations(r) ==
    CASE run.tool = "sched" ->
             LET gs == FreqGroups(r.data, args) IN [i \in DOMAIN gs |-> Len(gs[i].list)]
      [] run.tool = "irq" ->
             LET cs == Counted(r.data, args) IN [i \in DOMAIN cs |-> Len(cs[i].list)]
      [] run.tool = "io" ->
             LET disks == Keys(r.data.disks)
             IN [i \in DOMAIN Operations |-> Len(Requests(r.data, ReportArgs, Operations[i]))]
                \o [i \in DOMAIN disks |-> Len(Filtered(ReportArgs, r.data.disks[disks[i]]))]
      [] run.tool = "periods" ->
             Sizes(Histograms(r.data, args, Aggregated(r.data, args)))

CountAll(histograms, sizes) ==
    \A i \in DOMAIN histograms :
        histograms[i].rows # << >> => Total(histograms[i].rows, Count) = sizes[i]

\* Every histogram counts each of its values once, those at its bounds and
\* those of ticks with shared bounds too, unless --min or --max gave the bounds
\* (cli/command.py:393-431, cli/sched.py:572-586, cli/irq.py:288-304,
\* cli/io.py:776-790, cli/periods.py:1523-1543).
HistogramsAreComplete ==
    ~args.series /\ args.min = None /\ args.max = None =>
        \A r \in AllReports : CountAll(Made(r, "freq"), Populations(r))

\* The first rows of a sequence, by a key.
IsTop(rows, all, Key(_), n) ==
    /\ Len(rows) = Min({n, Len(all)})
    /\ ToSet(rows) \subseteq ToSet(all)
    /\ \A i, j \in DOMAIN rows : i < j => Key(rows[i]) >= Key(rows[j])
    /\ \A x \in ToSet(all) \ ToSet(rows), i \in DOMAIN rows : Key(rows[i]) >= Key(x)

TopOf(r, class, all, Key(_), n) ==
    \A t \in ToSet(Made(r, class)) : IsTop(t.rows, all, Key, n)

\* With a limit, a report has that many rows, and no row that is left out has
\* more than one that is there; the tops of I/O requests have one row more
\* (cli/memtop.py:96-114, cli/cputop.py:131-139, cli/sched.py:346-359,
\* cli/io.py:452-462, 908-925, cli/periods.py:1103-1121).
TopsAreTop ==
    LET n == args.limit
    IN n > 0 =>
        /\ \A r \in ReportsOf("memtop") :
              /\ TopOf(r, "allocd", r.data.tids, LAMBDA t : t.allocated, n)
              /\ TopOf(r, "freed", r.data.tids, LAMBDA t : t.freed, n)
        /\ \A r \in ReportsOf("cputop") :
              TopOf(r, "per-process", r.data.tids, LAMBDA t : t.usage, n)
        /\ \A r \in ReportsOf("sched") :
              TopOf(r, "top", r.data.all.list, LAMBDA e : e.latency, n)
        /\ \A r \in ReportsOf("io") :
              /\ TopOf(r, "process-read", ProcRows(r.data, "read"), LAMBDA t : t.size, n)
              /\ TopOf(r, "netif-sent", IfaceRows(r.data), LAMBDA i : i.sent, n)
              /\ \A i \in DOMAIN Operations :
                    TopOf(r, "top-" \o Operations[i],
                          IoLogRows(r.data, ReportArgs,
                                    Requests(r.data, ReportArgs, Operations[i])),
                          LAMBDA row : Duration(row.rq), n + 1)
        /\ \A r \in ReportsOf("periods") :
              args.select = None =>
                  TopOf(r, "top", Kept(r.data, args, AllEvents(r.data)),
                        LAMBDA e : Length(r.data, e), n)

Sums(t) == <<Total(t.rows, Count), Total(t.rows, LAMBDA row : row.total)>>

\* The pairs of a period and another one that it contains.
Containments(data) ==
    LET all == ToSet(Hierarchy(data, args, FALSE))
    IN UNION {{<<p, e>> : p \in ToSet(Ancestors(data, e))} : e \in all}

\* The groupings of a report agree.  Scheduling by thread, by priority and in
\* total: the same latencies.  Interrupts: a log row for each one that has
\* statistics.  Periods: a period contains those below it once each, in trees
\* of three levels (cli/sched.py:238-316, 379-479, cli/irq.py:328-404,
\* 511-523, cli/periods.py:110-164).
GroupingsAgree ==
    /\ \A r \in ReportsOf("sched") :
          \A t \in ToSet(Made(r, "per_tid_stats") \o Made(r, "per_prio_stats")),
             all \in ToSet(Made(r, "total_stats")) : Sums(t) = Sums(all)
    /\ \A r \in ReportsOf("irq") :
          args.log /\ args.stats =>
              Len(Made(r, "log")[1].rows) =
                  Total(RowsOf(Made(r, "hard_stats") \o Made(r, "soft_stats")), Count)
    /\ \A r \in ReportsOf("periods") :
          /\ args.stats /\ args.select = None /\ args.aggregateBy = None
          /\ \A e \in Events(r.data) : Len(Ancestors(r.data, e)) <= 2
          => Total(Made(r, "parent-count")[1].rows, LAMBDA row : row.total) =
                Cardinality(Containments(r.data))

\* What a report cannot be made from: bounds in ns where us are meant; bounds
\* that the durations of the periods, which they do not filter, are not within;
\* a period without duration that contains others; groups that do not have the
\* same names, or one whose values are all the same, in a series; a row of the
\* printed log without periods.
Excused(data) ==
    \/ args.min # None /\ IsUniform(args)
    \/ run.tool = "periods" /\
          \/ args.min # None \/ args.max # None
          \/ \E c \in Events(data) : LET p == data.periods[c].parent
                                     IN p > 0 /\ Length(data, p) = 0
          \/ args.series /\ run.mi /\ args.groupBy # << >>
          \/ ~run.mi /\ PrintsAggregated(args) /\
                (args.minDuration # None \/ args.maxDuration # None)

\* A report of what an analysis accumulated does not fail, whatever the ticks
\* before it were: no index of a histogram is out of its range and no series
\* lacks a row, but for what is excused (cli/sched.py:572-615, cli/irq.py:
\* 288-326, cli/periods.py:148-164, 1488-1691).
TicksDoNotFail ==
    stage \in {"run", "end"} /\ lastTs.n > 0 =>
        /\ run.tool # "periods" => \A d \in run.data :
              TickRaises(run.tool, d, ReportArgs, uniform, run.mi) => Excused(d)
        /\ run.tool = "periods" /\ stage = "end" =>
              (TickRaises("periods", run.final, ReportArgs, uniform, run.mi) => Excused(run.final))

\* "The FDStats object whose lifetime contains the given timestamp, None if no
\* such object exists" (core/io.py:456-457), for the descriptors of
\* the requests of a log.
FdsAreFound ==
    \A r \in ReportsOf("io") :
        \A rq \in ToSet(IoRequests(r.data)) :
            \A fd \in ToSet(FdList(r.data, rq)) :
                fd.open <= rq.end /\ (fd.close # None => rq.end <= fd.close)
                    => FdByTimestamp(FdList(r.data, rq), rq.end) # None
=============================================================================

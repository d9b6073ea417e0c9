----------------------------- MODULE MCCommand -----------------------------
(* Families of runs, each with everything else at its default: options that *)
(* conflict, dates of every form with traces of one and two days, with the   *)
(* versions of Babeltrace, progress, and ticks of the three tools.           *)
EXTENDS Command

ReportOptions ==
    [limit |-> 1, log |-> FALSE, top |-> FALSE, stats |-> FALSE, usage |-> FALSE,
     freq |-> FALSE, uniform |-> FALSE, series |-> FALSE, total |-> FALSE, perTid |-> FALSE,
     perPrio |-> FALSE, irqs |-> None, softirqs |-> None, min |-> None, max |-> None,
     resolution |-> 3, minsize |-> None, maxsize |-> None, minDuration |-> None,
     maxDuration |-> None, groupBy |-> << >>, aggregateBy |-> None, aggregatedBy |-> 1,
     select |-> None, orderBy |-> "time"]
AnyArgs == [refresh |-> NoDate, old |-> "none", periods |-> << >>, captures |-> << >>,
            miVersion |-> FALSE, metadata |-> FALSE, path |-> TRUE, testCompatibility |-> FALSE,
            skipValidation |-> FALSE, progress |-> FALSE, useSize |-> FALSE, gmt |-> FALSE,
            intersect |-> TRUE, begin |-> NoDate, end |-> NoDate, timerange |-> NoDate]
           @@ ReportOptions
OneDay  == [babeltrace |-> <<1, 4, 0>>, handles |-> << <<9, 14>> >>, begin |-> 9, end |-> 14,
            kernel |-> "ok", readable |-> TRUE, intersects |-> TRUE, size |-> 2,
            events |-> 2, stamps |-> {9, 12, 14}]
TwoDays == [OneDay EXCEPT !.end = 20, !.handles = << <<9, 14>>, <<12, 20>> >>, !.stamps = {9, 20}]
Old(t)  == [t EXCEPT !.begin = NoDate, !.end = NoDate, !.babeltrace = <<1, 3>>]
Still(t) == [t EXCEPT !.events = 0]

Run(tool, mi, a, t, data) == [tool |-> tool, mi |-> mi, args |-> a, trace |-> t, data |-> data,
                              final |-> None]
Quick(mi, a, t) == Run("memtop", mi, a, Still(t), {})

PeriodArg(n, e) == [name |-> n, error |-> e]
Options ==
    {[AnyArgs EXCEPT !.old = o, !.periods = p, !.captures = c, !.refresh = r] :
        o \in {"none", "begin", "other"},
        p \in {<< >>, <<PeriodArg(1, "none")>>, <<PeriodArg(1, "none"), PeriodArg(1, "invalid")>>,
               <<PeriodArg(2, "malformed")>>},
        c \in {<< >>, <<PeriodArg(1, "none")>>, <<PeriodArg(1, "none"), PeriodArg(1, "none")>>},
        r \in {NoDate, [value |-> 1, unit |-> "ms"], [value |-> 1, unit |-> "min"]}}
Modes == {[AnyArgs EXCEPT !.miVersion = v, !.metadata = m, !.path = p, !.testCompatibility = t,
                          !.skipValidation = s] : v, m, p, t, s \in BOOLEAN}
BadTraces == {[OneDay EXCEPT !.handles = << >>], [OneDay EXCEPT !.kernel = "malformed"],
              [OneDay EXCEPT !.readable = FALSE], [OneDay EXCEPT !.intersects = FALSE],
              [Old(OneDay) EXCEPT !.intersects = FALSE]}

\* Summer time ends at second 7, of which the local time is that of second 6
\* again; when it begins, at second 12, the local time 11 is left out.
MCSummer == (0 .. 6) \cup (12 .. 13)

MCForms == {"full_ns", "full", "time_ns", "time", "timestamp", "other"}
UserDates == {NoDate} \cup
    {[form |-> f, day |-> d, sec |-> s, nsec |-> n] : f \in MCForms, d \in {1, 2}, s \in {0, 3, 5}, n \in {0, 1}}
DateArgs ==
    {[AnyArgs EXCEPT !.begin = b, !.gmt = g] : b \in UserDates, g \in BOOLEAN}
    \cup {[AnyArgs EXCEPT !.end = e] : e \in UserDates}
    \cup {[AnyArgs EXCEPT !.timerange = [form |-> "range", begin |-> b, end |-> b]] : b \in UserDates \ {NoDate}}
    \cup {[AnyArgs EXCEPT !.timerange = [form |-> "other"]]}
    \cup {[AnyArgs EXCEPT !.begin = FormatTimestamp(ns, IsMultiDay(t), g), !.gmt = g] :
             ns \in OneDay.stamps \cup TwoDays.stamps, t \in {OneDay, TwoDays}, g \in BOOLEAN}

ProgressArgs == {[AnyArgs EXCEPT !.progress = TRUE, !.useSize = u, !.timerange = r] : u \in BOOLEAN,
    r \in {NoDate, FormatTimeRange(12, 12, TRUE, FALSE), FormatTimeRange(1, 2, TRUE, FALSE)}}
ProgressTraces == {[t EXCEPT !.events = 3] : t \in {OneDay, Old(OneDay)}}

At(d, b, e) == [begin |-> b, end |-> e] @@ d
MemData == {At([tids |-> << >>], 0, 1),
            At([tids |-> <<[tid |-> 1, allocated |-> 1, freed |-> 0],
                           [tid |-> 2, allocated |-> 2, freed |-> 3]>>], 1, 2)}
CpuData == {At([tids |-> << >>, cpus |-> << >>, known |-> 0], 0, 1),
            At([tids |-> << >>, cpus |-> << >>, known |-> 2], 1, 2),
            At([tids |-> <<[tid |-> 1, usage |-> 1], [tid |-> 2, usage |-> 2]>>,
                cpus |-> <<[cpu |-> 1, usage |-> 2], [cpu |-> 0, usage |-> 1]>>, known |-> 2], 2, 3)}
Ok(n)   == [i \in 1 .. n |-> [duration |-> i, ret |-> 1 - i]]
CallData == {At([tids |-> << >>], 0, 1),
             At([tids |-> <<[tid |-> 1, calls |-> <<[name |-> "read", events |-> Ok(1)]>>],
                            [tid |-> 3, calls |-> << >>],
                            [tid |-> 2, calls |-> <<[name |-> "read", events |-> Ok(1)],
                                                    [name |-> "open", events |-> Ok(3)]>>]>>], 1, 2)}

Full == [AnyArgs EXCEPT !.log = TRUE, !.top = TRUE, !.stats = TRUE]
Freq == {[AnyArgs EXCEPT !.freq = TRUE, !.uniform = u, !.series = s] : u, s \in BOOLEAN}
Once == [OneDay EXCEPT !.events = 1, !.stamps = {9}]

\* Schedulings of two threads by one or none, with priority 0 for some.
Wake(t, w, p, l) == [wakee |-> t, waker |-> w, prio |-> p, latency |-> l]
Scheds(b, events) == SchedData(b, b + 1, <<2, 1, 3>>, events)
MCSched == {Scheds(0, << >>), Scheds(1, <<Wake(1, 3, 0, 2), Wake(2, None, 5, 7)>>),
            Scheds(2, <<Wake(2, 1, 5, 3), Wake(2, 1, 0, 9), Wake(1, None, 0, 3)>>)}
SchedArgs ==
    {[a EXCEPT !.total = t, !.perTid = ~t, !.perPrio = p] : a \in Freq \cup {Full}, t, p \in BOOLEAN}
    \cup {[a EXCEPT !.min = 2] : a \in Freq} \cup {[a EXCEPT !.max = 9] : a \in Freq}
    \cup {[Full EXCEPT !.limit = l] : l \in {2, -1}}

\* Interrupts of both kinds, one that only began, some without their raise.
Irq(k, i, d, l) == [kind |-> k, id |-> i, duration |-> d, latency |-> l]
MCIrq == {IrqData(0, 1, <<[kind |-> "entry", id |-> 1]>>),
          IrqData(1, 2, <<Irq("hard", 1, 4, None), Irq("soft", 1, 6, 1), Irq("soft", 2, 1, None)>>),
          IrqData(2, 3, <<Irq("soft", 1, 3, None), Irq("soft", 1, 5, 2), Irq("hard", 2, 2, None),
                          Irq("hard", 1, 8, None)>>)}
IrqArgs ==
    {[a EXCEPT !.irqs = h, !.softirqs = s] : a \in Freq \cup {Full}, h, s \in {None, {1}}}
    \cup {[a EXCEPT !.max = 8] : a \in Freq}

\* Files that are closed, opened again and shared by a thread with its leader;
\* requests of several kinds; disks and packets.
Open(t, fd, name, ts)  == [kind |-> "open", tid |-> t, fd |-> fd, name |-> name,
                           generic |-> name = "pipe", type |-> IF name = "a" THEN "disk" ELSE "maybe_net",
                           ts |-> ts]
Close(t, fd, ts) == [kind |-> "close", tid |-> t, fd |-> fd, ts |-> ts]
Rq(op, t, lead, fd, size, b, e) ==
    [kind |-> "rq", op |-> op, tid |-> t, lead |-> lead, fd |-> fd, in |-> 3, out |-> 4,
     ok |-> size # None, size |-> size, begin |-> b, end |-> e]
Block(op, d, t, size) == [kind |-> "block", op |-> op, disk |-> d, tid |-> t, lead |-> t,
                          sectors |-> size, size |-> size, begin |-> 9, end |-> 9 + size]
MCIo == {IoData(0, 1, <<1, 2>>, << >>),
         IoData(1, 2, <<1, 2>>,
            <<Open(1, 3, "a", 8), Rq("read", 1, 1, 3, 2, 9, 10), Open(1, 4, "pipe", 10),
              Rq("write", 2, 1, 3, 3, 9, 12),
              Rq("read", 1, 1, 4, None, 12, 13), Rq("open", 1, 1, 5, None, 13, 14), Close(1, 3, 13),
              Rq("read", 1, 1, 3, 2, 13, 14)>>),
         IoData(2, 3, <<1, 2>>,
            <<Open(2, 3, "pipe", 9), Rq("read", 2, 2, 3, 4, 9, 11), Block("read", 1, 2, 2),
              Block("write", 1, None, 1), Block("read", 2, 1, 3), Rq("write", 2, 2, 3, 1, 10, 11),
              [kind |-> "sent", iface |-> 1, bytes |-> 3], [kind |-> "received", iface |-> 1, bytes |-> 1],
              [kind |-> "sent", iface |-> 2, bytes |-> 5]>>)}
IoArgs ==
    {[[a EXCEPT !.usage = ~a.freq] EXCEPT !.limit = l] : a \in Freq \cup {Full}, l \in {0, 2}}
    \cup {[[Full EXCEPT !.minsize = 2] EXCEPT !.timerange = FormatTimeRange(9, 12, TRUE, FALSE)]}

\* A file that is opened again: the first request ends while the first one is
\* open.
Reopened == {IoData(1, 2, <<1, 2>>,
                <<Open(1, 3, "a", 8), Rq("read", 1, 1, 3, 2, 9, 10), Close(1, 3, 11), Open(1, 3, "b", 12)>>)}

\* Trees of periods of three levels, with a chain, two roots of a name, fields
\* that group them, and one whose parent was aborted; and one of four levels.
Per(n, b, e, p, c) == [name |-> n, begin |-> b, end |-> e, parent |-> p,
                       captures |-> [i \in DOMAIN c |-> [field |-> 1, value |-> c[i]]]]
Periods(ps) == [begin |-> 0, end |-> 9, order |-> <<1, 3, 2>>, periods |-> ps]
MCPeriods ==
    {Periods(<< >>),
     Periods(<<Per(1, 0, 20, 0, <<1>>), Per(2, 2, 12, 1, << >>), Per(3, 3, 5, 2, <<1>>),
               Per(3, 6, 10, 2, <<2>>), Per(1, 21, 29, 0, <<2>>), Per(2, 22, 28, 5, << >>),
               Per(3, 23, 24, 6, <<1>>), Per(3, 25, 26, 6, <<1>>), Per(3, 26, 27, 6, << >>)>>),
     Periods(<<Per(1, 0, 9, 0, << >>), Per(2, 1, 4, 1, <<1>>), Per(2, 5, 8, 1, <<1>>),
               Per(2, 6, 7, -1, <<1>>)>>),
     Periods(<<Per(1, 0, 9, 0, << >>), Per(2, 1, 8, 1, << >>), Per(2, 2, 6, 2, << >>),
               Per(3, 3, 3, 3, << >>), Per(1, 9, 9, 0, << >>), Per(2, 9, 9, 5, << >>)>>)}
ByField == (1 :> {1}) @@ (2 :> {1}) @@ (3 :> {1})
PeriodArgs ==
    {[a EXCEPT !.groupBy = g, !.minDuration = d] :
        a \in Freq \cup {Full}, g \in {<< >>, ByField, 3 :> {1}}, d \in {None, 3}}
    \cup {[a EXCEPT !.min = 4] : a \in Freq} \cup {[a EXCEPT !.max = 2] : a \in Freq}
    \cup {[Full EXCEPT !.orderBy = o, !.aggregateBy = {1}, !.select = {2, 3}, !.groupBy = g,
                       !.maxDuration = d] :
             o \in {"time", "hierarchy"}, g \in {<< >>, ByField}, d \in {None, 5}}

Finals(mi, as) ==
    {[Run("periods", mi, a, Once, {None}) EXCEPT !.final = d] : a \in as, d \in MCPeriods}

ReportRuns ==
    {Run("memtop", mi, AnyArgs, Once, MemData) : mi \in BOOLEAN}
    \cup {Run("cputop", TRUE, AnyArgs, Once, CpuData)}
    \cup {Run("syscallstats", TRUE, AnyArgs, Once, CallData)}
    \cup {Run("sched", TRUE, a, Once, MCSched) : a \in SchedArgs}
    \cup {Run("irq", TRUE, a, Once, MCIrq) : a \in IrqArgs}
    \cup {Run("io", TRUE, a, Once, MCIo) : a \in IoArgs}
    \cup Finals(TRUE, PeriodArgs) \cup Finals(FALSE, {a \in PeriodArgs : a.log})

DateRuns ==
    {Quick(TRUE, a, t) : a \in DateArgs, t \in {OneDay, TwoDays, Old(OneDay), Old(TwoDays)}}
LookupRuns == {Run("io", FALSE, Full, Once, Reopened)}
              \cup {Run("io", FALSE, a, Once, MCIo) : a \in IoArgs}

MCRuns ==
    {Quick(mi, a, OneDay) : mi \in BOOLEAN, a \in Options \cup Modes}
    \cup {Quick(mi, a, t) : mi \in BOOLEAN, a \in Modes, t \in BadTraces}
    \cup {Run("memtop", mi, a, t, {}) : mi \in BOOLEAN, a \in ProgressArgs, t \in ProgressTraces}
    \cup DateRuns \cup ReportRuns
=============================================================================

---------------------------- MODULE UsageReports ----------------------------
(***************************************************************************)
(* The reports of lttng-memtop, lttng-cputop and lttng-syscallstats        *)
(* (cli/memtop.py, cli/cputop.py, cli/syscallstats.py): the tables of a    *)
(* tick, from the period data, and those of the summary.                   *)
(*                                                                         *)
(* The dictionaries of the period data are sequences of their values.      *)
(***************************************************************************)
EXTENDS MiTables

\* Mutant: the limit is tested before the row is counted.
LimitedLate(seq, limit) == IF limit > 0 THEN Take(seq, limit + 1) ELSE seq

\* `if limit > 0 and count >= limit: break`, after a row.
Limited(seq, limit) == IF limit > 0 THEN Take(seq, limit) ELSE seq

-----------------------------------------------------------------------------
(* memtop: data.tids is a sequence of [tid, allocated, freed].             *)

MemAllocd(data, limit) ==
    Limited(Descending(data.tids, LAMBDA t : t.allocated), limit)
MemFreed(data, limit) ==
    Limited(Descending(data.tids, LAMBDA t : t.freed), limit)
MemTotal(data) ==
    << [allocd |-> Total(data.tids, LAMBDA t : t.allocated),
        freed  |-> Total(data.tids, LAMBDA t : t.freed)] >>

MemtopTick(data, limit) ==
    << Table("allocd", data.begin, data.end, MemAllocd(data, limit)),
       Table("freed", data.begin, data.end, MemFreed(data, limit)),
       Table("total", data.begin, data.end, MemTotal(data)) >>

\* Mutant: the summary has the last tick only.
MemtopSummaryLast(tables) ==
    Summary(<<Last(tables)>>, "total", LAMBDA t :
        <<[begin |-> t.begin, end |-> t.end] @@ t.rows[1]>>)

MemtopSummary(tables) ==
    Summary(tables, "total", LAMBDA t :
        <<[begin |-> t.begin, end |-> t.end] @@ t.rows[1]>>)

-----------------------------------------------------------------------------
(* cputop: data.tids is a sequence of [tid, usage], data.cpus of           *)
(* [cpu, usage]; data.known is the number of CPUs of the state.  The total *)
(* is the sum of the usages of the CPUs, to be divided by their number.    *)

CpuPerTid(data, limit) == Limited(Descending(data.tids, LAMBDA t : t.usage), limit)
CpuPerCpu(data)        == Ascending(data.cpus, LAMBDA c : c.cpu)

\* No table at all before a CPU is known.
CpuTotal(data) ==
    IF data.known = 0 THEN None
    ELSE Table("total", data.begin, data.end,
               <<[usage |-> Total(data.cpus, LAMBDA c : c.usage), of |-> data.known]>>)

CputopTick(data, limit) ==
    << Table("per-process", data.begin, data.end, CpuPerTid(data, limit)),
       Table("per-cpu", data.begin, data.end, CpuPerCpu(data)),
       CpuTotal(data) >>

CputopSummary(tables) ==
    Summary(tables, "total", LAMBDA t :
        <<[begin |-> t.begin, end |-> t.end] @@ t.rows[1]>>)

-----------------------------------------------------------------------------
(* syscallstats: data.tids is a sequence of [tid, calls], calls being a    *)
(* sequence of [name, events], and events one of [duration, ret].          *)

Durations(c)     == [i \in DOMAIN c.events |-> c.events[i].duration]
TotalSyscalls(t) == Total(t.calls, LAMBDA c : Len(c.events))

ReturnKey(e) == IF e.ret >= 0 THEN 0 ELSE e.ret

\* A key is counted once more than it occurs.
ReturnCount(c) ==
    [k \in {ReturnKey(c.events[i]) : i \in DOMAIN c.events} |->
        1 + Len(SelectSeq(c.events, LAMBDA e : ReturnKey(e) = k))]

SyscallRow(c) ==
    [name |-> c.name, count |-> Len(c.events),
     min |-> Min(ToSet(Durations(c))), max |-> Max(ToSet(Durations(c))),
     total |-> Total(Durations(c), LAMBDA d : d),
     stdev |-> Len(c.events) > 2, returns |-> ReturnCount(c)]
SyscallRows(t) ==
    LET calls == Descending(t.calls, LAMBDA c : Len(c.events))
    IN [i \in DOMAIN calls |-> SyscallRow(calls[i])]

\* The threads with calls, those with most first.
SyscallTids(data) ==
    SelectSeq(Descending(data.tids, TotalSyscalls), LAMBDA t : TotalSyscalls(t) # 0)

SyscallsTick(data) ==
    LET tids == SyscallTids(data)
    IN [i \in DOMAIN tids |->
           Table("per-tid", data.begin, data.end, SyscallRows(tids[i]))]
       \o << Table("total", data.begin, data.end,
                [i \in DOMAIN tids |->
                    [tid |-> tids[i].tid, count |-> TotalSyscalls(tids[i])]]) >>

SyscallsSummary(tables) ==
    Summary(tables, "total", LAMBDA t :
        [i \in DOMAIN t.rows |-> [begin |-> t.begin, end |-> t.end] @@ t.rows[i]])
=============================================================================

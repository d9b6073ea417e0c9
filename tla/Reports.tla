------------------------------ MODULE Reports -------------------------------
(***************************************************************************)
(* What the commands have of their own: the tables of a tick, those that   *)
(* remain of all ticks at the end, and when making them fails.             *)
(***************************************************************************)
EXTENDS UsageReports, SchedReport, IrqReport, IoReport, PeriodReport

Totals == {"memtop", "cputop", "syscallstats"}

\* _analysis_tick() of each command
TickTables(tool, data, args, shared) ==
    CASE tool = "memtop"       -> MemtopTick(data, args.limit)
      [] tool = "cputop"       -> CputopTick(data, args.limit)
      [] tool = "syscallstats" -> SyscallsTick(data)
      [] tool = "sched"        -> SchedTick(data, args, shared)
      [] tool = "irq"          -> IrqTick(data, args, shared)
      [] tool = "io"           -> IoTick(data, args)
      [] tool = "periods"      -> PeriodTick(data, args)

TickRaises(tool, data, args, shared, mi) ==
    CASE tool = "sched"   -> SchedRaises(data, args, shared)
      [] tool = "irq"     -> IrqRaises(data, args, shared)
      [] tool = "periods" -> PeriodRaises(data, args, mi)
      [] OTHER            -> FALSE

\* The bounds that --freq-uniform keeps from tick to tick.
UniformOf(tool, data, args, shared) ==
    CASE tool = "sched" -> SchedUniform(data, args, shared)
      [] tool = "irq"   -> IrqUniform(data, args, shared)
      [] OTHER          -> shared

\* What is printed in text mode only.
Printed(tool, data, args) ==
    IF tool = "periods" /\ PrintsAggregated(args) THEN AggregatedTables(data, args) ELSE << >>

\* _create_summary_result_tables(): that of I/O clears the tables, those of
\* scheduling and periods keep them.
SummaryTables(tool, tables, args) ==
    CASE tool = "memtop"       -> MemtopSummary(tables)
      [] tool = "cputop"       -> CputopSummary(tables)
      [] tool = "syscallstats" -> SyscallsSummary(tables)
      [] tool = "irq"          -> IrqSummary(tables, args)
      [] tool = "io"           -> ClearTables
      [] OTHER                 -> tables

\* The summary takes its dates from the tables of totals.
SummaryFails(tool, tables, args) ==
    CASE tool \in Totals -> TablesOf(tables, "total") = << >>
      [] tool = "irq"    -> IrqSummaryRaises(tables, args)
      [] OTHER           -> FALSE
=============================================================================

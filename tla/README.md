# A TLA+ model of LTTng analyses

LTTng analyses reads a kernel trace once, from its first event to its last, and
reports statistics: scheduling latencies, CPU usage, interrupts, I/O, memory,
periods defined by the user. One thread does everything, but the *trace* is
concurrent: its events come from several CPUs, in any order the kernel allows,
and some of them may be missing, because tracing began late or because the
tracer discarded events. Most of what is hard in this program is to reconstruct
from such a stream what the kernel did, and to charge it to the right interval.

Paths are relative to `src/lttnganalyses/`.

## 1. Inventory

| Part | State it keeps | Operations | What makes it correct |
|---|---|---|---|
| Period engine, `core/period.py:574-766` | the tree of open periods | `process_event` (end, then begin), `remove_all_periods` | the open periods are a forest; they end bottom-up, each exactly once, with the right verdict |
| Period definitions and expressions, `core/period.py:29-572`, `core/event.py`, `cli/period_parsing.py` | registry of definitions, expression trees | parse, validate, add, resolve and match | what is accepted raises for the values it compares only; a match is what the expression says, about the right events |
| Analysis life cycle, `core/analysis.py`, `cli/command.py:340-380` | period data, current refresh period, begin and end dates, start/stop flags | `process_event`, begin and end of the analysis, call backs of the engine, ticks | each period is reported once, from the events of its interval, inside the dates; refresh periods tile the trace; the loop ends |
| Automaton, `linuxautomaton/automaton.py` | `State` (threads, CPUs, disks, ...), notification lists per period | dispatch, register, send, clear | exactly the open periods are notified |
| Period analysis, `core/periods.py` | log of periods, statistics per name, map of open periods | begin and end call backs | the log has each completed period once, the statistics agree with it, children are attached to their parents |
| Scheduling provider, `linuxautomaton/sched.py` | threads, current thread of each CPU, pending wakeups | eight events | look-ups succeed, the pending wakeup is the first, a running thread has none |
| Scheduling latency analysis, `core/sched.py` | list of latencies, statistics per thread | the notification of a switch | latencies do not overlap, do not cover running time |
| CPU usage analysis, `core/cputop.py` | totals and starting dates per CPU and thread | switch, migration, priority change, end of period | usage is what was run, and never above 100 % |
| Interrupt provider and analysis, `linuxautomaton/irq.py`, `core/irq.py` | current hard interrupt and queue of softirqs per CPU, list of interrupts | five events | raise, entry and exit of one softirq are put together |
| Block provider, `linuxautomaton/block.py` | remappings, pending requests per disk | remap, merge, issue, complete | a completion is charged to the request that was issued, on the device it was submitted to |
| System call, I/O and state dump providers, `linuxautomaton/syscalls.py`, `io.py`, `statedump.py` | pending call and its request per thread, file descriptors per process | entry, exit, `connect`, fork, exec, state dump | entries and exits of a call are paired; the descriptors are those of the process, with the right names |
| I/O analysis, `core/io.py` | per period, the times each descriptor was open and the bytes that went through it | seven notifications | bytes are counted once for the thread and once for the descriptor; the time lines are in order |
| Network and memory providers, memory and system call analyses, `linuxautomaton/net.py`, `mem.py`, `core/memtop.py`, `syscalls.py` | page count, pages of the pending requests, pages per thread, statistics of each call | page alloc and free, wakeup of kswapd, packets, entry and exit | a page is charged to the requests in progress, once; the calls of a thread do not overlap |
| Command, `cli/command.py`, `cli/progressbar.py` | configuration, result tables, ticks, progress, bounds of the histograms | parse and validate arguments, open, run, post-analysis, close | an error is an exit status; the results are those of the ticks |
| Dates and versions, `common/*.py` | none | parse and format dates, ranges, durations, versions | what is printed can be given back as an argument |
| Reports, `cli/sched.py`, `irq.py`, `io.py`, `cputop.py`, `memtop.py`, `syscallstats.py`, `periods.py` | the tables of a tick | log, top, statistics, histograms, series, summary | tops, statistics, groups and histograms agree with the log; no index or division fails |
| Machine interface, `cli/mi.py` | tables and their classes | append, select, clear | see the command |
| Generated parser, `termgraph.py`, packaging | none | text | not modelled |

How they interact. For each event, `Analysis.process_event` runs the engine
(whose call backs create, notify and drop period data), then the refresh
period; then the automaton runs the providers in the order of their
registration, and these *send notifications* to the analysis, synchronously,
once for each open period that registered. When a period ends the analysis *ticks* the
command, which makes its tables from the data of the period; at the end it
summarises the tables of all ticks. There is no other thread and no
persistent state, hence no crash recovery, no lock and no message delay. What is
hard is listed in `PROJECT.json` under `hazards`: the order of end, begin and
notification inside of one event; lists changed while they are walked; equal
timestamps and dates at a boundary; missing events; objects replaced while
others still name them; wakeups, raises and requests which several CPUs
interleave.

## 2. The modules

| Module | Models | Main correspondence |
|---|---|---|
| `PeriodForest` | what the engine promises | `open`, `closed`; `Open`, `Close` |
| `PeriodEngine` | `core/period.py:574-766` | `periods` is the tree under `_root_periods`, a Period being named by its path; `ProcessEvent`/`EndPeriod`/`EndingDone` are `_process_event_end`, `BeginPeriod`/`EventDone` are `_process_event_begin`, `RemoveAllPeriods` is `remove_all_periods` |
| `PeriodExpressions` | `core/period.py:29-572`, `core/event.py`, `cli/period_parsing.py`, the old options of `cli/command.py:559-625` | `Parsed` and `Legacy` make a definition of an argument, `AddError` is `add_period_def`, `Legal` the validator, `Matches` the matcher, `Errors` what it does not catch, of the operands or of the values; an event is a name and fields by scope; a chain of binary connectives is one connective of many expressions, and each walk is a recursive function on `Exprs` |
| `PeriodMatching` (extends both) | the engine with the expressions evaluated | `MatchEnd`, `MatchBegin`, `MatchDone` restrict the choices of `ProcessEvent`, `BeginPeriod`, `EventDone` to what the contexts of `period.py:688-702` give; `raised` is what an expression or a capture raised (`MatchRaises`), after which nothing is evaluated: an operand that cannot be resolved, values that cannot be compared, a capture |
| `Analysis` (extends `PeriodEngine`) | `core/analysis.py`, the loop of `cli/command.py`, the registration lists of `automaton.py` | `data` is `_period_data`, `registered` the notification lists, `ticks` what the tick call backs received; one action per stage of an event: engine, refresh, automaton |
| `PeriodStats` (extends `Analysis`) | `core/periods.py` | `BeginCb`, `CompletedCb`, `AbortedCb` are conjoined to the engine's steps, as the call backs are |
| `SchedState` | `linuxautomaton/sched.py`, the process events of `statedump.py`, `_fix_context_pid` of `io.py` | `tids` and `cpus` are the dictionaries of `State`; one action per handler |
| `SchedLatency` (extends `SchedState`) | `core/sched.py` | the notification is part of the switch, before the wakeup is consumed |
| `Cputop` | `core/cputop.py` | `SwitchCpu`, `SwitchTid` are the two halves of the notification; `CpuUsage`, `TidUsage` are `_compute_stats` |
| `Providers` | the context that `IrqState` and `MemNet` share: CPUs, None and the date of the last event | `now` |
| `IrqState` | `linuxautomaton/irq.py` and the filters of `core/irq.py` | one action per event |
| `BlockState` | `linuxautomaton/block.py` | one action per event, and `KernelFrontmerge`, of which the provider sees nothing; `report` is what `core/io.py` is notified of; `strays` are the places where such a merge has left a remapping |
| `IoState` | `linuxautomaton/syscalls.py`, `io.py`, the descriptors of `sched.py` and `statedump.py` | `procs` is `State.tids`, reduced to pid, descriptors and `current_syscall`; an action is an event through *all* the providers that handle it, in their order |
| `IoTrace` (extends `IoState`) | the kernel of a complete trace | `calls`, `files`, `running`: what the threads really do |
| `IoAnalysis` (extends `IoState`) | `core/io.py` | `stats` is `period_data.tids`; `...Notified` are the call backs of an event, conjoined to its action |
| `MemNet` | `linuxautomaton/mem.py`, `net.py`, `syscalls.py`, the pages and packets of `io.py`, `core/memtop.py`, `core/syscalls.py` | one action per event, through the providers in their order; `calls` is `current_syscall` with its request |
| `Dates` | `common/parse_utils.py`, `trace_utils.py`, `version_utils.py`, `format_utils.py` | one operator per function; a date is a day, seconds and nanoseconds in one of the forms of the parser; local time has an offset and a summer time, so that a local time may be that of two instants or of none, and `fold` tells two apart |
| `MiTables`, `Frequencies` | result tables; histograms and series, of which each command has a copy of its own | `Table`, `Summary`; `FreqRows` is `_fill_freq_result_table`, `UniformAfter` is `_find_uniform_freq_values` |
| `UsageReports`, `SchedReport`, `IrqReport`, `IoReport` | `cli/memtop.py`, `cputop.py`, `syscallstats.py`; `sched.py`; `irq.py`; `io.py`, with the sums of `core/` | `...Tick` is `_analysis_tick`: the tables of a period from what was accumulated in it |
| `PeriodReport` | `cli/periods.py` | `Hierarchy`, `PeriodGroups`, `Pairs` are `_get_aggregated_lists`; `PeriodTick` the tables |
| `Reports`, `Command` | which report a tool has; the life of a command, `cli/command.py`, `progressbar.py` | `stage` is the step of `Command.run`; one action per step, event, tick; `out` and `status` are what the caller of the program sees |
| `Periods_proof`, `SchedLatency_proof`, `Cputop_proof`, `Providers_proof`, `BlockState_proof`, `Io_proof`, `Command_proof`, `DataTheorems` | proofs | see section 5 |

An action is a whole handler: dispatch, state change and the call backs it makes.
Expressions that match, contents of events, and the order in which Python walks
a set are choices of the environment. Text, names and layout are left out; a date is
not, because it is read back.

Two kinds of trace are considered, by the field `lossless` of a configuration.
In a complete trace the kernel is part of the model (which thread runs on a
CPU, which handler, which layer a bio is in), each of its steps is an event, and
the properties compare the program with what *happened*. In an incomplete trace
any event a kernel could have recorded may come next, whatever the program
knows, and the properties are about consistency.

`Analysis` and `Command` are two views of the loop: `Analysis` says when there is a
tick and for which period, `Command` what it reports, for a tick that may come
after any event.

`SchedState` and `IoState` are two views of `State.tids`: one keeps priorities
and wakeups, the other calls and descriptors. No handler writes a field of one
view from a field of the other, except the pid, which both have.

Mutated forms of some definitions, marked `Mutant` in a comment, stand before
the definitions they mutate. They are used by no specification; each is a
plausible mistake that one of the properties must reject.

## 3. The runs

| Run | Instance | Properties |
|---|---|---|
| `period_engine` | four definitions that match freely, two of them nested below a root; definitions with expressions, three levels deep, with `$parent`, captures, missing and shadowed fields, infinite numbers, NaN and structures, rejected definitions, the old options with two keys; 3 events, 3 periods open at once | `PeriodsNest`, `AcceptedRaiseForValues`, `ChildrenMatchTheirParent`, `LegacyPeriodsPair`, refinement of `PeriodForest`, `AllPeriodsEnd` |
| `analysis` | 4 events; all combinations of refresh period, 0 included, begin and end dates without definitions; dates with a root definition; a named root and child and an anonymous definition | `TickCountsItsInterval`, `RefreshPeriodsTile`, `InsideTimeRange`, `DataMatchesPeriods`, `EveryPeriodTicksOnce`, `ListIsExact`, `StatsMatchList`, `ChildrenAreAttached` |
| `sched_latency` | 2 CPUs, the swapper and 2 threads; complete traces with one latency in a period, incomplete ones with all the filters and two | `LookupsSucceed`, `LatenciesAreDisjoint`, `FirstWakeupStays`, `LatencyExcludesRunning` |
| `cputop` | 2 CPUs, the swapper and 2 threads, with and without filters | `UsageWithinPeriod`, `TidUsageIsExact`, `CpuUsageIsBusyPlusHead` |
| `irq` | 1 CPU, 2 hard interrupts, 2 softirqs | `RaisesAreQueued`, `HandledIsExact` |
| `block` | a volume on a partition on a disk, 2 sectors each, up to 8 events, merges at the back and at the front | `RequestsAreDistinct`, `ReportIsExact`, `RemapsAreLive` |
| `io_trace` | a process that forks, duplicates and executes (1 CPU, 3 calls); one with close-on-exec descriptors and the context of the pid, begun inside a call; two threads of a process (2 CPUs, 2 calls) | `CallsMatch`, `NamesAreRight` |
| `io_analysis` | 2 threads, one process or two, any order of events, several periods | `BytesAreConserved`, `OpenFdsHaveStats` |
| `memory` | 2 threads, one of them kswapd0, 2 CPUs, one of them filtered out, 6 events in any order, entries and exits missing or not | `PagesAreAccounted`, `CallsAreDisjoint` |
| `command` | families of runs, each with all else at its default: conflicting options, modes and bad traces; dates of every form on traces of one and two days, summer time beginning and ending in them, with two versions of Babeltrace; both progress bars; ticks of the seven commands over their options, with empty, single and several values, values at the bounds of a bucket, periods of up to four levels | `ErrorsFail`, `DatesRoundTrip`, `ProgressAdvances`, `ResultsMatchTicks`, `HistogramsAreComplete`, `TopsAreTop`, `GroupingsAgree`, `TicksDoNotFail` |

No run checks the type invariant alone: those of the engine, of scheduling and
of CPU usage are proved (section 5), and elsewhere an ill-typed value makes the
listed properties, or the evaluation of the action, fail. The look-ups of
`IoState` are such: a thread that the program would not find is an error of the
run.

Two more runs exhibit disagreements between the code and what its comments say;
each is a finding in `PROJECT.json`:

- `fd_lookup`: the search of a descriptor by date stops at a descriptor that is
  still open and was opened later (`core/io.py:467`): a file that was closed and
  whose number was used again is not found, and the row of the log has no name;
- `irq_mid_handler`: the exit of a softirq which began before the trace is
  matched with a raise meant for the next one (`linuxautomaton/irq.py:112`).

Bounds and why they are enough. Three events and three open periods contain a
chain of a root, child and grandchild ended at once, by its own expressions or
its ancestor's, and two siblings or roots open at once; more levels repeat the
same recursion. Expressions have every operator, each kind of operand, and
connectives nested twice, so that a validator that looks at one level only is
found out. Four timestamps with refresh periods of 0, 1 and 2 and dates at 0,
1 and 2 put every boundary before, on and after an event, with gaps longer than
a refresh period. Two CPUs and two threads besides the swapper are enough for a
thread to migrate, for a waker to differ from the thread and from the CPU that
switches, and for a lost switch to leave a thread current on two CPUs. Two
softirqs with a raise inside of a handler reach every queue of the code; the
CPUs share nothing there. Three layers are one more than the shortest chain in
which a remapping of a remapping must be found. Two descriptors are enough for a
duplicate to take the place of another one, two or three calls for a descriptor
to be opened, closed and opened again while another thread is in a call, two
`FDStats` in a period for a number to be used twice. Six events let two calls of
one thread, with a page each, follow each other, and kswapd take the CPU in
between. In `command` a second has 2 ns and a day 4 s, so that the carries and a
timezone of one second move a date to another day; the clocks are put back by one
second between two timestamps of a trace, and put forward over one date; a tick without values and
ticks with smaller and greater ones than before, up to three of them, move the
shared bounds both ways; three levels of periods are the most
for which the aggregation counts each once (section 4). Timestamps are bounded by
`MaxTs`, events by `MaxEvents`, ticks by `MaxTicks`, lists by `maxLog` and its
likes, and only in guards: nothing is checked *at* a bound. Symmetry is used for
threads, CPUs and interrupts, which no action tells apart, and only with safety
properties.

Deadlock is not checked: an analysis stops at the end of its trace, or with an
exception, and the bounded traces stop too.

Fairness. `FairEngineSpec` and `FairMatchSpec` require that the next step be taken
(`WF` of the whole next-state relation). A Python program between two events
runs to the end of its handler, and the loop over a finite trace ends; nothing
finer is assumed: which of several possible steps is taken stays free.

## 4. What is only modelled partly, or otherwise worth knowing

- The providers do not follow what they have no event for, and `IoTrace` names
  each case: the calls of a CPU whose current thread is not known yet, an exec
  with a descriptor whose close-on-exec flag was not seen, a state dump of a
  descriptor between the entry of a `dup2` and its effect, a process created while
  another thread of its parent may be in a call that closed or opened a
  descriptor: the child gets what the provider has of the parent
  (`linuxautomaton/sched.py:194-202`), which follows only at the exit of the call.
  These processes are in `missed`, and `NamesAreRight` is about the others. The
  last case needs three threads; the run has two, and the proof of the property
  is what asked for it.
- `accept` is no I/O call here although `io.py:173` handles it; `splice` and
  `sendfile64` are, but reach no request (`io.py:67`). They open, read or write
  nothing in the statistics.
- A descriptor opened before a period is unknown to it: what is read from it is
  dropped (`core/io.py:194`). `OpenFdsHaveStats` is therefore about the first
  period.
- A thread with a descriptor of its own number for which its leader has a closed
  one stops the analysis with AttributeError at the state dump
  (`core/io.py:132`, `ParentNotified`).
- With a begin date the definition-less period exists beside definitions
  (`core/analysis.py:291`), although lines 110-111 say otherwise.
- The first wakeup of a trace without a kernel folder stops the program
  (`linuxautomaton/sched.py:146`, `WakeupWithoutVersion`); so does an end date
  before the first event, in the analysis of CPU usage (`core/cputop.py:69`,
  `FirstEventPastEnd`).
- An aborted period stays in `_current_periods` of `core/periods.py` (lines
  46-47 call it the map of the *active* periods, line 127 forgets the aborted
  ones). It costs memory; `ChildrenAreAttached` shows no other effect.
- A CPU is charged from the beginning of a period to its first switch, idle or
  not (`core/cputop.py:60-62,95-98`). `CpuUsageIsBusyPlusHead` says that this is
  the *only* error on a CPU.
- The thread that leaves a CPU is reported even if `--tid` excludes it
  (`core/cputop.py:121`); `TidUsageIsExact` speaks of the threads that are kept.
- Two raises of one softirq can be pending after a raise inside its handler
  (`linuxautomaton/irq.py:77-87`).
- Two neighbouring entries of one place in the list of remappings: one stays
  when the list is changed while it is walked (`linuxautomaton/block.py:60`).
  `RemapsAreLive` shows that a complete trace never has two.
- A nested hard interrupt replaces the outer one (`linuxautomaton/irq.py:49`).
- A device striped over two disks can have two requests under one key, the device
  and the sector on its disk (`linuxautomaton/block.py:82`): the second replaces
  the first. The layouts checked are linear, and `BlockReports` assumes that all of a
  device is on one disk.
- Of a merge, the provider handles only `block_bio_backmerge`
  (`linuxautomaton/block.py:30-35`). A merge at the front of a request and the merge of
  two requests leave the remapping of what is merged in the list; a later request
  submitted to that place of the disk itself is charged to the volume, though
  the trace is complete. `KernelFrontmerge` does that, and `ReportIsExact` and
  `RemapsAreLive` are about the other places. Requests that complete in parts, that
  are queued again, and bios that are answered without a request are not modelled.
- The statistics of anonymous periods start again whenever one begins: the key is
  tested as `None` and stored as `""` (`core/periods.py:97`). `StatsMatchList` is
  about the named ones.
- The context of the pid makes the first I/O call of a thread replace the Process
  object of its leader, with its pending call and descriptors
  (`linuxautomaton/io.py:349-351`); `io_trace` has the context for a process
  without threads only.
- A begin date of 0 is taken for none (`core/analysis.py:204`).
- Fields are looked up in the payload, event context, stream context, header,
  packet context and packet header (`core/event.py:27-34`); `README.rst` puts the
  header before the stream context. A comparison with a missing field is false,
  `!=` too, as `README.rst` says; `!` of it is true.
- A number with decimals is truncated when the field is an integer
  (`core/period.py:528`): `x < 1.5` is `x < 1`.
- An accepted definition can stop the analysis at an event, by the values it
  compares. The grammar takes a number with any exponent, so that `1e999` is an
  infinite float (`cli/period_parsing.py:41-43,169`), as is a deprecated
  `--period-key-value` of `inf` (`cli/command.py:591`): compared with an integer
  field, `int()` raises (`core/period.py:529`). An order between two structure or
  sequence fields raises TypeError (lines 495-498). `AcceptedRaiseForValues` says
  that there is no other reason.
- The captures of a definition are not validated (`core/period.py:66-102`): one
  that refers to the parent without `$begin` raises at the first event
  (`raised = "capture"`). `--period-captures` without `--period` is ignored
  (`cli/command.py:486`), and an expression is cut at the last slash of the
  argument, inside of a string too (`cli/period_parsing.py:304`).
- A cancelled command exits with 0 and prints nothing in MI mode
  (`cli/command.py:74-76`).
- `ErrorsFail` speaks of the exit status at the end: an invalid definition prints
  its error twice, the second time with the exit (`cli/command.py:537-539`).
- `DatesRoundTrip` excepts `--gmt`: the parser *adds* the timezone, that without
  summer time (`common/parse_utils.py:415`). A printed date does not say whether it
  is in summer time: of an hour that the clocks repeat, `timestamp()` takes the
  first (line 418, PEP 495), so that a date printed in the second is read an hour
  early. A timestamp as an argument is not: `fromtimestamp()` remembers which it was.
  A time of day has the day when the trace began; where clocks are put back
  over midnight, a trace within one day can pass through another. The model has
  one offset and one shift; zones whose offset changes for other reasons behave
  alike at each change. The fold exists since Python 3.6, `setup.py` asks for 3.4. With Babeltrace before 1.4 a time without a day
  raises TypeError (`common/trace_utils.py:123`).
- `--min` and `--max` are µs where a histogram has its own bounds, and the shared
  ones of `--freq-uniform`, or the periods, take them otherwise: such runs are
  excused in `TicksDoNotFail`. The durations of periods are not filtered by them: a
  maximum below all of them makes the step negative, and an index may be out of
  range (`cli/periods.py:1512-1532`). Also excused are a period of no duration that contains
  another one (`cli/periods.py:159`, ZeroDivisionError), groups that do not have
  the same names in a series (lines 1653-1691), and a printed aggregated log
  whose rows are all filtered.
- Top tables of I/O requests have one row more than `--limit`
  (`cli/io.py:917`), where `--help` has "limit to top X" (`cli/command.py:842`) and the
  example of `README.rst` one more; `TopsAreTop` says so. `syscallstats` counts each return value
  once too often (`cli/syscallstats.py:157-160`).
- The aggregation counts what a period contains twice from the fourth level on
  (`cli/periods.py:125-128`, `Copies`); `GroupingsAgree` is about three. In a group the
  count depends on which ancestors were linked first (`GroupCopies`).
- A summary of `cputop` fails if no CPU was ever known, one of `irq` if a tick had
  interrupts of one kind only, and that of I/O is empty (`cli/cputop.py:100`,
  `cli/irq.py:154`, `cli/io.py:255-257`); `ResultsMatchTicks` has these exceptions.
- The requested size of a call is replaced by the returned one
  (`linuxautomaton/sv.py:228`). `kmem_mm_page_free` is not handled by the I/O
  provider under that name, only `mm_page_free` (`linuxautomaton/io.py:39`).

Not modelled, and why: the dispatch of events by name (`sp.py`) and the readers of
Babeltrace, external; the parser of sizes and the check of the fields of a trace,
which are tables; the generated grammar, the bar graphs, the printed layout, the
serialisation to JSON, the packaging: text in or out, without state.

## 5. The proofs

The proofs are checked by TLAPS. They hold for every value of the constants that
the named assumptions allow (any sets of threads, CPUs and priorities, any
filters, any tree of period definitions, any bounds), of which the runs check one.

- `Periods_proof`, the engine: `EngineTypes`, `EngineNests`, `EngineAborts`,
  `EngineIntervals` and `EngineRefines`. The engine handles an event in many
  steps, a period at a time, and the properties hold between any two of them.
  The inductive invariant `EngineInv` therefore says which periods are still to
  end: they are closed under children (`DyingIsClosed`), and each has matched or
  goes with its parent (`DyingHasReason`). `BeginsInOrder` orders the begins along
  a path and puts those of the open periods before the event that ends some of
  them. Of the periods that ended, `Ended`, `WithParent` and `Nested` say what
  `NestedIntervals` and `AbortedWithParent` need while their parents are still
  open or dying. `EngineRefines` is the refinement of `PeriodForest`: `StepRefines`
  maps `BeginPeriod` to `Open`, `EndPeriod` to `Close` and the other handlers to
  a stutter; that a period does not begin again is where its begin, later than
  those of the ended periods, is used (`NewPeriod`).
- `Periods_proof`, the analysis: `AnalysisData`, `AnalysisCounts`,
  `AnalysisReports`, `AnalysisRange` and `AnalysisTiles`. The life cycle calls the
  engine, whose invariant holds inside of it (`EngineSteps`: each step of the analysis
  is one of the engine or none). `LoopInv` says at which stage which event is, as the
  call backs come in the middle; `DataInv`, what the data of each period have
  counted *so far* (`Seen` depends on the stage, `Fed`); `TickInv`, that what was
  reported is over: no later step changes what its interval contains. `RangeInv` and
  `TileInv` add the dates and the refresh periods, in which a step has to be
  compared with the event that was read but not yet analysed.
- `Periods_proof`, the statistics: `StatsRefine`, `StatsList`, `StatsTree` and
  `StatsMatch`. The call backs are conjoined to the engine's steps, so the statistics
  inherit the invariants of the analysis. `ListInv` puts each open or completed
  period in the log once, `TreeInv` dates the ends of children before those of their
  parents (`Clock` says that no end is later than the last event), and `StatsInv`
  says that the total, the least and the greatest duration, of a name and of all, are
  exactly those of the completed periods: a sum over them, and values which one of
  them has and none passes. `MeasuresMore` is the step, one more duration.
- `Periods_proof`, the expressions: `MatchRefines`, `MatchNests`, `MatchAccepted`,
  `MatchChildren` and `MatchLegacy`. The engine that evaluates expressions is one of
  those that match freely, so it inherits their theorems. `MatchInv` adds to the
  engine's invariant that each open period began with an event of the trace that
  its begin expression matched, in the context of its parent's begin event, and
  that nothing raised but a capture or the values compared. That an accepted
  definition raises for its values only is an induction on expressions: `LegalExprs`
  and `Raising` walk the same operands, a legal one does not raise
  (`OperandRaises`), and a comparison of finite numbers and texts does not either. What a comparison says of the
  parent is carried from the begin of the child to every later step by the events that
  the two periods remember. A comparison casts its right operand
  (`core/period.py:528`), so the values are the same *up to the cast* (`Same`). With
  the old options, an open period has met no event that could have ended it since
  it began (`OpenPair`), and one that ended has met the first of them (`EndedPair`).
- `SchedLatency_proof`, the provider: `SchedTypes`, `SchedLookups`, `SchedWakeups` and
  `SchedFirstWakeup`. None of the invariants is inductive alone: that a running
  thread has no wakeup needs that the thread is known, which needs that handlers
  only add threads; that a waker is known needs that the current threads are. The
  inductive invariant `SchedInv` has a part on the Process objects (`Threads`)
  and one on the CPUs (`Current`). A handler is a composition of writes, and one
  lemma per write says that it keeps `Threads` and gives no thread a wakeup
  (`Calm`), which is enough to keep `Current`. While a leader is about to be
  created, `Threads` allows its pid to be unknown. One lemma per handler puts the
  writes together; only the wakeup and the switch change the CPUs.
- `SchedLatency_proof`, the analysis: the same properties for `LatencySpec`, the specification
  the run checks, and `LatenciesDisjoint`. `LogInv` adds that a pending wakeup
  is not before the last switch logged for its thread: this is where it matters
  that a switch consumes the wakeup. `LatencyExcludes` compares with the kernel:
  `StopInv` says that a wakeup is never before the last time its thread stopped,
  which a switch keeps because a thread that was running has none.
- `Cputop_proof`: `CputopTypes`, `CputopBounded`, `CputopTidsExact` and
  `CputopCpusExact`. What is reported,
  `total + (now - start)`, is added to the total at a switch, so the bound by
  itself is not kept; the inductive form, `Fits`, says that the total of a
  running counter fits in the period before its start. With a complete trace
  `Exact` says what a counter has when it is running, stopped, or not there yet.
- `Providers_proof`, the interrupts: `IrqRaisesQueued` and `IrqHandledExact`. `Queue` adds to the order of a list that
  all of it is in the past, and that all but its head have a raise and no begin:
  an exit uncovers a softirq which has not begun, so that the next raise of its
  vector is ignored. One lemma per thing the provider does to a list says that it
  stays a `Queue`. With a complete trace the head of the list of what the kernel
  handles is what it entered, and the kernel enters nothing before it leaves that.
- `BlockState_proof`: `BlockRequestsDistinct`, `BlockRemaps` and `BlockReports`. `Dated`
  says that the issue dates are not in the future, which makes the date of a new
  request a fresh one. `KernelInv` is about the bios alone: two are never at one
  place, and each is below where it began, in the order of the layers. What a merge that the
  provider does not handle has left is at `strays`, places on a disk, and the invariants
  are about the other entries. With it the
  walks of the list are exact: no two entries are at one place (`ListInv`), so
  none hides behind a neighbour. `BlockReports` has the hypothesis `OneDisk`: the
  pending requests are kept by the volume and the sector of the *disk*
  (`linuxautomaton/block.py:82`), and with a striped volume two of them are
  under one key (section 4).
- `Providers_proof`, memory and calls: `MemPages` and `MemCalls`. A request has the allocations since it
  began, which each event keeps; the pages in use and those freed, a sum over the
  threads, change together. For the calls, `StatsInv` says that those of a thread
  ended before its pending one began, and `Measured` that the least, the greatest
  and the sum are those of the list.
- `Io_proof`, the analysis: `IoOpenFds` and `IoBytes`. An event is a composition of
  writes, to the processes and to the statistics; lemmas say of each write what
  becomes of the descriptors and by how much the bytes of a thread exceed those of
  its descriptors. `Balance`, the sum of these differences, is `dropped` in every
  state (`StatsInv`); `OpenInv` is inductive with `ProcsInv`, since the descriptors of
  a call must be known for the event of its exit.
- `Io_proof`, the calls of the kernel: `IoCalls`. `TraceInv` says that a CPU of which
  the automaton knows the current thread has the right one, that what it does
  not know is in calls whose entry it did not see, and that the pending call of a
  live thread is the kernel's. It has two hypotheses: `NoneIsNoRecord`, of the model's
  value for nothing, and `ContextOfLeaders`, that there is the context of the pid
  only in traces of processes without threads, as in the run: with threads
  the first call of each loses the one in which its leader is
  (`linuxautomaton/io.py:351`), and the property is false.
- `Io_proof`, the names of the kernel's descriptors: `IoNames`, with the same
  hypotheses. The property says nothing of a process while a call has taken effect
  and not returned; the inductive `NamesInv` does. `Right` says that before the effect
  the descriptors are right and the request names the file which the call will
  open (`Pending`; for `dup2`, that the new number is free), and after it that what the
  exit will leave (`Final`) is right. `RightDo` goes through the outcomes of each
  call; `KeepRight` says that an event of another process changes nothing of this
  one, for which `PidsInv` says that a thread's leader is never another process.
- `DataTheorems`: the lemmas on data that these proofs share. `SumPut`, `SumUnion`,
  `SumMinus`, `SumZero` and others say what happens to a sum over a finite
  set when an element comes, goes or changes; others are about lists that lose or
  gain an element. The sum of the community modules is a fold, defined by recursion
  on subsets of which any element may be taken first. That it exists and does not
  depend on the choice is shown without the induction theorems of the
  library, whose parameters are operators: the set of the subsets for which the
  claim fails would have a minimal element (`MinimalSubset`), which
  well-foundedness gives.
  Recursive functions on expressions are shown to exist in the same way, by the
  least depth of an expression for which they would not (`LeastDepth`, `Recursion`).
- `Command_proof`, the dates: `FullDatesRoundTrip`, `TimesRoundTrip` and `RangesRoundTrip`
  about the functions, and `CommandDates` about the command. What
  a user pastes from the output of a command into `--begin`, `--end` or
  `--timerange` names the first timestamp that is printed so (`FirstAlike`), which is the
  same nanosecond but in an hour that summer time repeats. `PrintedFields` is the
  quotient and remainder of a timestamp, `PrintedAlike` that they determine what is
  printed, `ReadLocal` that a local time is read as its least instant, `OnlyMatch` says that one parser only
  accepts what is printed, and a time without a date gets the day when the trace began, which is the
  timestamp's by the hypothesis. `DatesInv` says that a command past the
  opening of its trace has the dates of its arguments, and that these were accepted.
- `Command_proof`, the histograms: `BucketHoldsItsValues` and `CountingDoesNotFail`. The index of
  a bucket is a quotient; the bounds of the quotient put the value between those
  of the bucket. `SharedBoundsHold` and `OwnBoundsHold` say that the bounds which the program
  computes, where none are given, enclose the values: those of the list itself
  (`RangeHolds`, from `LeastAndGreatest`), and with `--freq-uniform` the ones that all
  lists so far share, which every tick can widen. The division is that of integers:
  the rounding of the floats that the code divides is not part of the theorems.
- `Command_proof`, the output: `CommandErrors` and `CommandResults`. Every step either goes on
  (`Goes`: it tells no error and leaves the status alone) or ends the command (`Ends`: it
  tells an error if and only if the status is not 0, and prints no results).
  `SoundChecks` says so of the list of checks of a step, whichever fails first. The
  inductive `OutputInv` adds that there is no error before the end, and no results
  before the trace is closed.
- `Command_proof`, the progress: `CommandProgress`. What was shown is a fraction of what
  was read (`MayShow`) and what was read only grows (`Advances`), but for an end date
  before the beginning of the trace, where the maximum is negative and the
  progress is at its end after the first event: there, only 0 and 1 can have
  been shown. By time, this needs that the timestamps grow and are not before the
  trace's beginning; that the end is a date needs `DatesInv`.

The theorems about consistency hold of complete and incomplete traces alike: the
kernel's side of the models (`running`, `ran`, `busy`, `stopped`, `calls`) plays no part
in them. Those which compare the program with the kernel (`LatencyExcludes`,
`CputopTidsExact`, `CputopCpusExact`, `IrqHandledExact`, `BlockRemaps`, `BlockReports`,
`IoCalls`, `IoNames`) have a part of the inductive invariant about the kernel itself, and are
about complete traces, as their properties say.

What the proofs assume of the constants is in the named assumptions, which TLC
evaluates for each run: that the value for nothing is no thread, number or record,
that bounds are numbers, that the layers of the block devices are ordered
(`BlockAssumption`), that options exclude each other as the command line does
(`RefreshAssumption` in `Analysis`), that expressions are finite trees
(`ExprsAssumption`), that an event has a name and typed fields (`EventsAssumption`), that infinity and NaN
are no integers (`FloatsAssumption`), that the
timestamps of a trace are between its begin and its end (`RunsAssumption`). Nothing else is assumed but the hypotheses of
`BlockReports`, `IoCalls` and `IoNames`.

Only model-checked:

- `AllPeriodsEnd`: liveness is out of the prover's reach, as is `ENABLED`;
- `ResultsMatchTicks` (but for `ResultsOnce`), `HistogramsAreComplete`, `TopsAreTop`,
  `GroupingsAgree` and `TicksDoNotFail`: they say what the tables of a report are, for
  any data. The tables are made by `SelectSeq`, `SortSeq`, `SetToSortSeq` and folds. The prover
  has `SelectSeq` without a definition; of the others the library has only
  theorems that take an operator as a parameter, and `SortSeq` chooses a
  permutation. The lemmas would be inductions over the data, one for each test
  and each order. What the tables rest on, the bounds of a histogram and the
  bucket of a value, is proved;
- the two properties of the runs that expect a violation.

## 6. What could follow

1. The refinement of an abstract table of descriptors, over the invariant of
   `IoNames`.
2. `Command` and `Analysis` in one specification: the ticks of the engine's periods
   reported by the reports, with the data which the providers accumulate.
3. The dispatch of events to several providers as a list that an action walks.

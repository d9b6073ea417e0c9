------------------------------- MODULE Cputop -------------------------------
(***************************************************************************)
(* The CPU usage analysis (core/cputop.py): the usage time of each CPU and *)
(* each thread over one period, from the notifications that the scheduling *)
(* provider sends (see SchedState).                                        *)
(*                                                                         *)
(* The kernel is the environment: `running` is what the CPUs really run.   *)
(* In a lossless trace every switch is an event; otherwise any switch can  *)
(* be notified next and the kernel's side is left alone.  The variables    *)
(* ran, busy and idleHead are histories of what really happened since the  *)
(* period began.                                                           *)
(***************************************************************************)
EXTENDS Integers

CONSTANTS Cpus, Tids,
          Swapper,        \* thread id 0
          None,
          Confs,          \* --cpu, --tid, --end; is the trace lossless?
          MaxTs           \* bound: greatest timestamp

ASSUME CputopAssumption ==
    /\ Swapper \in Tids
    /\ None \notin Nat
    /\ Confs \subseteq [cpus : SUBSET Cpus, tids : SUBSET Tids,
                        end : Nat \cup {None}, lossless : BOOLEAN]
    /\ MaxTs \in Nat

VARIABLES conf,           \* AnalysisConfig, and the kind of trace
          now,            \* timestamp of the event being processed
          lastTs,         \* last_event_ts of the analysis
          begin,          \* period_begin_ts
          cpus,           \* CpuUsageStats by CPU
          tids,           \* ProcessCpuStats by thread
          state,          \* "ready", "running", "done", "failed"
          running,        \* kernel: the thread on each CPU
          ran,            \* kernel: time each thread ran, on the kept CPUs
          busy,           \* kernel: time each CPU ran a thread kept
          idleHead        \* kernel: time it did not, before its first switch

statVars   == <<cpus, tids>>
kernelVars == <<running, ran, busy, idleHead>>
cputopVars == <<conf, now, lastTs, begin, state, statVars, kernelVars>>

NewCpu == [total |-> 0, start |-> begin]
NewTid(last, prio) == [total |-> 0, last |-> last, prio |-> prio]

Put(f, k, v) == [x \in DOMAIN f \cup {k} |-> IF x = k THEN v ELSE f[x]]
Ensure(f, k, v) == IF k \in DOMAIN f THEN f ELSE Put(f, k, v)

\* _filter_process(): the swapper is excluded.
Keeps(t) == t # Swapper /\ t \in conf.tids

\* Time since ts, nothing if None.
Since(ts, t) == IF ts = None THEN 0 ELSE t - ts

-----------------------------------------------------------------------------
\* Mutant: the idle time is charged.
SwitchBusyCpu(ts, c, next) ==
    LET seen == Ensure(cpus, c, NewCpu)
    IN [seen EXCEPT ![c] = [total |-> @.total + Since(@.start, ts), start |-> ts]]

\* _process_sched_switch_per_cpu()
SwitchCpu(ts, c, next) ==
    LET seen == Ensure(cpus, c, NewCpu)
    IN [seen EXCEPT ![c] = [total |-> @.total + Since(@.start, ts),
                            start |-> IF Keeps(next) THEN ts ELSE None]]

\* Mutants: the previous thread is still on the CPU; it is not charged when it
\* was never seen.
ChargedOnCpu(ts, prev) ==
    LET seen == Ensure(tids, prev, NewTid(begin, None))
    IN [seen EXCEPT ![prev].total = @ + Since(seen[prev].last, ts)]

ChargedIfSeen(ts, prev) ==
    LET seen == Ensure(tids, prev, NewTid(None, None))
    IN [seen EXCEPT ![prev].total = @ + Since(seen[prev].last, ts),
                    ![prev].last  = None]

\* _process_sched_switch_per_tid(): the previous thread is charged, from the
\* beginning of the period when it was never seen.
Charged(ts, prev) ==
    LET seen == Ensure(tids, prev, NewTid(begin, None))
    IN [seen EXCEPT ![prev] = [total |-> @.total + Since(@.last, ts),
                               last |-> None, prio |-> @.prio]]

\* ... then the next thread is on the CPU, unless it is filtered out.
SwitchTid(ts, prev, next, prio) ==
    IF Keeps(next)
      THEN [Ensure(Charged(ts, prev), next, NewTid(None, prio))
              EXCEPT ![next].last = ts]
      ELSE Charged(ts, prev)

\* Time passes in the kernel until ts.  Nothing is said of it when the trace
\* is not complete.
Elapse(ts) ==
    IF ~conf.lossless THEN UNCHANGED <<ran, busy, idleHead>> ELSE
    /\ ran' = [t \in Tids |->
                 ran[t] + (IF \E c \in conf.cpus : running[c] = t /\ t # Swapper
                             THEN ts - now ELSE 0)]
    /\ busy' = [c \in Cpus |->
                  busy[c] + (IF Keeps(running[c]) THEN ts - now ELSE 0)]
    /\ idleHead' = [c \in Cpus |->
                      idleHead[c] + (IF c \in DOMAIN cpus \/ Keeps(running[c])
                                       THEN 0 ELSE ts - now)]

\* An event of the trace reaches the analysis, then the automaton.
At(ts) ==
    /\ state = "running"
    /\ now <= ts
    /\ now' = ts
    /\ lastTs' = ts
    /\ UNCHANGED <<conf, state>>

\* A thread runs on one CPU at a time.
Runnings ==
    {r \in [Cpus -> IF conf.lossless THEN Tids ELSE {Swapper}] :
        \A c, d \in Cpus : r[c] = r[d] => c = d \/ r[c] = Swapper}

CputopInit ==
    /\ conf \in Confs
    /\ now \in 0 .. MaxTs
    /\ begin = now
    /\ lastTs = None
    /\ cpus = [c \in {} |-> NewCpu]
    /\ tids = [t \in {} |-> NewTid(None, None)]
    /\ state = "ready"
    /\ running \in Runnings
    /\ ran = [t \in Tids |-> 0]
    /\ busy = [c \in Cpus |-> 0]
    /\ idleHead = [c \in Cpus |-> 0]

\* The first event begins the period (begin = now); it is processed if it is
\* not after the end date.
FirstEvent ==
    /\ state = "ready"
    /\ conf.end # None => now <= conf.end
    /\ state' = "running"
    /\ lastTs' = now
    /\ UNCHANGED <<conf, now, begin, statVars, kernelVars>>

\* The first event is after the end date: the period it began ends without a
\* last timestamp to subtract from (_compute_stats(), cputop.py:69).
FirstEventPastEnd ==
    /\ state = "ready"
    /\ conf.end # None
    /\ now > conf.end
    /\ state' = "failed"
    /\ UNCHANGED <<conf, now, lastTs, begin, statVars, kernelVars>>

\* sched_switch, notified per CPU then per thread.
Switch(ts, c, prev, next, prio) ==
    /\ At(ts)
    /\ prev # next
    /\ conf.lossless =>
         /\ prev = running[c]
         /\ \A d \in Cpus \ {c} : running[d] # next \/ next = Swapper
    /\ IF c \in conf.cpus
         THEN cpus' = SwitchCpu(ts, c, next) /\ tids' = SwitchTid(ts, prev, next, prio)
         ELSE UNCHANGED statVars
    /\ Elapse(ts)
    /\ running' = IF conf.lossless THEN [running EXCEPT ![c] = next] ELSE running
    /\ UNCHANGED begin

\* _process_sched_migrate_task() creates the statistics of the thread, which
\* does not run.
Migrate(ts, c, t) ==
    /\ At(ts)
    /\ conf.lossless => \A d \in Cpus : running[d] # t
    /\ tids' = IF Keeps(t) /\ c \in conf.cpus
                 THEN Ensure(tids, t, NewTid(None, None)) ELSE tids
    /\ Elapse(ts)
    /\ UNCHANGED <<begin, cpus, running>>

\* _process_prio_changed()
PrioChanged(ts, t, prio) ==
    /\ At(ts)
    /\ tids' = IF t \in DOMAIN tids THEN [tids EXCEPT ![t].prio = prio]
                                    ELSE tids
    /\ Elapse(ts)
    /\ UNCHANGED <<begin, cpus, running>>

\* An event ends the period and begins the next one, with fresh statistics.
NextPeriod(ts) ==
    /\ At(ts)
    /\ begin' = ts
    /\ cpus' = [c \in {} |-> NewCpu]
    /\ tids' = [t \in {} |-> NewTid(None, None)]
    /\ ran' = [t \in Tids |-> 0]
    /\ busy' = [c \in Cpus |-> 0]
    /\ idleHead' = [c \in Cpus |-> 0]
    /\ UNCHANGED running

\* The analysis ends; the last period is reported.
Finish ==
    /\ state = "running"
    /\ state' = "done"
    /\ UNCHANGED <<conf, now, lastTs, begin, statVars, kernelVars>>

CputopNext ==
    \/ FirstEvent
    \/ FirstEventPastEnd
    \/ \E ts \in 0 .. MaxTs :
         \/ \E c \in Cpus, prev, next \in Tids : Switch(ts, c, prev, next, 20)
         \/ \E c \in Cpus, t \in Tids \ {Swapper} : Migrate(ts, c, t)
         \/ \E t \in Tids \ {Swapper} : PrioChanged(ts, t, 10)
         \/ NextPeriod(ts)
    \/ Finish

CputopSpec == CputopInit /\ [][CputopNext]_cputopVars

-----------------------------------------------------------------------------
\* What _compute_stats() reports of a CPU and of a thread if the period ends
\* with the current event.
CpuUsage(c) == cpus[c].total + Since(cpus[c].start, now)
TidUsage(t) == tids[t].total + Since(tids[t].last, now)
Duration == now - begin

\* Type invariant of the usage statistics.
CputopTypeOK ==
    /\ now \in Nat
    /\ begin \in Nat
    /\ lastTs \in Nat \cup {None}
    /\ state \in {"ready", "running", "done", "failed"}
    /\ DOMAIN cpus \subseteq Cpus
    /\ \A c \in DOMAIN cpus :
         cpus[c].total \in Nat /\ cpus[c].start \in Nat \cup {None}
    /\ DOMAIN tids \subseteq Tids
    /\ \A t \in DOMAIN tids :
         tids[t].total \in Nat /\ tids[t].last \in Nat \cup {None}
    /\ running \in [Cpus -> Tids]

\* No CPU and no thread is reported above 100 % of the period, whatever
\* switches the trace has lost and whatever is filtered.
UsageWithinPeriod ==
    /\ \A c \in DOMAIN cpus : CpuUsage(c) \in 0 .. Duration
    /\ \A t \in DOMAIN tids : TidUsage(t) \in 0 .. Duration

\* With a complete trace a thread that the filters keep is charged exactly
\* the time it ran on the kept CPUs during the period, even when it was
\* already running at the beginning or is still running at the end.  One that
\* is not reported did not run, or has not left its CPU since the beginning.
TidUsageIsExact ==
    conf.lossless =>
        \A t \in conf.tids \ {Swapper} :
            IF t \in DOMAIN tids THEN TidUsage(t) = ran[t]
            ELSE ran[t] > 0 => \E c \in conf.cpus : running[c] = t

\* With a complete trace the only error on a CPU is the time before its first
\* switch of the period, which is charged whatever the CPU did.
CpuUsageIsBusyPlusHead ==
    conf.lossless =>
      \A c \in DOMAIN cpus : CpuUsage(c) = busy[c] + idleHead[c]
=============================================================================

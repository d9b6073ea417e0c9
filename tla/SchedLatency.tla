---------------------------- MODULE SchedLatency ----------------------------
(***************************************************************************)
(* The scheduling latency analysis (core/sched.py): each switch to a       *)
(* thread with a pending wakeup is logged, with the time since the wakeup. *)
(* It listens to the provider of SchedState, inside sched_switch and       *)
(* before the pending wakeup is reset (linuxautomaton/sched.py:119-122).   *)
(*                                                                         *)
(* The kernel is the environment: in a lossless trace every switch of      *)
(* `running` is an event; otherwise any event can come next and the        *)
(* kernel's side is left alone.  `stopped` tells when a thread last left a *)
(* CPU, and whether that was the first switch seen of this CPU.            *)
(* The minima, maxima and totals of the analysis are sums over its list    *)
(* and are left out.                                                       *)
(***************************************************************************)
EXTENDS SchedState, Sequences

CONSTANT Confs            \* --cpu, --tid, --min, --max; is the trace lossless?
                          \* and a bound: the latencies logged in a period

ASSUME LatencyAssumption ==
    \A f \in Confs :
         /\ f.cpus \subseteq Cpus
         /\ f.tids \subseteq Tids
         /\ f.min \in Nat \cup {None}
         /\ f.max \in Nat \cup {None}
         /\ f.lossless \in BOOLEAN
         /\ f.maxLog \in Nat

VARIABLES conf,           \* AnalysisConfig, and the kind of trace
          schedList,      \* sched_list of the current period
          reported,       \* threads with statistics in the current period
          running,        \* kernel: the thread on each CPU
          stopped         \* kernel: when each thread last left a CPU

latencyVars == <<schedVars, conf, schedList, reported, running, stopped>>

NeverStopped == [ts |-> None, first |-> FALSE]

-----------------------------------------------------------------------------
LatencyInit ==
    /\ SchedInit
    /\ conf \in Confs
    /\ schedList = << >>
    /\ reported = {}
    /\ running \in {r \in [Cpus -> IF conf.lossless THEN Tids ELSE {Swapper}] :
          \A c, d \in Cpus : r[c] = r[d] => c = d \/ r[c] = Swapper}
    /\ stopped = [t \in Tids |-> NeverStopped]

\* The tests of _process_sched_switch() on a switch to t, woken up at w.
Kept(c, t, w, ts) ==
    /\ t \in conf.tids
    /\ c \in conf.cpus
    /\ w # None
    /\ conf.min # None => ts - w >= conf.min
    /\ conf.max # None => ts - w <= conf.max

\* The pending wakeup and waker of the next thread, when it is notified.
PendingOf(t) == IF t \in DOMAIN tids THEN tids[t] ELSE Process(None, None)

LogSwitch(ts, c, t) ==
    LET p == PendingOf(t) IN
    IF Kept(c, t, p.lastWakeup, ts)
      THEN /\ Len(schedList) < conf.maxLog
           /\ schedList' = Append(schedList,
                 [wakeup |-> p.lastWakeup, switch |-> ts, wakee |-> t,
                  waker |-> p.lastWaker, cpu |-> c])
           /\ reported' = reported \cup {t} \cup ({p.lastWaker} \ {None})
      ELSE UNCHANGED <<schedList, reported>>

\* The kernel's side of a switch, when the trace is complete.
KernelSwitch(ts, c, prev, next) ==
    /\ prev = running[c]
    /\ \A d \in Cpus \ {c} : running[d] # next \/ next = Swapper
    /\ running' = [running EXCEPT ![c] = next]
    /\ stopped' = [stopped EXCEPT ![prev] =
                     [ts |-> ts, first |-> \/ c \notin DOMAIN cpus
                                           \/ cpus[c] # prev]]

Switch(ts, c, prev, p, next, q) ==
    /\ SchedSwitch(ts, c, prev, p, next, q)
    /\ LogSwitch(ts, c, next)
    /\ IF conf.lossless THEN KernelSwitch(ts, c, prev, next)
                        ELSE UNCHANGED <<running, stopped>>
    /\ UNCHANGED conf

\* A process identifier is not given again while a thread runs with it.
Fork(ts, child, pid, parent) ==
    /\ SchedFork(ts, child, pid, parent)
    /\ conf.lossless => \A c \in Cpus : running[c] # child
    /\ stopped' = [stopped EXCEPT ![child] = NeverStopped]
    /\ UNCHANGED <<conf, schedList, reported, running>>

\* An event ends the period and begins the next one; the state remains.
NextPeriod(ts) ==
    /\ At(ts)
    /\ schedList # << >>
    /\ schedList' = << >>
    /\ reported' = {}
    /\ UNCHANGED <<conf, tids, cpus, fault, running, stopped>>

\* The analysis has no call back for the other events, except prio_changed.
OtherEvent(ts) ==
    \/ \E t \in Tids \ {Swapper}, p \in Prios : SchedMigrate(ts, t, p)
    \/ \E here, target \in Cpus, t \in Tids \ {Swapper} :
          WakeupIgnored(ts, here, target, t)
    \/ \E here, target \in Cpus, t \in Tids \ {Swapper}, p \in Prios :
          SchedWakeup(ts, here, target, t, p)
    \/ WakeupWithoutVersion(ts)
    \/ \E t \in Tids \ {Swapper} : SchedExec(ts, t)
    \/ \E t \in Tids, p \in Prios : SchedPiSetprio(ts, t, p)
    \/ \E t \in Tids : PiSetprioOfUnknown(ts, t)
    \/ \E t, pid \in Tids \ {Swapper}, p \in Prios \cup {None} :
          StatedumpProcess(ts, t, pid, p)
    \/ \E c \in Cpus, pid \in Tids \ {Swapper} : FixContextPid(ts, c, pid)

LatencyNext ==
    \E ts \in 0 .. MaxTs :
       \/ \E c \in Cpus, prev, next \in Tids, p, q \in Prios :
             Switch(ts, c, prev, p, next, q)
       \/ \E child, pid, parent \in Tids \ {Swapper} :
             child # parent /\ Fork(ts, child, pid, parent)
       \/ NextPeriod(ts)
       \/ OtherEvent(ts) /\ UNCHANGED <<conf, schedList, reported, running,
                                       stopped>>

LatencySpec == LatencyInit /\ [][LatencyNext]_latencyVars

-----------------------------------------------------------------------------
\* Type invariant of the latency analysis.
LatencyTypeOK ==
    /\ SchedTypeOK
    /\ schedList \in Seq([wakeup : Nat, switch : Nat, wakee : Tids,
                          waker : Tids \cup {None}, cpu : Cpus])
    /\ reported \subseteq Tids

\* The latencies logged for a thread are not negative and do not overlap: a
\* wakeup is counted at most once, whatever events the trace has lost.  A
\* latency names a waker only if it is another thread, and both have
\* statistics in the period.
LatenciesAreDisjoint ==
    \A i \in DOMAIN schedList :
        LET e == schedList[i] IN
        /\ e.wakeup <= e.switch
        /\ \A j \in DOMAIN schedList :
             i < j /\ schedList[j].wakee = e.wakee => e.switch <= schedList[j].wakeup
        /\ e.waker # e.wakee
        /\ {e.wakee, e.waker} \subseteq reported \cup {None}

\* With a complete trace a latency about to be logged does not cover time
\* during which the thread ran: it was woken up after it had last left a CPU.
\* The exception is a thread that was already running when the trace began,
\* of which the automaton does not know that it runs.
LatencyExcludesRunning ==
    [][\A c \in Cpus :
         LET t == running'[c] IN
         Len(schedList') > Len(schedList) /\ running[c] # t /\ conf.lossless =>
            LET e == schedList'[Len(schedList')] IN
            \/ stopped[t].ts = None
            \/ stopped[t].first
            \/ stopped[t].ts <= e.wakeup]_latencyVars
=============================================================================

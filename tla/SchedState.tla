----------------------------- MODULE SchedState -----------------------------
(***************************************************************************)
(* The scheduling part of the automaton's state: the CPUs and their        *)
(* current threads, the Process objects and their pending wakeups          *)
(* (linuxautomaton/sched.py), with the other providers' writes to the same *)
(* fields (statedump.py:52-88, io.py:333-351).                             *)
(*                                                                         *)
(* The trace is the environment.  A tracer may discard events and a trace  *)
(* may begin at any point, so any event can come next, with any fields a   *)
(* kernel could have recorded.                                             *)
(***************************************************************************)
EXTENDS Integers

CONSTANTS Tids,           \* thread ids, the swapper's included
          Swapper,        \* thread id 0
          Cpus,
          Prios,          \* priorities
          None,
          Versions,       \* tracer versions to consider, None: not known
          MaxTs           \* bound: greatest timestamp

ASSUME SwapperAssumption == Swapper \in Tids
ASSUME PriosAssumption == Prios \subseteq Int
ASSUME MaxTsAssumption == MaxTs \in Nat
ASSUME NoneAssumption == None \notin Tids \cup Int
ASSUME VersionsAssumption == Versions \subseteq {"old", "fixed", None}

VARIABLES tids,           \* State.tids: Process objects by thread id
          cpus,           \* State.cpus: current_tid by CPU
          now,            \* timestamp of the last event
          version,        \* State.tracer_version
          fault           \* the exception which stopped the program

schedVars == <<tids, cpus, now, version, fault>>

Process(pid, prio) ==
    [pid |-> pid, prio |-> prio, lastWakeup |-> None, lastWaker |-> None]

Put(f, k, v) == [x \in DOMAIN f \cup {k} |-> IF x = k THEN v ELSE f[x]]

\* `if tid not in self._state.tids: self._state.tids[tid] = proc`
Ensure(f, t, proc) == IF t \in DOMAIN f THEN f ELSE Put(f, t, proc)

\* _create_proc()
CreateProc(f, t) ==
    Ensure(f, t, Process(IF t = Swapper THEN Swapper ELSE None, None))

\* _check_prio_changed() of a thread which exists.
SetPrio(f, t, prio) ==
    IF t = Swapper THEN f ELSE [f EXCEPT ![t].prio = prio]

\* Before lttng-modules 2.7.1 the sched_wak* events had an offset.
WakeupPrio(prio) == IF version = "old" THEN prio - 100 ELSE prio

\* Mutant: nobody looks at what the CPUs execute.
NeverCurrent(t) == FALSE

IsCurrent(t) == \E c \in DOMAIN cpus : cpus[c] = t

-----------------------------------------------------------------------------
SchedInit ==
    /\ tids = [t \in {} |-> Process(None, None)]
    /\ cpus = [c \in {} |-> None]
    /\ now \in 0 .. MaxTs
    /\ version \in Versions
    /\ fault = "none"

\* An event is handled, at timestamp ts.
At(ts) ==
    /\ fault = "none"
    /\ now <= ts
    /\ now' = ts
    /\ UNCHANGED version

\* An event whose handler raises an exception: _run_step() reports the error
\* and the program exits.
Fails(ts, exception) ==
    /\ At(ts)
    /\ fault' = exception
    /\ UNCHANGED <<tids, cpus>>

CurrentOf(next) == IF next = Swapper THEN None ELSE next

\* The Process objects when the notifications of sched_switch are sent.
Switched(prev, prevPrio, next, nextPrio) ==
    SetPrio(SetPrio(CreateProc(CreateProc(tids, prev), next), prev, prevPrio),
            next, nextPrio)

\* Mutant: the wakeup stays after the switch.
WakeupKept(f, t) == f

\* The wakeup of the thread which gets a CPU is consumed.
WakeupConsumed(f, t) ==
    [f EXCEPT ![t].lastWakeup = None, ![t].lastWaker = None]

\* _process_sched_switch()
SchedSwitch(ts, c, prev, prevPrio, next, nextPrio) ==
    /\ At(ts)
    /\ prev # next
    /\ cpus' = Put(cpus, c, CurrentOf(next))
    /\ tids' = WakeupConsumed(Switched(prev, prevPrio, next, nextPrio), next)
    /\ UNCHANGED fault

\* _process_sched_migrate_task()
SchedMigrate(ts, t, prio) ==
    /\ At(ts)
    /\ tids' = SetPrio(Ensure(tids, t, Process(None, None)), t, prio)
    /\ UNCHANGED <<cpus, fault>>

\* The CPUs of a wakeup exist afterwards.
WithCpus(target, here) ==
    [c \in DOMAIN cpus \cup {target, here} |->
        IF c \in DOMAIN cpus THEN cpus[c] ELSE None]

\* _process_sched_wakeup() of the thread that a CPU executes.
WakeupIgnored(ts, here, target, t) ==
    /\ At(ts)
    /\ version # None
    /\ IsCurrent(t)
    /\ cpus' = WithCpus(target, here)
    /\ UNCHANGED <<tids, fault>>

\* Mutant: the last of several wakeups is recorded.
LastWakeup(f, t, ts, waker) ==
    [f EXCEPT ![t].lastWakeup = ts,
              ![t].lastWaker = IF waker # None THEN waker ELSE @]

\* Only the first of several wakeups is recorded.
FirstWakeup(f, t, ts, waker) ==
    IF f[t].lastWakeup # None THEN f
    ELSE [f EXCEPT ![t].lastWakeup = ts,
                   ![t].lastWaker = IF waker # None THEN waker ELSE @]

\* _process_sched_wakeup(): the waker is the thread that runs where the event
\* occurs.
SchedWakeup(ts, here, target, t, prio) ==
    /\ At(ts)
    /\ version # None
    /\ ~IsCurrent(t)
    /\ cpus' = WithCpus(target, here)
    /\ tids' = FirstWakeup(SetPrio(Ensure(tids, t, Process(None, None)), t,
                                   WakeupPrio(prio)), t, ts, cpus'[here])
    /\ UNCHANGED fault

\* _process_sched_wakeup() of a trace whose tracer version was not read:
\* State has no attribute tracer_version.
WakeupWithoutVersion(ts) ==
    /\ version = None
    /\ Fails(ts, "AttributeError")

\* _process_sched_process_fork(): the child replaces any older Process of
\* its tid.  The parent which is looked up is the leader of its process.
\* The child is a thread of that process or the leader of a new one.
SchedFork(ts, child, childPid, parentPid) ==
    /\ At(ts)
    /\ childPid \in {child, parentPid}
    /\ tids' = Put([Ensure(tids, parentPid, Process(parentPid, None))
                      EXCEPT ![parentPid].pid = parentPid],
                   child, Process(childPid, None))
    /\ UNCHANGED <<cpus, fault>>

\* _process_sched_process_exec()
SchedExec(ts, t) ==
    /\ At(ts)
    /\ tids' = Ensure(tids, t, Process(None, None))
    /\ UNCHANGED <<cpus, fault>>

\* _process_sched_pi_setprio(): the thread must be known.
SchedPiSetprio(ts, t, prio) ==
    /\ At(ts)
    /\ t \in DOMAIN tids \cup {Swapper}
    /\ tids' = SetPrio(tids, t, prio)
    /\ UNCHANGED <<cpus, fault>>

PiSetprioOfUnknown(ts, t) ==
    /\ t \notin DOMAIN tids \cup {Swapper}
    /\ Fails(ts, "KeyError")

\* A process state of the statedump gives the pid of a thread, and its
\* priority if the scheduler has not.
Dumped(f, t, pid, prio) ==
    [f EXCEPT ![t] =
        [f[t] EXCEPT !.pid = pid,
                     !.prio = IF f[t].prio = None THEN prio ELSE f[t].prio]]

\* Mutant: the leader of the process is not created.
StatedumpThread(ts, t, pid, prio) ==
    /\ At(ts)
    /\ tids' = Dumped(Ensure(tids, t, Process(None, None)), t, pid, prio)
    /\ UNCHANGED <<cpus, fault>>

\* lttng_statedump_process_state: a thread comes with the leader of its
\* process.
StatedumpProcess(ts, t, pid, prio) ==
    /\ At(ts)
    /\ tids' = Ensure(Dumped(Ensure(tids, t, Process(None, None)), t, pid, prio),
                      pid, Process(pid, None))
    /\ UNCHANGED <<cpus, fault>>

\* _fix_context_pid(): the pid of the current thread, when it is not known,
\* is taken from the context of an I/O event.  A new Process object takes
\* the place of the leader's.
FixContextPid(ts, c, pid) ==
    /\ At(ts)
    /\ c \in DOMAIN cpus
    /\ cpus[c] # None
    /\ tids[cpus[c]].pid = None
    /\ LET t == cpus[c]
           named == [tids EXCEPT ![t].pid = pid]
       IN tids' = IF pid = t THEN named
                             ELSE Put(named, pid, Process(pid, tids[t].prio))
    /\ UNCHANGED <<cpus, fault>>

SchedEvent(ts) ==
    \/ \E c \in Cpus, prev, next \in Tids, p, q \in Prios :
          SchedSwitch(ts, c, prev, p, next, q)
    \/ \E t \in Tids \ {Swapper}, p \in Prios : SchedMigrate(ts, t, p)
    \/ \E here, target \in Cpus, t \in Tids \ {Swapper} :
          WakeupIgnored(ts, here, target, t)
    \/ \E here, target \in Cpus, t \in Tids \ {Swapper}, p \in Prios :
          SchedWakeup(ts, here, target, t, p)
    \/ WakeupWithoutVersion(ts)
    \/ \E child, pid, parent \in Tids \ {Swapper} :
          child # parent /\ SchedFork(ts, child, pid, parent)
    \/ \E t \in Tids \ {Swapper} : SchedExec(ts, t)
    \/ \E t \in Tids, p \in Prios : SchedPiSetprio(ts, t, p)
    \/ \E t \in Tids : PiSetprioOfUnknown(ts, t)
    \/ \E t, pid \in Tids \ {Swapper}, p \in Prios \cup {None} :
          StatedumpProcess(ts, t, pid, p)
    \/ \E c \in Cpus, pid \in Tids \ {Swapper} : FixContextPid(ts, c, pid)

SchedNext == \E ts \in 0 .. MaxTs : SchedEvent(ts)

SchedSpec == SchedInit /\ [][SchedNext]_schedVars

-----------------------------------------------------------------------------
\* Type invariant of the scheduling state.
Processes == [pid        : Tids \cup {None},
              prio       : Int \cup {None},
              lastWakeup : Nat \cup {None},
              lastWaker  : Tids \cup {None}]

SchedTypeOK ==
    /\ DOMAIN tids \subseteq Tids
    /\ \A t \in DOMAIN tids : tids[t] \in Processes
    /\ DOMAIN cpus \subseteq Cpus
    /\ \A c \in DOMAIN cpus : cpus[c] \in (Tids \ {Swapper}) \cup {None}
    /\ now \in Nat
    /\ version \in Versions
    /\ fault \in {"none", "KeyError", "AttributeError"}

\* Every provider indexes tids with a CPU's current thread, with a waker or
\* with the pid of a process (sched.py:105, syscalls.py:46, io.py:58, 327):
\* whatever was lost, none of these look-ups fails.
CurrentIsKnown ==
    \A c \in DOMAIN cpus : cpus[c] # None => cpus[c] \in DOMAIN tids

WakerIsKnown ==
    \A t \in DOMAIN tids :
        tids[t].lastWaker # None =>
            /\ tids[t].lastWaker \in DOMAIN tids
            /\ tids[t].lastWakeup # None

PidIsKnown ==
    \A t \in DOMAIN tids : tids[t].pid # None => tids[t].pid \in DOMAIN tids

LookupsSucceed == CurrentIsKnown /\ WakerIsKnown /\ PidIsKnown

\* A thread that a CPU executes has no wakeup pending: the next switch to it
\* cannot measure a latency from before it last ran (sched.py:155-159, 121).
\* No pending wakeup is in the future.
RunningHasNoWakeup ==
    /\ \A c \in DOMAIN cpus :
         cpus[c] # None => tids[cpus[c]].lastWakeup = None
    /\ \A t \in DOMAIN tids :
         tids[t].lastWakeup # None => tids[t].lastWakeup <= now

\* A pending wakeup is the first one since the thread last ran: it is only
\* given up when a CPU switches to the thread or when its Process object is
\* replaced, never by a later wakeup (sched.py:168-174).
FirstWakeupStays ==
    [][\A t \in DOMAIN tids :
         /\ tids[t].lastWakeup # None
         /\ tids'[t].lastWakeup # tids[t].lastWakeup
         => /\ tids'[t].lastWakeup = None
            /\ \/ \E c \in DOMAIN cpus' : cpus'[c] = t
               \/ tids'[t].pid # None /\ UNCHANGED cpus]_schedVars
=============================================================================

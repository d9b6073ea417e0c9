------------------------------ MODULE IoTrace ------------------------------
(***************************************************************************)
(* The trace of a kernel in which no event is lost: what IoState knows of  *)
(* the calls and the descriptors, next to what they are.                   *)
(* The processes were there before the trace began, perhaps inside a call. *)
(* A call takes effect at some time between its entry and its exit, and    *)
(* threads share the descriptors of their process.                         *)
(***************************************************************************)
EXTENDS IoState, FiniteSetsExt

CONSTANTS Confs           \* process of each thread, CPUs and calls in use; do the
                          \* events have the context `pid`? and the bound, the
                          \* number of calls

ASSUME ConfsAssumption ==
    \A f \in Confs :
       /\ f.tgid \in [Tids -> Tids]
       /\ \A t \in Tids : f.tgid[f.tgid[t]] = f.tgid[t]
       /\ f.begun \subseteq f.calls /\ f.calls \subseteq Calls
       /\ f.alive \subseteq Tids /\ \A t \in f.alive : f.tgid[t] \in f.alive
       /\ f.files \subseteq FdTables
       /\ f.cpus \subseteq Cpus
       /\ f.context \in BOOLEAN
       /\ f.maxCalls \in Nat

VARIABLES conf,
          alive,          \* threads
          running,        \* the thread on each CPU, or None
          calls,          \* the call each thread is in
          files,          \* the descriptors of each process
          missed,         \* processes with descriptors that may be wrong
          left            \* calls until the bound

kernelVars == <<conf, alive, running, calls, files, missed, left>>
traceVars  == <<ioVars, kernelVars>>

Call(call, seen) == [call |-> call, ret |-> None, seen |-> seen]

TraceInit ==
    /\ IoInit
    /\ conf \in Confs
    /\ alive = conf.alive
    /\ running \in {r \in [Cpus -> alive \cup {None}] :
         /\ \A c \in Cpus \ conf.cpus : r[c] = None
         /\ \A c, d \in Cpus : r[c] = r[d] => c = d \/ r[c] = None}
    /\ calls \in {k \in [Tids -> {None} \cup {Call(x, FALSE) : x \in conf.begun}] :
         \A t \in Tids \ alive : k[t] = None}
    /\ files \in {f \in [Tids -> {NoFds} \cup conf.files] :
         \A t \in Tids : t \notin alive \/ conf.tgid[t] # t => f[t] = NoFds}
    /\ missed = {}
    /\ left = conf.maxCalls

-----------------------------------------------------------------------------
\* The running thread calls the kernel.
KernelEnter(c, call) ==
    LET t == running[c] IN
    /\ t # None
    /\ calls[t] = None
    /\ left > 0
    /\ left' = left - 1
    /\ calls' = [calls EXCEPT ![t] = Call(call, cpus[c] = t)]
    /\ IF cpus[c] = None THEN UNCHANGED ioVars
       ELSE Entry(c, call, IF conf.context THEN conf.tgid[t] ELSE None)
    /\ UNCHANGED <<conf, alive, running, files, missed>>

\* What a call does to the descriptors of the process, and returns.
Outcomes(fds, call) ==
    LET free == Fds \ DOMAIN fds
        Opened(file, cloexec) ==
            IF free = {} THEN {}
            ELSE {[fds |-> Put(fds, Min(free), FD(file, cloexec)), ret |-> Min(free)]}
        open == call.fd \in DOMAIN fds
    IN {[fds |-> fds, ret |-> -1]} \cup
       CASE call.op \in {"open", "other", "fcntl"} -> Opened(call.file, call.cloexec)
         [] ~(call.op \in {"open", "other", "fcntl"}) /\ ~open -> {}
         [] open /\ call.op = "dup"   -> Opened(fds[call.fd].name, FALSE)
         [] open /\ call.op = "dup2" /\ call.fd # call.new ->
              {[fds |-> Put(fds, call.new, FD(fds[call.fd].name, call.cloexec)),
                ret |-> call.new]}
         [] open /\ call.op = "dup2" /\ call.fd = call.new ->
              IF call.cloexec THEN {} ELSE {[fds |-> fds, ret |-> call.new]}
         [] open /\ call.op = "close" -> {[fds |-> Drop(fds, {call.fd}), ret |-> 0]}
         [] open /\ call.op = "read"  -> {[fds |-> fds, ret |-> 0]}

\* The descriptors that are no more what they were.
Lost(old, new) ==
    {fd \in DOMAIN old : fd \notin DOMAIN new \/ old[fd] # new[fd]}

KernelDo(t) ==
    /\ calls[t] # None
    /\ calls[t].ret = None
    /\ \E o \in Outcomes(files[conf.tgid[t]], calls[t].call) :
         /\ files' = [files EXCEPT ![conf.tgid[t]] = o.fds]
         /\ calls' = [calls EXCEPT ![t].ret = o.ret]
         /\ missed' = IF ~calls[t].seen /\ Lost(files[conf.tgid[t]], o.fds) # {}
                      THEN missed \cup {conf.tgid[t]} ELSE missed
    /\ UNCHANGED <<ioVars, conf, alive, running, left>>

KernelLeave(c) ==
    LET t == running[c] IN
    /\ t # None
    /\ calls[t] # None
    /\ calls[t].ret # None
    /\ Exit(c, calls[t].ret) \/ Ignored(c)
    /\ calls' = [calls EXCEPT ![t] = None]
    /\ UNCHANGED <<conf, alive, running, files, missed, left>>

Idle(t) == \A c \in Cpus : running[c] # t

KernelSwitch(c, next) ==
    /\ next = None \/ (next \in alive /\ Idle(next))
    /\ Switch(c, running[c], next)
    /\ running' = [running EXCEPT ![c] = next]
    /\ UNCHANGED <<conf, alive, calls, files, missed, left>>

Threads(p) == {t \in alive : conf.tgid[t] = p}

\* The running thread exits, which the providers have no event for.
KernelExit(c, next) ==
    LET t == running[c] IN
    /\ t # None
    /\ t = conf.tgid[t] => Threads(t) = {t}
    /\ next = None \/ (next \in alive /\ Idle(next))
    /\ Switch(c, t, next)
    /\ running' = [running EXCEPT ![c] = next]
    /\ alive' = alive \ {t}
    /\ calls' = [calls EXCEPT ![t] = None]
    /\ files' = IF t = conf.tgid[t] THEN [files EXCEPT ![t] = NoFds] ELSE files
    /\ missed' = missed \ {t}
    /\ UNCHANGED <<conf, left>>

\* A process without other threads.
Lone(p) == {t \in Tids : conf.tgid[t] = p} = {p}

\* The running thread creates another thread, or a process.  The copy of the
\* descriptors may be wrong while another thread of the process is in a call.
KernelFork(c, child) ==
    LET t == running[c]
        p == conf.tgid[child]
    IN
    /\ t # None
    /\ calls[t] = None
    /\ child \notin alive
    /\ p \in {child, conf.tgid[t]}
    /\ Fork(child, p, conf.tgid[t])
    /\ alive' = alive \cup {child}
    /\ files' = IF p = child THEN [files EXCEPT ![child] = files[conf.tgid[t]]]
                ELSE files
    /\ missed' = IF p = child /\ (conf.tgid[t] \in missed \/ ~Lone(conf.tgid[t]))
                 THEN missed \cup {child} ELSE missed
    /\ UNCHANGED <<conf, running, calls, left>>

\* The running thread, alone in its process, executes another program.
KernelExec(c) ==
    LET t      == running[c]
        closed == {fd \in DOMAIN files[t] : files[t][fd].cloexec}
    IN
    /\ t # None
    /\ calls[t] = None
    /\ Threads(t) = {t}
    /\ Exec(t)
    /\ files' = [files EXCEPT ![t] = Drop(@, closed)]
    /\ missed' = IF closed \cap DOMAIN procs'[t].fds # {} THEN missed \cup {t}
                 ELSE missed
    /\ UNCHANGED <<conf, alive, running, calls, left>>

\* The state dump, at any time.
KernelDumpProcess(t) ==
    /\ t \in alive
    /\ StatedumpProcess(t, conf.tgid[t])
    /\ UNCHANGED kernelVars

KernelDumpFd(p, fd) ==
    LET replaced == /\ calls[p] # None
                    /\ calls[p].call.op = "dup2"
                    /\ calls[p].ret = None
                    /\ calls[p].call.new = fd
    IN
    /\ p \in alive
    /\ fd \in DOMAIN files[p]
    /\ StatedumpFd(p, fd, files[p][fd].name, files[p][fd].cloexec)
    /\ missed' = IF replaced THEN missed \cup {p} ELSE missed
    /\ UNCHANGED <<conf, alive, running, calls, files, left>>

TraceNext ==
    \/ \E c \in Cpus, call \in conf.calls : KernelEnter(c, call)
    \/ \E t \in Tids : KernelDo(t)
    \/ \E c \in Cpus : KernelLeave(c)
    \/ \E c \in conf.cpus, next \in Tids \cup {None} : KernelSwitch(c, next)
    \/ \E c \in Cpus, next \in Tids \cup {None} : KernelExit(c, next)
    \/ \E c \in Cpus, child \in Tids : KernelFork(c, child)
    \/ \E c \in Cpus : KernelExec(c)
    \/ \E t \in Tids : KernelDumpProcess(t)
    \/ \E p \in Tids, fd \in Fds : KernelDumpFd(p, fd)

TraceSpec == TraceInit /\ [][TraceNext]_traceVars

-----------------------------------------------------------------------------
\* The pending call of a thread is the one it is in, and is there exactly if
\* its entry was on a CPU of which the current thread was known: no exit is
\* matched with the entry of another call, no request is reported twice or
\* forgotten, whichever threads and processes come and go in between
\* (syscalls.py:45-73, io.py:73-96).
SysOf(t) == IF t \in DOMAIN procs THEN procs[t].sys ELSE None

CallsMatch ==
    \A t \in alive :
       LET sys == SysOf(t) IN
       IF calls[t] = None \/ ~calls[t].seen THEN sys = None
       ELSE /\ sys # None
            /\ sys.op = calls[t].call.op
            /\ sys.op \notin OpenOps => sys.fd = calls[t].call.fd

\* The descriptors of a process without threads, when it is in no call that
\* took effect: all are open, and are named after their file or "unknown".
\* The exceptions are a process that lost a descriptor in a call of which the
\* entry was not seen, one that executed a program while it had a descriptor
\* to close on exec of which the provider did not know the flag, and one that
\* a process with threads created (sched.py:194-202).
NamesAreRight ==
    \A p \in (alive \cap DOMAIN procs) \ missed :
       /\ Lone(p)
       /\ calls[p] # None => calls[p].ret = None
       => \A fd \in DOMAIN procs[p].fds :
             /\ fd \in DOMAIN files[p]
             /\ procs[p].fds[fd].name \in {Unknown, files[p][fd].name}
=============================================================================

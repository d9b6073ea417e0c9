------------------------------ MODULE IoState ------------------------------
(***************************************************************************)
(* System calls and file descriptors in the automaton's state: the call    *)
(* that each thread is in and its I/O request (linuxautomaton/syscalls.py, *)
(* io.py), the descriptors of each process, with the events of the         *)
(* scheduler and of the state dump that move them (sched.py:176-228,       *)
(* statedump.py:52-130).                                                   *)
(*                                                                         *)
(* The trace is the environment: IoTrace restricts it to what a kernel     *)
(* does, IoAnalysis lets any event come next.                              *)
(* A read stands for every call on one descriptor which leaves it open.    *)
(* Sizes, families and types of descriptors are left out.                  *)
(***************************************************************************)
EXTENDS Integers

CONSTANTS Tids,           \* thread ids, without the swapper's
          Cpus,
          MaxFd,          \* bound: greatest file descriptor
          Files,          \* names
          Unknown,        \* the name "unknown"
          None

ASSUME MaxFdAssumption == MaxFd \in Nat
ASSUME NamesAssumption == Unknown \notin Files
ASSUME NoneAssumption  == None \notin Tids \cup Int \cup Files

VARIABLES cpus,           \* current_tid by CPU; None before the first switch too
          procs           \* State.tids: Process objects by thread id

ioVars == <<cpus, procs>>

Fds == 0 .. MaxFd

FD(name, cloexec) == [name |-> name, cloexec |-> cloexec]

NoFds == [fd \in {} |-> FD(Unknown, FALSE)]

Process(pid) == [pid |-> pid, fds |-> NoFds, sys |-> None]

Put(f, k, v) == [x \in DOMAIN f \cup {k} |-> IF x = k THEN v ELSE f[x]]
Drop(f, K)   == [x \in DOMAIN f \ K |-> f[x]]

\* `if tid not in self._state.tids: self._state.tids[tid] = proc`
Ensure(f, t, proc) == IF t \in DOMAIN f THEN f ELSE Put(f, t, proc)

\* _get_parent_proc(): the process that holds the descriptors of a thread.
Leader(f, t) == IF f[t].pid # None THEN f[t].pid ELSE t

-----------------------------------------------------------------------------
\* System calls, by what the provider does with them.
NoArgs == [op |-> "other", fd |-> None, new |-> None, file |-> None,
           cloexec |-> FALSE]

OpenCalls == {[NoArgs EXCEPT !.op = "open", !.file = n, !.cloexec = x] :
                n \in Files, x \in BOOLEAN}
DupCalls  == {[NoArgs EXCEPT !.op = "dup", !.fd = fd] : fd \in Fds}
Dup2Calls == {[NoArgs EXCEPT !.op = "dup2", !.fd = fd, !.new = n, !.cloexec = x] :
                fd, n \in Fds, x \in BOOLEAN}
FdCalls   == {[NoArgs EXCEPT !.op = o, !.fd = fd] :
                o \in {"close", "read"}, fd \in Fds}
\* accept() is no I/O system call here, other commands of fcntl() and splice()
\* are, without a request; both can open a descriptor.
QuietCalls == {[NoArgs EXCEPT !.op = o, !.file = n, !.cloexec = x] :
                 o \in {"other", "fcntl"}, n \in Files, x \in BOOLEAN}

Calls == OpenCalls \cup DupCalls \cup Dup2Calls \cup FdCalls \cup QuietCalls

OpenOps  == {"open", "dup", "dup2"}            \* OpenIORequest
RqOps    == OpenOps \cup {"close", "read"}     \* a request is made
IoOps    == RqOps \cup {"fcntl"}               \* IO_SYSCALLS

\* The file that a duplicate will be of.
NameOf(fds, fd) == IF fd \in DOMAIN fds THEN fds[fd].name ELSE Unknown

\* The request of a call of a process with these descriptors.
Request(fds, call) ==
    [op      |-> call.op,
     fd      |-> IF call.op \in OpenOps THEN None ELSE call.fd,
     name    |-> IF call.op \in {"dup", "dup2"} THEN NameOf(fds, call.fd)
                                                ELSE call.file,
     cloexec |-> call.cloexec]

\* _fix_context_pid(), when the events have the context `pid`.
FixContext(f, t, pid) ==
    IF pid = None \/ f[t].pid # None THEN f
    ELSE LET named == [f EXCEPT ![t].pid = pid]
         IN IF pid = t THEN named ELSE Put(named, pid, Process(pid))

\* Mutant: the new descriptor of dup2() is left to the exit.
EnteredKeepsNew(t, call, pid) ==
    LET named == IF call.op \in IoOps THEN FixContext(procs, t, pid) ELSE procs
    IN [named EXCEPT ![t].sys = Request(named[Leader(named, t)].fds, call)]

\* Both providers on the entry of a call of t.  dup2() closes the new
\* descriptor here, before it looks for the old one.
Entered(t, call, pid) ==
    LET named == IF call.op \in IoOps THEN FixContext(procs, t, pid) ELSE procs
        l     == Leader(named, t)
        fds   == IF call.op = "dup2" THEN Drop(named[l].fds, {call.new})
                                     ELSE named[l].fds
    IN [[named EXCEPT ![l].fds = fds]
          EXCEPT ![t].sys = Request(fds, call)]

Entry(c, call, pid) ==
    /\ cpus[c] # None
    /\ procs' = Entered(cpus[c], call, pid)
    /\ UNCHANGED cpus

\* The descriptor of a request when its call has returned.
ResultFd(sys, ret) ==
    IF sys.op \in OpenOps THEN (IF ret >= 0 THEN ret ELSE None) ELSE sys.fd

\* _create_fd(): is a descriptor created for the request?
Creates(l, sys, ret) ==
    /\ sys.op \in RqOps
    /\ ret >= 0
    /\ ResultFd(sys, ret) \notin DOMAIN procs[l].fds

Closes(sys, ret) == sys.op = "close" /\ ret = 0

CreatedFd(sys) ==
    IF sys.op \in OpenOps THEN FD(sys.name, sys.cloexec) ELSE FD(Unknown, FALSE)

\* Mutant: the call is forgotten only if it succeeds.
ExitedIfDone(t, ret) ==
    LET sys == procs[t].sys
        l   == Leader(procs, t)
        fd  == ResultFd(sys, ret)
        new == IF Creates(l, sys, ret)
                 THEN Put(procs[l].fds, fd, CreatedFd(sys)) ELSE procs[l].fds
        fds == IF Closes(sys, ret) THEN Drop(new, {fd}) ELSE new
    IN [[procs EXCEPT ![l].fds = fds]
          EXCEPT ![t].sys = IF ret >= 0 THEN None ELSE sys]

\* Both providers on the exit of a call of t.
Exited(t, ret) ==
    LET sys == procs[t].sys
        l   == Leader(procs, t)
        fd  == ResultFd(sys, ret)
        new == IF Creates(l, sys, ret)
                 THEN Put(procs[l].fds, fd, CreatedFd(sys)) ELSE procs[l].fds
        fds == IF Closes(sys, ret) THEN Drop(new, {fd}) ELSE new
    IN [[procs EXCEPT ![l].fds = fds] EXCEPT ![t].sys = None]

Exit(c, ret) ==
    /\ cpus[c] # None
    /\ procs[cpus[c]].sys # None
    /\ procs' = Exited(cpus[c], ret)
    /\ UNCHANGED cpus

\* An event of a CPU of which the current thread, or its call, is not known.
Ignored(c) ==
    /\ cpus[c] # None => procs[cpus[c]].sys = None
    /\ UNCHANGED ioVars

-----------------------------------------------------------------------------
\* The scheduler: the threads of a switch have a Process object afterwards.
Switch(c, prev, next) ==
    /\ prev # next
    /\ procs' = [t \in DOMAIN procs \cup ({prev, next} \ {None}) |->
                   IF t \in DOMAIN procs THEN procs[t] ELSE Process(None)]
    /\ cpus' = [cpus EXCEPT ![c] = next]

\* _process_sched_process_fork(): the child has copies of the descriptors of
\* the process, if it is a thread of it too.
Forked(child, childPid, parentPid) ==
    LET known == [Ensure(procs, parentPid, Process(parentPid))
                    EXCEPT ![parentPid].pid = parentPid]
    IN Put(known, child, [Process(childPid) EXCEPT !.fds = known[parentPid].fds])

Fork(child, childPid, parentPid) ==
    /\ procs' = Forked(child, childPid, parentPid)
    /\ UNCHANGED cpus

\* The descriptors of t that _process_sched_process_exec() closes.
CloseOnExec(t) ==
    IF t \in DOMAIN procs
      THEN {fd \in DOMAIN procs[t].fds : procs[t].fds[fd].cloexec} ELSE {}

Exec(t) ==
    /\ procs' = [Ensure(procs, t, Process(None))
                   EXCEPT ![t].fds = Drop(@, CloseOnExec(t))]
    /\ UNCHANGED cpus

\* lttng_statedump_process_state: the descriptors of a thread go to the
\* leader, unless it has one of the same number.
Dumped(t, pid) ==
    LET known == Ensure([Ensure(procs, t, Process(None)) EXCEPT ![t].pid = pid],
                        pid, Process(pid))
        own   == known[t].fds
        lead  == known[pid].fds
    IN IF pid = t THEN known
       ELSE [[known EXCEPT ![pid].fds = [fd \in DOMAIN lead \cup DOMAIN own |->
                IF fd \in DOMAIN lead THEN lead[fd] ELSE own[fd]]]
               EXCEPT ![t].fds = NoFds]

StatedumpProcess(t, pid) ==
    /\ procs' = Dumped(t, pid)
    /\ UNCHANGED cpus

\* lttng_statedump_file_descriptor: a descriptor which is known only gets its
\* name.
StatedumpFd(pid, fd, name, cloexec) ==
    LET known == Ensure(procs, pid, Process(pid))
        fds   == known[pid].fds
    IN /\ procs' = [known EXCEPT ![pid].fds =
              Put(fds, fd, FD(name, IF fd \in DOMAIN fds THEN fds[fd].cloexec
                                                        ELSE cloexec))]
       /\ UNCHANGED cpus

\* The entry of connect(), which is no I/O system call: the descriptor gets
\* the address for a name.
Connected(t, fd, address) ==
    LET l     == Leader(procs, t)
        named == IF fd \in DOMAIN procs[l].fds
                   THEN [procs EXCEPT ![l].fds = Put(@, fd, FD(address, @[fd].cloexec))]
                   ELSE procs
    IN [named EXCEPT ![t].sys = Request(NoFds, NoArgs)]

Connect(c, fd, address) ==
    /\ cpus[c] # None
    /\ procs' = Connected(cpus[c], fd, address)
    /\ UNCHANGED cpus

IoInit ==
    /\ cpus = [c \in Cpus |-> None]
    /\ procs = [t \in {} |-> Process(None)]

\* The descriptors that a process can have.
FdTables == UNION {[F -> [name : Files \cup {Unknown}, cloexec : BOOLEAN]] :
                     F \in SUBSET Fds}

=============================================================================

----------------------------- MODULE MCIoTrace -----------------------------
EXTENDS IoTrace, TLC

CONSTANTS p1, p2, c1, c2, a, b

MCTids  == {p1, p2}
MCCpus  == {c1, c2}
MCFiles == {a, b}

Op(o)    == [NoArgs EXCEPT !.op = o]
Opens    == {[Op("open") EXCEPT !.file = n] : n \in MCFiles}
Dups     == {[Op("dup") EXCEPT !.fd = 0]} \cup
            {[Op("dup2") EXCEPT !.fd = 0, !.new = fd] : fd \in 0 .. 1}
Uses     == {[Op(o) EXCEPT !.fd = 0] : o \in {"read", "close"}}
CloExecs == {[Op(o) EXCEPT !.file = a, !.cloexec = TRUE] : o \in {"open", "other"}}

Zero(cloexec) == {Put(NoFds, 0, FD(a, cloexec))}

\* One process, which can create another one.
Single == [tgid     |-> [t \in MCTids |-> t],
           alive    |-> {p1},
           cpus     |-> {c1},
           files    |-> Zero(FALSE),
           begun    |-> {},
           calls    |-> Opens \cup Dups \cup Uses,
           context  |-> FALSE,
           maxCalls |-> 3]

\* Its descriptors are closed on exec; it may be in close() when the trace begins.
CloseOnExecs ==
    [Single EXCEPT !.calls = Opens \cup Uses \cup CloExecs, !.files = Zero(TRUE),
                   !.begun = {[Op("close") EXCEPT !.fd = 0]}, !.maxCalls = 2]

\* A process without threads has the context of the pid.
Alone == [CloseOnExecs EXCEPT !.context = TRUE]

\* Two threads of a process, on two CPUs, without it.
Threads2 ==
    [Single EXCEPT !.tgid = [t \in MCTids |-> p1], !.alive = MCTids,
                   !.cpus = MCCpus, !.calls = Opens \cup Uses,
                   !.begun = {[Op("read") EXCEPT !.fd = 0]}, !.maxCalls = 2]

MCConfs     == {Single, Alone, Threads2}
=============================================================================

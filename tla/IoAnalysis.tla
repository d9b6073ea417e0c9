----------------------------- MODULE IoAnalysis -----------------------------
(***************************************************************************)
(* The I/O analysis (core/io.py): what a period knows of the descriptors   *)
(* of each process, one FDStats per time that a descriptor was open, and   *)
(* of the bytes that went through them.  Its call backs run inside of the  *)
(* handlers of IoState; a new period begins with nothing, the automaton    *)
(* keeps its state.                                                        *)
(* Names, kinds of descriptors, block and network requests, which are only *)
(* added to lists and sums, are left out.                                  *)
(***************************************************************************)
EXTENDS IoState, FiniteSetsExt, Functions, Sequences

CONSTANTS Settings        \* process of each thread, calls in use; are descriptors
                          \* closed on exec, have the events the context `pid`?
                          \* and the bounds: greatest timestamp, bytes read and
                          \* number of FDStats in a period

ASSUME SettingsAssumption ==
    \A f \in Settings :
       /\ f.tgid \in [Tids -> Tids] /\ f.calls \subseteq Calls
       /\ f.cloexec \in BOOLEAN /\ f.context \in BOOLEAN
       /\ {f.maxTs, f.maxBytes, f.maxOpens} \subseteq Nat

VARIABLES setting,
          now,            \* timestamp of the last event
          stats,          \* period_data.tids: ProcessIOStats by thread id
          first,          \* is this the period in which the trace began?
          dropped,        \* bytes of the FDStats that the analysis dropped
          fault           \* the exception which stopped the program

analysisVars == <<ioVars, setting, now, stats, first, dropped, fault>>

FDStats(ts) == [open |-> ts, close |-> None, bytes |-> 0]

NewStats == [bytes |-> 0, fds |-> [fd \in {} |-> << >>]]

IsOpen(list) == list # << >> /\ list[Len(list)].close = None

\* get_fd() without a date.
HasFd(s, t, fd) ==
    /\ t \in DOMAIN s
    /\ fd \in DOMAIN s[t].fds
    /\ IsOpen(s[t].fds[fd])

ListOf(s, t, fd) ==
    IF t \in DOMAIN s /\ fd \in DOMAIN s[t].fds THEN s[t].fds[fd] ELSE << >>

SetList(s, t, fd, list) ==
    Put(s, t, [Ensure(s, t, NewStats)[t] EXCEPT !.fds = Put(@, fd, list)])

\* _process_create_fd()
CreateFd(s, t, fd, ts) == SetList(s, t, fd, Append(ListOf(s, t, fd), FDStats(ts)))

\* _process_close_fd()
CloseFd(s, t, fd, ts) ==
    IF ~HasFd(s, t, fd) THEN s
    ELSE LET list == s[t].fds[fd]
         IN SetList(s, t, fd, [list EXCEPT ![Len(list)].close = ts])

\* Mutant: the bytes are counted for the thread in any case.
IoRqExitCounts(s, t, l, sys, ret) ==
    LET known == Ensure(Ensure(s, t, NewStats), l, NewStats)
        list  == ListOf(known, l, sys.fd)
        all   == IF sys.op = "read" /\ ret >= 0
                   THEN [known EXCEPT ![t].bytes = @ + ret] ELSE known
    IN IF ~(sys.op = "read" /\ ret >= 0 /\ HasFd(known, l, sys.fd)) THEN all
       ELSE SetList(all, l, sys.fd, [list EXCEPT ![Len(list)].bytes = @ + ret])

\* _process_io_rq_exit(): a read is counted if the descriptor has statistics.
IoRqExit(s, t, l, sys, ret) ==
    LET known == Ensure(Ensure(s, t, NewStats), l, NewStats)
        list  == ListOf(known, l, sys.fd)
    IN IF ~(sys.op = "read" /\ ret >= 0 /\ HasFd(known, l, sys.fd)) THEN known
       ELSE SetList([known EXCEPT ![t].bytes = @ + ret], l, sys.fd,
                    [list EXCEPT ![Len(list)].bytes = @ + ret])

Bytes(list) == SumFunction([i \in DOMAIN list |-> list[i].bytes])

-----------------------------------------------------------------------------
At(ts) ==
    /\ fault = "none"
    /\ now <= ts
    /\ now' = ts
    /\ UNCHANGED setting

\* The analysis goes on, with these statistics.
Notified(s) ==
    /\ stats' = s
    /\ UNCHANGED <<first, dropped, fault>>

NotNotified == Notified(stats)

Fails(exception) ==
    /\ fault' = exception
    /\ UNCHANGED <<stats, first, dropped>>

\* The entry of dup2() closes the new descriptor.
EntryNotified(ts, t, call, pid) ==
    LET named == IF call.op \in IoOps THEN FixContext(procs, t, pid) ELSE procs
        l     == Leader(named, t)
    IN Notified(IF call.op = "dup2" /\ call.new \in DOMAIN named[l].fds
                  THEN CloseFd(stats, l, call.new, ts) ELSE stats)

\* Mutant: only a call that opens a descriptor is notified of as creating it.
ExitNotifiedOfOpens(ts, t, ret) ==
    LET sys     == procs[t].sys
        l       == Leader(procs, t)
        fd      == ResultFd(sys, ret)
        created == IF Creates(l, sys, ret) /\ sys.op \in OpenOps
                     THEN CreateFd(stats, l, fd, ts) ELSE stats
        counted == IF sys.op \in RqOps THEN IoRqExit(created, t, l, sys, ret)
                                       ELSE created
    IN Notified(IF Closes(sys, ret) THEN CloseFd(counted, l, fd, ts) ELSE counted)

\* The exit of a call creates a descriptor, reports the request, then closes
\* the descriptor.
ExitNotified(ts, t, ret) ==
    LET sys     == procs[t].sys
        l       == Leader(procs, t)
        fd      == ResultFd(sys, ret)
        created == IF Creates(l, sys, ret)
                     THEN CreateFd(stats, l, fd, ts) ELSE stats
        counted == IF sys.op \in RqOps THEN IoRqExit(created, t, l, sys, ret)
                                       ELSE created
    IN Notified(IF Closes(sys, ret) THEN CloseFd(counted, l, fd, ts) ELSE counted)

\* _process_update_fd() of a Process which still has the descriptor.
UpdateFd(ts, t, fd) ==
    IF t \notin DOMAIN stats THEN Fails("KeyError")
    ELSE Notified(IF ListOf(stats, t, fd) = << >> THEN CreateFd(stats, t, fd, ts)
                                                ELSE stats)

\* The name of a descriptor changes: the one of the thread itself is updated,
\* with its own name, if it has one.
ConnectNotified(ts, t, fd) ==
    IF fd \in DOMAIN procs'[t].fds THEN UpdateFd(ts, t, fd)
    ELSE NotNotified

ForkNotified(ts, child) ==
    LET fds == procs'[child].fds
    IN IF DOMAIN fds = {} THEN NotNotified
       ELSE Notified(Put(stats, child,
              [Ensure(stats, child, NewStats)[child] EXCEPT !.fds =
                 [fd \in DOMAIN @ \cup DOMAIN fds |->
                    IF fd \in DOMAIN fds
                      THEN Append(ListOf(stats, child, fd), FDStats(ts))
                      ELSE @[fd]]]))

ExecNotified(ts, t) ==
    IF t \notin DOMAIN stats THEN NotNotified
    ELSE Notified([stats EXCEPT ![t].fds = [fd \in DOMAIN @ |->
           IF fd \in CloseOnExec(t) THEN CloseFd(stats, t, fd, ts)[t].fds[fd]
                                    ELSE @[fd]]])

\* _process_create_parent_proc(): the FDStats of a thread go to its leader's,
\* unless it has some of the same number: these are dropped.
ParentNotified(t, pid) ==
    LET known  == Ensure(Ensure(stats, t, NewStats), pid, NewStats)
        own    == known[t].fds
        lead   == known[pid].fds
        common == DOMAIN own \cap DOMAIN lead
    IN IF pid = t THEN NotNotified
       ELSE IF \E fd \in common : ~IsOpen(lead[fd]) THEN Fails("AttributeError")
       ELSE /\ stats' = [[known EXCEPT ![t].fds = NewStats.fds]
                          EXCEPT ![pid].fds = [fd \in DOMAIN lead \cup DOMAIN own |->
                             IF fd \in DOMAIN lead THEN lead[fd] ELSE own[fd]]]
            /\ dropped' = dropped + SumFunction([fd \in common |-> Bytes(own[fd])])
            /\ UNCHANGED <<first, fault>>

StatedumpFdNotified(ts, pid, fd) ==
    IF pid \in DOMAIN procs /\ fd \in DOMAIN procs[pid].fds
      THEN UpdateFd(ts, pid, fd)
      ELSE Notified(CreateFd(stats, pid, fd, ts))

\* An event ends the period and begins the next one.
NextPeriod(ts) ==
    /\ At(ts)
    /\ stats' = [t \in {} |-> NewStats]
    /\ first' = FALSE
    /\ dropped' = 0
    /\ UNCHANGED <<ioVars, fault>>

AnalysisInit ==
    /\ IoInit
    /\ setting \in Settings
    /\ now = 0
    /\ stats = [t \in {} |-> NewStats]
    /\ first = TRUE
    /\ dropped = 0
    /\ fault = "none"

\* What a call can return: a number of bytes, or a descriptor.
Results(sys) ==
    IF sys # None /\ sys.op = "read" THEN -1 .. setting.maxBytes ELSE -1 .. MaxFd

AnalysisEvent(ts) ==
    \/ \E c \in Cpus, prev, next \in Tids \cup {None} :
          Switch(c, prev, next) /\ NotNotified
    \/ \E c \in Cpus, call \in setting.calls :
          LET pid == IF setting.context THEN setting.tgid[cpus[c]] ELSE None
          IN Entry(c, call, pid) /\ EntryNotified(ts, cpus[c], call, pid)
    \/ \E c \in Cpus :
          /\ cpus[c] # None
          /\ \E ret \in Results(procs[cpus[c]].sys) :
               Exit(c, ret) /\ ExitNotified(ts, cpus[c], ret)
    \/ \E c \in Cpus, fd \in Fds, n \in Files :
          Connect(c, fd, n) /\ ConnectNotified(ts, cpus[c], fd)
    \/ \E c \in Cpus : Ignored(c) /\ NotNotified
    \/ \E child, parent \in Tids :
          /\ child # parent
          /\ setting.tgid[child] \in {child, parent}
          /\ setting.tgid[parent] = parent
          /\ Fork(child, setting.tgid[child], parent)
          /\ ForkNotified(ts, child)
    \/ \E t \in Tids : Exec(t) /\ ExecNotified(ts, t)
    \/ \E t \in Tids :
          StatedumpProcess(t, setting.tgid[t]) /\ ParentNotified(t, setting.tgid[t])
    \/ \E t \in Tids, fd \in Fds, n \in Files :
          /\ setting.tgid[t] = t
          /\ StatedumpFd(t, fd, n, setting.cloexec)
          /\ StatedumpFdNotified(ts, t, fd)

\* The bounds.
Opens(s) == SumFunction([t \in DOMAIN s |->
              SumFunction([fd \in DOMAIN s[t].fds |-> Len(s[t].fds[fd])])])

Small(s) ==
    /\ SumFunction([t \in DOMAIN s |-> s[t].bytes]) <= setting.maxBytes
    /\ Opens(s) <= setting.maxOpens

AnalysisNext ==
    \E ts \in 0 .. setting.maxTs :
       \/ At(ts) /\ AnalysisEvent(ts) /\ Small(stats')
       \/ NextPeriod(ts)

AnalysisSpec == AnalysisInit /\ [][AnalysisNext]_analysisVars

-----------------------------------------------------------------------------
\* The bytes that the threads have read are those that went through the
\* descriptors, of which the leader of a process has the statistics, less the
\* ones of the FDStats dropped when a thread finds its leader
\* (core/io.py:155-195, 121-136).
BytesAreConserved ==
    SumFunction([t \in DOMAIN stats |-> stats[t].bytes])
      = dropped + SumFunction([t \in DOMAIN stats |->
          SumFunction([fd \in DOMAIN stats[t].fds |-> Bytes(stats[t].fds[fd])])])

\* In the first period every descriptor that the automaton knows has an open
\* FDStats: no read of it is left out, and an update of its name finds it.
\* Later periods begin without them (core/io.py:171-185, 232-247, 272).
OpenFdsHaveStats ==
    first =>
        /\ fault # "KeyError"
        /\ fault = "none" =>
             \A t \in DOMAIN procs : \A fd \in DOMAIN procs[t].fds : HasFd(stats, t, fd)

=============================================================================

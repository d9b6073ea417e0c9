------------------------------- MODULE MemNet -------------------------------
(***************************************************************************)
(* Pages, packets and the system calls during which they come             *)
(* (linuxautomaton/mem.py, net.py, syscalls.py, io.py:73-166), with the    *)
(* memory and system call analyses of one period (core/memtop.py,          *)
(* core/syscalls.py) and the packets of the I/O analysis (core/io.py:      *)
(* 138-156).                                                               *)
(*                                                                         *)
(* An event is handled by the providers in their order: mem, syscalls, io, *)
(* net.  All threads but kswapd0 are of one process, which has one file    *)
(* descriptor.  Entries and exits of calls may be missing from the trace.  *)
(* The date of an event, `now`, is its number.                             *)
(***************************************************************************)
EXTENDS Providers, Integers, Sequences, SequencesExt, FiniteSets, FiniteSetsExt,
        Functions

CONSTANTS Tids,           \* threads, without the swapper
          Kswapd,         \* the one whose name is kswapd0
          Calls,          \* system calls: write, read, open, close, fcntl, other
          WantedTids,     \* --tid, --procname
          WantedCpus,     \* --cpu
          MaxEvents       \* bound

ASSUME MemAssumption ==
    /\ Tids \subseteq Nat \ {0} /\ Kswapd \in Tids
    /\ None \notin Nat

VARIABLES cpus,           \* CPU.current_tid of the known CPUs
          prev,           \* Process.prev_tid, 0 for the swapper
          calls,          \* Process.current_syscall
          pages,          \* MemoryManagement.page_count
          fdType,         \* type of the descriptor; None if it is not known
          mem,            \* ProcessMemStats by tid
          stats,          \* SyscallStats by tid and name
          ifaces,         \* IfaceStats: packets sent and received
          allocs          \* history: dates of the page allocations

memVars == <<now, cpus, prev, calls, pages, fdType, mem, stats, ifaces, allocs>>

IoCalls == Calls \ {"other"}          \* IO_SYSCALLS

\* A CPU is known from its first switch on; the swapper is no current thread.
Current(c) == IF c \in DOMAIN cpus THEN cpus[c] ELSE None
InCall(c)  == Current(c) # None /\ calls[Current(c)] # None

\* _filter_process(), _filter_cpu()
Wanted(t, c) == t \in WantedTids /\ c \in WantedCpus

Event == now < MaxEvents /\ now' = now + 1

-----------------------------------------------------------------------------
(* linuxautomaton/sched.py: a switch, from thread p or the swapper (0).  No *)
(* switch is missing, so that a thread runs on one CPU at a time.          *)

Runs(c, p) == IF c \in DOMAIN cpus THEN p = (IF cpus[c] = None THEN 0 ELSE cpus[c]) ELSE TRUE

Switch(c, p, n) ==
    /\ Event /\ p # n /\ Runs(c, p)
    /\ \A d \in DOMAIN cpus \ {c} : cpus[d] = None \/ cpus[d] \notin {p, n}
    /\ cpus' = [x \in DOMAIN cpus \cup {c} |->
                   IF x # c THEN cpus[x] ELSE IF n = 0 THEN None ELSE n]
    /\ prev' = IF n = 0 THEN prev ELSE [prev EXCEPT ![n] = p]
    /\ UNCHANGED <<calls, pages, fdType, mem, stats, ifaces, allocs>>

-----------------------------------------------------------------------------
(* System calls.                                                           *)

\* A request, by the I/O provider; a command of fcntl() that duplicates
\* nothing has none.
Request(name) ==
    IF name \notin IoCalls \ {"fcntl"} THEN None
    ELSE [alloc |-> 0, freed |-> 0, written |-> 0, woke |-> FALSE]

\* _process_syscall_entry() of both providers
SyscallEntry(c, name) ==
    /\ Event
    /\ calls' = IF Current(c) = None THEN calls
                ELSE [calls EXCEPT ![Current(c)] =
                        [name |-> name, begin |-> now, rq |-> Request(name)]]
    /\ UNCHANGED <<cpus, prev, pages, fdType, mem, stats, ifaces, allocs>>

\* SyscallStats.update_stats()
NewStats == [min |-> None, max |-> None, total |-> 0, list |-> << >>]
UpdateStats(s, duration) ==
    [min   |-> IF s.min = None \/ duration < s.min THEN duration ELSE s.min,
     max   |-> IF s.max = None \/ duration > s.max THEN duration ELSE s.max,
     total |-> s.total + duration,
     list  |-> Append(s.list, [begin |-> now - duration, end |-> now])]

\* _process_syscall_exit() of the analysis
Counted(c) ==
    LET t    == Current(c)
        call == calls[t]
        old  == IF <<t, call.name>> \in DOMAIN stats THEN stats[<<t, call.name>>] ELSE NewStats
    IN IF ~Wanted(t, c) THEN stats
       ELSE [k \in DOMAIN stats \cup {<<t, call.name>>} |->
               IF k = <<t, call.name>> THEN UpdateStats(old, now - call.begin) ELSE stats[k]]

\* The descriptor after a call that succeeds or fails: one that is not known
\* is created, an unknown one unless it is opened.
TypeAfter(name, ok) ==
    CASE ~ok \/ name \in {"fcntl", "other"} -> fdType
      [] ok /\ name = "close" -> None
      [] OTHER -> IF fdType # None THEN fdType ELSE IF name = "open" THEN "disk" ELSE "unknown"

\* Mutant: the I/O calls are left to the I/O provider, the others stay.
ClearedIo(c) ==
    IF calls[Current(c)].name \in IoCalls
      THEN [calls EXCEPT ![Current(c)] = None] ELSE calls

\* The first provider clears the calls that are not I/O, the second the others.
Cleared(c) == [calls EXCEPT ![Current(c)] = None]

\* _process_syscall_exit() of the providers
SyscallExit(c, ok) ==
    /\ Event
    /\ IF ~InCall(c) THEN UNCHANGED <<calls, fdType, stats>>
       ELSE /\ stats' = Counted(c)
            /\ fdType' = TypeAfter(calls[Current(c)].name, ok)
            /\ calls' = Cleared(c)
    /\ UNCHANGED <<cpus, prev, pages, mem, ifaces, allocs>>

-----------------------------------------------------------------------------
(* Pages.                                                                  *)

HasRequest(t) == calls[t] # None /\ calls[t].rq # None

\* ProcessMemStats, by the memory analysis; none is made for a thread or a CPU
\* that is not wanted.
MemAfter(c, field) ==
    LET t   == Current(c)
        old == IF t \in DOMAIN mem THEN mem[t] ELSE [allocated |-> 0, freed |-> 0]
    IN IF t = None THEN mem
       ELSE IF ~Wanted(t, c) THEN mem
       ELSE [x \in DOMAIN mem \cup {t} |->
               IF x = t THEN [old EXCEPT ![field] = @ + 1] ELSE mem[x]]

\* Mutant: only the running threads are in a request.
AllocatedRunning(t) == \E c \in DOMAIN cpus : cpus[c] = t /\ HasRequest(t)

\* The requests of all threads are charged, whichever runs.
Allocated(t) == HasRequest(t)

PageAlloc(c) ==
    /\ Event
    /\ pages' = pages + 1
    /\ calls' = [t \in Tids |-> IF Allocated(t) THEN [calls[t] EXCEPT !.rq.alloc = @ + 1]
                                                ELSE calls[t]]
    /\ mem' = MemAfter(c, "allocated")
    /\ allocs' = Append(allocs, now)
    /\ UNCHANGED <<cpus, prev, fdType, stats, ifaces>>

\* The I/O provider charges, for each CPU, its thread, or the one that ran
\* before kswapd0, if that woke kswapd.
Freeing(c) ==
    LET t == Current(c)
    IN IF t = Kswapd /\ prev[t] > 0 THEN prev[t] ELSE t
FreedBy(t) ==
    IF ~HasRequest(t) THEN 0
    ELSE IF ~calls[t].rq.woke THEN 0
    ELSE Cardinality({c \in DOMAIN cpus : Current(c) # None /\ Freeing(c) = t})

\* "if self._state.mm.page_count == 0: return"
CanFree == pages > 0

\* The I/O provider does not know the event of old tracers.
PageFree(c, old) ==
    /\ Event
    /\ IF CanFree THEN pages' = pages - 1 /\ mem' = MemAfter(c, "freed")
                  ELSE UNCHANGED <<pages, mem>>
    /\ calls' = IF old THEN calls
                ELSE [t \in Tids |-> IF FreedBy(t) = 0 THEN calls[t]
                                     ELSE [calls[t] EXCEPT !.rq.freed = @ + FreedBy(t)]]
    /\ UNCHANGED <<cpus, prev, fdType, stats, ifaces, allocs>>

\* _process_writeback_pages_written(): each running thread is charged.
Writeback(n) ==
    /\ Event
    /\ calls' = [t \in Tids |->
          IF HasRequest(t) /\ \E c \in DOMAIN cpus : cpus[c] = t
            THEN [calls[t] EXCEPT !.rq.written = @ + n] ELSE calls[t]]
    /\ UNCHANGED <<cpus, prev, pages, fdType, mem, stats, ifaces, allocs>>

\* _process_mm_vmscan_wakeup_kswapd()
WakeKswapd(c) ==
    /\ Event
    /\ calls' = IF Current(c) = None THEN calls
                ELSE IF ~HasRequest(Current(c)) THEN calls
                ELSE [calls EXCEPT ![Current(c)].rq.woke = TRUE]
    /\ UNCHANGED <<cpus, prev, pages, fdType, mem, stats, ifaces, allocs>>

-----------------------------------------------------------------------------
(* Packets.                                                                *)

\* A packet sent during a write: the descriptor may be a socket.
TypeAfterSend(c) ==
    IF ~InCall(c) THEN fdType
    ELSE IF calls[Current(c)].name = "write" /\ fdType = "unknown" THEN "maybe_net" ELSE fdType

Xmit(c) ==
    /\ Event
    /\ ifaces' = [ifaces EXCEPT !.sent = @ + 1]
    /\ fdType' = TypeAfterSend(c)
    /\ UNCHANGED <<cpus, prev, calls, pages, mem, stats, allocs>>

Receive ==
    /\ Event
    /\ ifaces' = [ifaces EXCEPT !.received = @ + 1]
    /\ UNCHANGED <<cpus, prev, calls, pages, fdType, mem, stats, allocs>>

-----------------------------------------------------------------------------
MemInit ==
    /\ now = 0
    /\ cpus = [c \in {} |-> None]
    /\ prev = [t \in Tids |-> 0]
    /\ calls = [t \in Tids |-> None]
    /\ pages = 0
    /\ fdType = None
    /\ mem = [t \in {} |-> None]
    /\ stats = [k \in {} |-> NewStats]
    /\ ifaces = [sent |-> 0, received |-> 0]
    /\ allocs = << >>

MemNext ==
    \/ \E c \in Cpus :
          \/ \E p, n \in Tids \cup {0} : Switch(c, p, n)
          \/ \E name \in Calls : SyscallEntry(c, name)
          \/ \E ok \in BOOLEAN : SyscallExit(c, ok)
          \/ PageAlloc(c)
          \/ \E old \in BOOLEAN : PageFree(c, old)
          \/ WakeKswapd(c)
          \/ Xmit(c)
    \/ \E n \in 1 .. 2 : Writeback(n)
    \/ Receive

MemSpec == MemInit /\ [][MemNext]_memVars

-----------------------------------------------------------------------------
SumOf(field) == SumFunction([t \in DOMAIN mem |-> mem[t][field]])

\* The pages allocated after this date.
Since(date) == Cardinality({i \in DOMAIN allocs : allocs[i] > date})

\* A request has as many pages as were allocated since it began, by any thread
\* of any CPU (mem.py:54-59): neither switches nor lost entries and exits
\* change that.  The pages that the wanted threads free, of which some were
\* allocated before the trace, are never more than were allocated: with those
\* still in use they are at most all allocations (mem.py:69-73,
\* core/memtop.py:43-71).
PagesAreAccounted ==
    /\ \A t \in Tids : HasRequest(t) => calls[t].rq.alloc = Since(calls[t].begin)
    /\ pages >= 0 /\ SumOf("freed") + pages <= Len(allocs)

\* The calls that the statistics of a thread have, of all names, never overlap
\* in time, with entries or exits missing from the trace or not; each name has
\* the minimum, maximum and sum of the durations of its own (syscalls.py:
\* 36-73, io.py:82-93, core/syscalls.py:43-64, 91-100).
CallsAreDisjoint ==
    /\ \A j, k \in DOMAIN stats :
          \A x \in DOMAIN stats[j].list, y \in DOMAIN stats[k].list :
             j[1] = k[1] /\ <<j, x>> # <<k, y>> =>
                 \/ stats[j].list[x].end <= stats[k].list[y].begin
                 \/ stats[k].list[y].end <= stats[j].list[x].begin
    /\ \A k \in DOMAIN stats :
          LET list == stats[k].list
              durations == {list[i].end - list[i].begin : i \in DOMAIN list}
          IN /\ stats[k].min = Min(durations) /\ stats[k].max = Max(durations)
             /\ stats[k].total = SumFunction([i \in DOMAIN list |-> list[i].end - list[i].begin])
=============================================================================

------------------------------ MODULE IrqState ------------------------------
(***************************************************************************)
(* Interrupts: the provider which pairs their events (linuxautomaton/      *)
(* irq.py) and the analysis which it notifies (core/irq.py).               *)
(*                                                                         *)
(* The kernel is the environment.  A softirq is level-triggered: raising   *)
(* it sets a bit of its CPU, once; later the CPU takes all the bits at     *)
(* once, then handles each softirq it took, while new bits may be set.     *)
(* Hard interrupts may nest.  In a lossless trace all of it is recorded;   *)
(* otherwise any event can come next and the kernel's side is left alone.  *)
(* A period is open all the time, so every notification is counted.        *)
(***************************************************************************)
EXTENDS Providers, Integers, Sequences, SequencesExt

CONSTANTS Irqs, Vecs,
          Confs,          \* --cpu, --min, --max; is the trace lossless, and
                          \* does it begin outside of any handler?
          MaxNest,        \* bound: nested hard interrupts
          MaxRaised,      \* bound: SoftIRQ objects in a list
          MaxTs           \* bound: greatest timestamp

ASSUME IrqAssumption ==
    /\ None \notin Nat \cup Irqs \cup Vecs
    /\ None \notin [vec : Vecs, begin : Nat]
    /\ Confs \subseteq [cpus : SUBSET Cpus, min : Nat \cup {None},
                        max : Nat \cup {None}, lossless : BOOLEAN, idle : BOOLEAN]
    /\ MaxNest \in Nat /\ MaxRaised \in Nat /\ MaxTs \in Nat

VARIABLES conf,           \* AnalysisConfig, and the kind of trace
          hardIrq,        \* current_hard_irq of each CPU
          softirqs,       \* current_softirqs of each CPU, by vector
          report,         \* the interrupt last logged by the analysis
          fault,          \* the exception which stopped the program
          bits,           \* kernel: when each pending softirq was raised
          taken,          \* kernel: the same, of those taken for handling
          serving,        \* kernel: the softirq that each CPU handles
          stack           \* kernel: the hard interrupts that it handles

stateVars  == <<hardIrq, softirqs>>
kernelVars == <<bits, taken, serving, stack>>
irqVars    == <<conf, now, stateVars, report, fault, kernelVars>>

NoSoft == [v \in Vecs |-> None]

\* SoftIRQ.new_from_softirq_raise() and new_from_softirq_entry()
Raised(ts) == [raise |-> ts, begin |-> None]
Entered(ts) == [raise |-> None, begin |-> ts]

Idle(c) == serving[c] = None

-----------------------------------------------------------------------------
IrqInit ==
    /\ conf \in Confs
    /\ now = 1
    /\ hardIrq = [c \in Cpus |-> None]
    /\ softirqs = [c \in Cpus |-> [v \in Vecs |-> << >>]]
    /\ report = None
    /\ fault = "none"
    /\ bits = [c \in Cpus |-> NoSoft]
    /\ taken = [c \in Cpus |-> NoSoft]
    /\ serving \in [Cpus -> IF conf.idle THEN {None}
                            ELSE {None} \cup [vec : Vecs, begin : {1}]]
    /\ stack = [c \in Cpus |-> << >>]

At(ts) ==
    /\ fault = "none"
    /\ now <= ts
    /\ now' = ts
    /\ UNCHANGED conf

\* core/irq.py:55-92: the interrupts that the filters drop, and the log.
Logged(c, irq) ==
    /\ c \in conf.cpus
    /\ conf.min # None => irq.end - irq.begin >= conf.min
    /\ conf.max # None => irq.end - irq.begin <= conf.max

Report(c, irq) == report' = IF Logged(c, irq) THEN irq ELSE None

\* _process_irq_handler_entry(): forgets an interrupt which has not returned.
TraceHardEntry(ts, c, i) ==
    /\ hardIrq' = [hardIrq EXCEPT ![c] = [irq |-> i, begin |-> ts]]
    /\ report' = None
    /\ UNCHANGED <<softirqs, fault>>

\* _process_irq_handler_exit(): only of the interrupt entered last.
TraceHardExit(ts, c, i) ==
    /\ IF hardIrq[c] # None /\ hardIrq[c].irq = i
         THEN Report(c, [kind |-> "hard", id |-> i, cpu |-> c, raise |-> None,
                         begin |-> hardIrq[c].begin, end |-> ts])
         ELSE report' = None
    /\ hardIrq' = [hardIrq EXCEPT ![c] = None]
    /\ UNCHANGED <<softirqs, fault>>

\* Mutant: a new SoftIRQ goes before those already raised.
TraceRaiseFirst(ts, c, v) ==
    /\ Len(softirqs[c][v]) < MaxRaised
    /\ softirqs' = [softirqs EXCEPT ![c][v] = <<Raised(ts)>> \o @]
    /\ report' = None
    /\ UNCHANGED <<hardIrq, fault>>

\* _process_softirq_raise(): nothing is queued behind a SoftIRQ which has not
\* begun.
TraceRaise(ts, c, v) ==
    /\ LET queue == softirqs[c][v] IN
       IF queue # << >> /\ Head(queue).begin = None
         THEN UNCHANGED softirqs
         ELSE /\ Len(queue) < MaxRaised
              /\ softirqs' = [softirqs EXCEPT ![c][v] = Append(@, Raised(ts))]
    /\ report' = None
    /\ UNCHANGED <<hardIrq, fault>>

\* Mutant: the entry is not matched with a raise.
TraceEntryAlone(ts, c, v) ==
    /\ Len(softirqs[c][v]) < MaxRaised
    /\ softirqs' = [softirqs EXCEPT ![c][v] = Append(@, Entered(ts))]
    /\ report' = None
    /\ UNCHANGED <<hardIrq, fault>>

\* _process_softirq_entry()
TraceEntry(ts, c, v) ==
    /\ softirqs' = [softirqs EXCEPT ![c][v] =
                      IF @ # << >> THEN [@ EXCEPT ![1].begin = ts]
                                   ELSE <<Entered(ts)>>]
    /\ report' = None
    /\ UNCHANGED <<hardIrq, fault>>

\* _process_softirq_exit(): the first SoftIRQ of the list ends.  Without a
\* begin timestamp the statistics cannot be updated (core/irq.py:118), so an
\* analysis which does not filter it out fails.
TraceExit(ts, c, v) ==
    LET queue == softirqs[c][v] IN
    /\ IF queue = << >> THEN report' = None /\ UNCHANGED <<softirqs, fault>>
       ELSE IF Head(queue).begin # None
         THEN /\ Report(c, [kind |-> "soft", id |-> v, cpu |-> c,
                            raise |-> Head(queue).raise,
                            begin |-> Head(queue).begin, end |-> ts])
              /\ softirqs' = [softirqs EXCEPT ![c][v] = Tail(@)]
              /\ UNCHANGED fault
       ELSE IF c \in conf.cpus
         THEN fault' = "TypeError" /\ report' = None /\ UNCHANGED softirqs
         ELSE /\ softirqs' = [softirqs EXCEPT ![c][v] = Tail(@)]
              /\ report' = None
              /\ UNCHANGED fault
    /\ UNCHANGED hardIrq

-----------------------------------------------------------------------------
\* The kernel's side of each event.
KernelHardEntry(ts, c, i) ==
    /\ Len(stack[c]) < MaxNest
    /\ \A k \in DOMAIN stack[c] : stack[c][k].irq # i
    /\ stack' = [stack EXCEPT ![c] = Append(@, [irq |-> i, begin |-> ts])]
    /\ UNCHANGED <<bits, taken, serving>>

KernelHardExit(c, i) ==
    /\ stack[c] # << >>
    /\ Last(stack[c]).irq = i
    /\ stack' = [stack EXCEPT ![c] = Front(@)]
    /\ UNCHANGED <<bits, taken, serving>>

KernelRaise(ts, c, v) ==
    /\ bits' = [bits EXCEPT ![c][v] = IF @ = None THEN ts ELSE @]
    /\ UNCHANGED <<taken, serving, stack>>

KernelEntry(ts, c, v) ==
    /\ Idle(c)
    /\ stack[c] = << >>
    /\ taken[c][v] # None
    /\ serving' = [serving EXCEPT ![c] = [vec |-> v, begin |-> ts]]
    /\ taken' = [taken EXCEPT ![c][v] = None]
    /\ UNCHANGED <<bits, stack>>

KernelExit(c, v) ==
    /\ ~Idle(c)
    /\ serving[c].vec = v
    /\ stack[c] = << >>
    /\ serving' = [serving EXCEPT ![c] = None]
    /\ UNCHANGED <<bits, taken, stack>>

\* A CPU takes its pending bits, without an event.
KernelTakesBits(c) ==
    /\ conf.lossless
    /\ fault = "none"
    /\ Idle(c)
    /\ stack[c] = << >>
    /\ taken[c] = NoSoft
    /\ bits[c] # NoSoft
    /\ taken' = [taken EXCEPT ![c] = bits[c]]
    /\ bits' = [bits EXCEPT ![c] = NoSoft]
    /\ UNCHANGED <<conf, now, stateVars, report, fault, serving, stack>>

\* The events of the trace.
HardEntry(ts, c, i) ==
    /\ At(ts)
    /\ TraceHardEntry(ts, c, i)
    /\ IF conf.lossless THEN KernelHardEntry(ts, c, i) ELSE UNCHANGED kernelVars

HardExit(ts, c, i) ==
    /\ At(ts)
    /\ TraceHardExit(ts, c, i)
    /\ IF conf.lossless THEN KernelHardExit(c, i) ELSE UNCHANGED kernelVars

SoftRaise(ts, c, v) ==
    /\ At(ts)
    /\ TraceRaise(ts, c, v)
    /\ IF conf.lossless THEN KernelRaise(ts, c, v) ELSE UNCHANGED kernelVars

SoftEntry(ts, c, v) ==
    /\ At(ts)
    /\ TraceEntry(ts, c, v)
    /\ IF conf.lossless THEN KernelEntry(ts, c, v) ELSE UNCHANGED kernelVars

SoftExit(ts, c, v) ==
    /\ At(ts)
    /\ TraceExit(ts, c, v)
    /\ IF conf.lossless THEN KernelExit(c, v) ELSE UNCHANGED kernelVars

IrqNext ==
    \/ \E ts \in 1 .. MaxTs, c \in Cpus :
         \/ \E i \in Irqs : HardEntry(ts, c, i) \/ HardExit(ts, c, i)
         \/ \E v \in Vecs : SoftRaise(ts, c, v) \/ SoftEntry(ts, c, v)
                                                 \/ SoftExit(ts, c, v)
    \/ \E c \in Cpus : KernelTakesBits(c)

IrqSpec == IrqInit /\ [][IrqNext]_irqVars

-----------------------------------------------------------------------------
\* Whatever events are missing: at most the first SoftIRQ of a list has
\* begun, the list is in the order of the raises, and no duration and no
\* raise latency of a logged interrupt is negative.
RaisesAreQueued ==
    /\ \A c \in Cpus, v \in Vecs :
         LET queue == softirqs[c][v] IN
         /\ \A k \in DOMAIN queue : k > 1 => queue[k].begin = None
         /\ \A j, k \in DOMAIN queue :
              j < k /\ queue[j].raise # None => queue[j].raise <= queue[k].raise
    /\ report # None =>
         /\ report.begin <= report.end
         /\ report.raise # None => report.raise <= report.begin

\* With a complete trace which begins outside of the handlers, the softirq
\* being handled is the first of its list and began when its handler was
\* entered, and nothing else has begun: no exit is paired with an earlier
\* entry.  The same holds of the innermost hard interrupt, unless another one
\* has interrupted it.  The durations logged are exact.
HandledIsExact ==
    conf.lossless /\ conf.idle => \A c \in Cpus :
        /\ ~Idle(c) =>
             LET queue == softirqs[c][serving[c].vec] IN
             queue # << >> /\ Head(queue).begin = serving[c].begin
        /\ \A v \in Vecs : \A k \in DOMAIN softirqs[c][v] :
             softirqs[c][v][k].begin # None => ~Idle(c) /\ serving[c].vec = v
        /\ hardIrq[c] # None => stack[c] # << >> /\ hardIrq[c] = Last(stack[c])

\* "Ignore the exit if either vec was not in the cpu's dict or if its irq list
\* was empty (i.e. no matching raise)." (linuxautomaton/irq.py:110-111)
UnmatchedExitIsIgnored == fault = "none"
=============================================================================

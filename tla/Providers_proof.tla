--------------------------- MODULE Providers_proof --------------------------
(***************************************************************************)
(* Two providers and what the analyses make of them.                       *)
(*                                                                         *)
(* The lists of SoftIRQ objects stay in the order of their raises and      *)
(* nothing logged has a negative duration, for any numbers of CPUs,        *)
(* interrupts and vectors, whatever the trace lost: only the provider's    *)
(* side of each event is used for that.  In a complete trace what the      *)
(* provider holds as begun is what the kernel handles.                     *)
(*                                                                         *)
(* The pages of the requests and the durations of the system calls, for    *)
(* any threads, CPUs and calls, and any trace, with lost entries and exits *)
(* or without.  That a request has the pages allocated since it began is   *)
(* kept by each event.  The bound on the pages in use is kept because the  *)
(* sum over the threads and the count of the analysis change together.     *)
(* The calls of a thread do not overlap because each pending call began    *)
(* after those of its statistics ended.                                    *)
(***************************************************************************)
EXTENDS IrqState, MemNet, DataTheorems

-----------------------------------------------------------------------------
(* Interrupts.                                                             *)

Stamp == Nat \cup {None}
SoftIrq == [raise : Stamp, begin : Stamp]
HardIrq == [irq : Irqs, begin : Nat]

\* A list at time t: all in the past, only its head may have begun or may
\* have no raise, and the raises are in order.
InPast(q, t) == \A k \in DOMAIN q :
    /\ q[k].raise # None => q[k].raise <= t
    /\ q[k].begin # None => q[k].begin <= t

OnlyHeadBegun(q) == \A k \in DOMAIN q :
    k > 1 => q[k].raise # None /\ q[k].begin = None

HeadInOrder(q) ==
    q # << >> /\ q[1].raise # None /\ q[1].begin # None => q[1].raise <= q[1].begin

InRaiseOrder(q) == \A j, k \in DOMAIN q :
    j < k /\ q[j].raise # None => q[j].raise <= q[k].raise

Queue(q, t) ==
    /\ q \in Seq(SoftIrq)
    /\ InPast(q, t) /\ OnlyHeadBegun(q) /\ HeadInOrder(q) /\ InRaiseOrder(q)

ReportInOrder ==
    report # None =>
        /\ report.begin <= report.end
        /\ report.raise # None => report.raise <= report.begin

IrqInv ==
    /\ now \in Nat
    /\ hardIrq \in [Cpus -> HardIrq \cup {None}]
    /\ \A c \in Cpus : hardIrq[c] # None => hardIrq[c].begin <= now
    /\ softirqs \in [Cpus -> [Vecs -> Seq(SoftIrq)]]
    /\ \A c \in Cpus, v \in Vecs : Queue(softirqs[c][v], now)
    /\ ReportInOrder

-----------------------------------------------------------------------------
(* What the provider does to one list.                                     *)

\* A list stays one as time goes by.
LEMMA QueueLater ==
    ASSUME NEW q, NEW t \in Nat, NEW ts \in Nat, t <= ts, Queue(q, t)
    PROVE Queue(q, ts)
<1>1. q \in Seq(SoftIrq) /\ InPast(q, t)
  BY DEF Queue
<1>2. \A k \in DOMAIN q : q[k] \in SoftIrq
  BY <1>1
<1>3. InPast(q, ts)
  BY <1>1, <1>2, IrqAssumption DEF InPast, SoftIrq, Stamp
<1>4. QED
  BY <1>3 DEF Queue

\* A raise is appended to a list which is empty or whose head has begun.
LEMMA QueueRaise ==
    ASSUME NEW q, NEW ts \in Nat, Queue(q, ts)
    PROVE Queue(Append(q, Raised(ts)), ts)
<1> DEFINE r == Append(q, Raised(ts))
<1>1. q \in Seq(SoftIrq)
  BY DEF Queue
<1>2. Raised(ts) \in SoftIrq /\ Raised(ts).raise = ts /\ Raised(ts).begin = None
  BY DEF Raised, SoftIrq, Stamp
<1>3. ts # None
  BY IrqAssumption
<1>4. r \in Seq(SoftIrq) /\ Len(r) = Len(q) + 1 /\ r[Len(q) + 1] = Raised(ts)
  BY <1>1, <1>2
<1>5. \A k \in 1 .. Len(q) : r[k] = q[k] /\ q[k] \in SoftIrq
  BY <1>1, <1>2
<1>6. DOMAIN q = 1 .. Len(q) /\ DOMAIN r = 1 .. Len(q) + 1 /\ Len(q) \in Nat
  BY <1>1, <1>4
<1>7. r # << >> /\ \A k \in DOMAIN r : k \in DOMAIN q \/ (k = Len(q) + 1 /\ r[k] = Raised(ts))
  BY <1>4, <1>6
<1> HIDE DEF r
<1>8. InPast(r, ts)
  BY <1>2, <1>3, <1>5, <1>6, <1>7 DEF Queue, InPast
<1>9. OnlyHeadBegun(r)
  BY <1>2, <1>3, <1>5, <1>6, <1>7 DEF Queue, OnlyHeadBegun
<1>10. HeadInOrder(r)
  <2>1. CASE q = << >>
    <3>1. r[1] = Raised(ts)
      BY <1>4, <2>1
    <3>2. QED
      BY <3>1, <1>2 DEF HeadInOrder
  <2>2. CASE q # << >>
    <3>1. r[1] = q[1]
      BY <1>1, <1>5, <2>2
    <3>2. QED
      BY <3>1, <2>2 DEF Queue, HeadInOrder
  <2>3. QED
    BY <2>1, <2>2
<1>11. InRaiseOrder(r)
  <2> SUFFICES ASSUME NEW j \in DOMAIN r, NEW k \in DOMAIN r, j < k, r[j].raise # None
               PROVE r[j].raise <= r[k].raise
    BY DEF InRaiseOrder
  <2>1. j \in DOMAIN q /\ r[j] = q[j]
    BY <1>5, <1>6
  <2>2. CASE k \in DOMAIN q
    BY <2>1, <2>2, <1>5, <1>6 DEF Queue, InRaiseOrder
  <2>3. CASE k = Len(q) + 1
    BY <2>1, <2>3, <1>2, <1>4 DEF Queue, InPast
  <2>4. QED
    BY <1>7, <2>2, <2>3
<1>12. QED
  BY <1>4, <1>8, <1>9, <1>10, <1>11 DEF Queue, r

\* A handler entry makes the head of a list begin.
LEMMA QueueEntry ==
    ASSUME NEW q, NEW ts \in Nat, Queue(q, ts), q # << >>
    PROVE Queue([q EXCEPT ![1].begin = ts], ts)
<1> DEFINE r == [q EXCEPT ![1].begin = ts]
<1>1. q \in Seq(SoftIrq) /\ 1 \in DOMAIN q /\ DOMAIN q = 1 .. Len(q)
  BY DEF Queue
<1>2. q[1] \in SoftIrq
  BY <1>1
<1>3. r[1] = [q[1] EXCEPT !.begin = ts] /\ \A k \in DOMAIN q : k # 1 => r[k] = q[k]
  BY <1>1
<1>4. [q[1] EXCEPT !.begin = ts] \in SoftIrq
  BY <1>2 DEF SoftIrq, Stamp
<1>5. r \in Seq(SoftIrq) /\ DOMAIN r = DOMAIN q
  BY <1>1, <1>4
<1>6. r[1].raise = q[1].raise /\ r[1].begin = ts
  BY <1>2, <1>3 DEF SoftIrq
<1> HIDE DEF r
<1>7. InPast(r, ts)
  <2> SUFFICES ASSUME NEW k \in DOMAIN q
               PROVE /\ r[k].raise # None => r[k].raise <= ts
                     /\ r[k].begin # None => r[k].begin <= ts
    BY <1>5 DEF InPast
  <2>1. CASE k = 1
    BY <2>1, <1>1, <1>6 DEF Queue, InPast
  <2>2. CASE k # 1
    BY <2>2, <1>3 DEF Queue, InPast
  <2>3. QED
    BY <2>1, <2>2
<1>8. OnlyHeadBegun(r)
  BY <1>1, <1>3, <1>5 DEF Queue, OnlyHeadBegun
<1>9. HeadInOrder(r)
  BY <1>1, <1>6 DEF Queue, InPast, HeadInOrder
<1>10. InRaiseOrder(r)
  <2>1. \A k \in DOMAIN q : r[k].raise = q[k].raise
    BY <1>3, <1>6
  <2>2. QED
    BY <2>1, <1>5 DEF Queue, InRaiseOrder
<1>11. QED
  BY <1>5, <1>7, <1>8, <1>9, <1>10 DEF Queue, r

\* A handler entry without a raise makes a list of one.
LEMMA QueueFresh ==
    ASSUME NEW ts \in Nat
    PROVE Queue(<<Entered(ts)>>, ts)
<1>1. Entered(ts) \in SoftIrq /\ Entered(ts).raise = None /\ Entered(ts).begin = ts
  BY DEF Entered, SoftIrq, Stamp
<1>2. <<Entered(ts)>> \in Seq(SoftIrq) /\ DOMAIN <<Entered(ts)>> = {1}
      /\ <<Entered(ts)>>[1] = Entered(ts)
  BY <1>1
<1>3. QED
  BY <1>1, <1>2 DEF Queue, InPast, OnlyHeadBegun, HeadInOrder, InRaiseOrder

\* A handler exit removes the head of a list.
LEMMA QueueExit ==
    ASSUME NEW q, NEW ts \in Nat, Queue(q, ts), q # << >>
    PROVE Queue(Tail(q), ts)
<1> DEFINE r == Tail(q)
<1>1. q \in Seq(SoftIrq) /\ DOMAIN q = 1 .. Len(q) /\ Len(q) \in Nat \ {0}
  BY DEF Queue
<1>2. r \in Seq(SoftIrq) /\ DOMAIN r = 1 .. Len(q) - 1
  BY <1>1
<1>3. \A k \in DOMAIN r : r[k] = q[k + 1] /\ k + 1 \in DOMAIN q /\ k + 1 > 1 /\ k \in Nat
  BY <1>1, <1>2
<1>4. r # << >> => 1 \in DOMAIN r
  BY <1>2
<1> HIDE DEF r
<1>5. InPast(r, ts)
  BY <1>3 DEF Queue, InPast
<1>6. \A k \in DOMAIN r : r[k].raise # None /\ r[k].begin = None
  BY <1>3 DEF Queue, OnlyHeadBegun
<1>7. OnlyHeadBegun(r) /\ HeadInOrder(r)
  BY <1>4, <1>6 DEF OnlyHeadBegun, HeadInOrder
<1>8. InRaiseOrder(r)
  <2> SUFFICES ASSUME NEW j \in DOMAIN r, NEW k \in DOMAIN r, j < k, r[j].raise # None
               PROVE r[j].raise <= r[k].raise
    BY DEF InRaiseOrder
  <2>1. j + 1 < k + 1
    BY <1>3
  <2>2. QED
    BY <2>1, <1>3 DEF Queue, InRaiseOrder
<1>9. QED
  BY <1>2, <1>5, <1>7, <1>8 DEF Queue, r

-----------------------------------------------------------------------------
\* All lists are empty at the beginning.
LEMMA IrqInitInv == IrqInit => IrqInv
<1> SUFFICES ASSUME IrqInit PROVE IrqInv
  OBVIOUS
<1>1. now \in Nat /\ report = None
  BY DEF IrqInit
<1>2. hardIrq \in [Cpus -> HardIrq \cup {None}] /\ \A c \in Cpus : hardIrq[c] = None
  BY DEF IrqInit
<1>3. softirqs \in [Cpus -> [Vecs -> Seq(SoftIrq)]]
  BY DEF IrqInit
<1>4. \A c \in Cpus, v \in Vecs : softirqs[c][v] = << >>
  BY DEF IrqInit
<1>5. Queue(<< >>, now)
  BY DEF Queue, InPast, OnlyHeadBegun, HeadInOrder, InRaiseOrder
<1>6. QED
  BY <1>1, <1>2, <1>3, <1>4, <1>5 DEF IrqInv, ReportInOrder

\* What is reported of an interrupt whose timestamps are in order is in order.
LEMMA ReportPreserved ==
    ASSUME NEW c, NEW irq, Report(c, irq),
           irq.begin <= irq.end,
           irq.raise # None => irq.raise <= irq.begin
    PROVE ReportInOrder'
BY DEF Report, ReportInOrder

\* The lists after an event which changes at most one of them.
LEMMA SoftPreserved ==
    ASSUME IrqInv, NEW ts \in Nat, At(ts), NEW c \in Cpus, NEW v \in Vecs, NEW q,
           Queue(q, ts), softirqs' = [softirqs EXCEPT ![c][v] = q],
           UNCHANGED hardIrq, ReportInOrder'
    PROVE IrqInv'
<1>1. now \in Nat /\ now <= ts /\ now' = ts /\ q \in Seq(SoftIrq)
  BY DEF IrqInv, At, Queue
<1>2. softirqs' \in [Cpus -> [Vecs -> Seq(SoftIrq)]]
  BY <1>1 DEF IrqInv
<1>3. \A d \in Cpus, w \in Vecs :
        softirqs'[d][w] = IF d = c /\ w = v THEN q ELSE softirqs[d][w]
  BY DEF IrqInv
<1>4. \A d \in Cpus, w \in Vecs : Queue(softirqs[d][w], ts)
  BY <1>1, QueueLater DEF IrqInv
<1>5. \A d \in Cpus, w \in Vecs : Queue(softirqs'[d][w], ts)
  BY <1>3, <1>4
<1>6. \A d \in Cpus, w \in Vecs : Queue(softirqs'[d][w], now')
  BY <1>1, <1>5
<1>7. \A d \in Cpus : hardIrq'[d] # None => hardIrq'[d].begin <= now'
  <2> SUFFICES ASSUME NEW d \in Cpus, hardIrq[d] # None
               PROVE hardIrq[d].begin <= ts
    BY <1>1
  <2>1. hardIrq[d] \in HardIrq /\ hardIrq[d].begin <= now
    BY DEF IrqInv
  <2>2. QED
    BY <1>1, <2>1 DEF HardIrq
<1>8. QED
  BY <1>1, <1>2, <1>6, <1>7 DEF IrqInv, Queue

\* The same, of an event which changes none.
LEMMA HardPreserved ==
    ASSUME IrqInv, NEW ts \in Nat, At(ts), UNCHANGED softirqs,
           NEW c \in Cpus, NEW h \in HardIrq \cup {None}, h # None => h.begin <= ts,
           hardIrq' = [hardIrq EXCEPT ![c] = h], ReportInOrder'
    PROVE IrqInv'
<1>1. now \in Nat /\ now <= ts /\ now' = ts
  BY DEF IrqInv, At
<1>2. \A d \in Cpus, w \in Vecs : Queue(softirqs[d][w], ts)
  BY <1>1, QueueLater DEF IrqInv
<1>3. hardIrq' \in [Cpus -> HardIrq \cup {None}]
  BY DEF IrqInv
<1>4. \A d \in Cpus : hardIrq'[d] # None => hardIrq'[d].begin <= ts
  <2> SUFFICES ASSUME NEW d \in Cpus, hardIrq'[d] # None
               PROVE hardIrq'[d].begin <= ts
    OBVIOUS
  <2>1. CASE d = c
    BY <2>1 DEF IrqInv
  <2>2. CASE d # c
    <3>1. hardIrq'[d] = hardIrq[d]
      BY <2>2 DEF IrqInv
    <3>2. hardIrq[d] \in HardIrq /\ hardIrq[d].begin <= now
      BY <3>1 DEF IrqInv
    <3>3. QED
      BY <1>1, <3>1, <3>2 DEF HardIrq
  <2>3. QED
    BY <2>1, <2>2
<1>5. QED
  BY <1>1, <1>2, <1>3, <1>4 DEF IrqInv

-----------------------------------------------------------------------------
\* A hard interrupt is entered.
LEMMA HardEntryInv ==
    ASSUME IrqInv, NEW ts \in Nat, NEW c \in Cpus, NEW i \in Irqs, HardEntry(ts, c, i)
    PROVE IrqInv'
<1>1. At(ts) /\ TraceHardEntry(ts, c, i)
  BY DEF HardEntry
<1>2. ReportInOrder'
  BY <1>1 DEF TraceHardEntry, ReportInOrder
<1> DEFINE h == [irq |-> i, begin |-> ts]
<1>3. h \in HardIrq \cup {None} /\ h.begin <= ts
  BY DEF HardIrq
<1>4. hardIrq' = [hardIrq EXCEPT ![c] = h] /\ UNCHANGED softirqs
  BY <1>1 DEF TraceHardEntry
<1> HIDE DEF h
<1>5. QED
  BY <1>1, <1>2, <1>3, <1>4, HardPreserved

\* A hard interrupt returns.
LEMMA HardExitInv ==
    ASSUME IrqInv, NEW ts \in Nat, NEW c \in Cpus, NEW i \in Irqs, HardExit(ts, c, i)
    PROVE IrqInv'
<1>1. At(ts) /\ TraceHardExit(ts, c, i)
  BY DEF HardExit
<1>2. ReportInOrder'
  <2>1. CASE hardIrq[c] # None /\ hardIrq[c].irq = i
    <3> DEFINE irq == [kind |-> "hard", id |-> i, cpu |-> c, raise |-> None,
                       begin |-> hardIrq[c].begin, end |-> ts]
    <3>1. hardIrq[c] \in HardIrq /\ hardIrq[c].begin <= now /\ now <= ts /\ now \in Nat
      BY <1>1, <2>1 DEF IrqInv, At
    <3>2. irq.begin <= irq.end /\ irq.raise = None
      BY <3>1 DEF HardIrq
    <3>3. Report(c, irq)
      BY <1>1, <2>1 DEF TraceHardExit
    <3> HIDE DEF irq
    <3>4. QED
      BY <3>2, <3>3, ReportPreserved
  <2>2. CASE ~(hardIrq[c] # None /\ hardIrq[c].irq = i)
    BY <1>1, <2>2 DEF TraceHardExit, ReportInOrder
  <2>3. QED
    BY <2>1, <2>2
<1>3. QED
  BY <1>1, <1>2, HardPreserved DEF TraceHardExit

\* A softirq is raised.
LEMMA SoftRaiseInv ==
    ASSUME IrqInv, NEW ts \in Nat, NEW c \in Cpus, NEW v \in Vecs, SoftRaise(ts, c, v)
    PROVE IrqInv'
<1> DEFINE q == softirqs[c][v]
<1>1. At(ts) /\ TraceRaise(ts, c, v)
  BY DEF SoftRaise
<1>2. ReportInOrder' /\ UNCHANGED hardIrq
  BY <1>1 DEF TraceRaise, ReportInOrder
<1>3. Queue(q, ts)
  BY <1>1, QueueLater DEF IrqInv, At
<1>4. CASE q # << >> /\ Head(q).begin = None
  <2>1. softirqs' = softirqs
    BY <1>1, <1>4 DEF TraceRaise
  <2>2. softirqs' = [softirqs EXCEPT ![c][v] = q]
    BY <2>1 DEF IrqInv
  <2>3. QED
    BY <1>1, <1>2, <1>3, <2>2, SoftPreserved
<1>5. CASE ~(q # << >> /\ Head(q).begin = None)
  <2>1. softirqs' = [softirqs EXCEPT ![c][v] = Append(q, Raised(ts))]
    BY <1>1, <1>5 DEF TraceRaise, IrqInv
  <2>2. Queue(Append(q, Raised(ts)), ts)
    BY <1>3, QueueRaise
  <2>3. QED
    BY <1>1, <1>2, <2>1, <2>2, SoftPreserved
<1>6. QED
  BY <1>4, <1>5

\* The handler of a softirq is entered.
LEMMA SoftEntryInv ==
    ASSUME IrqInv, NEW ts \in Nat, NEW c \in Cpus, NEW v \in Vecs, SoftEntry(ts, c, v)
    PROVE IrqInv'
<1> DEFINE q == softirqs[c][v]
           r == IF q # << >> THEN [q EXCEPT ![1].begin = ts] ELSE <<Entered(ts)>>
<1>1. At(ts) /\ TraceEntry(ts, c, v)
  BY DEF SoftEntry
<1>2. ReportInOrder' /\ UNCHANGED hardIrq
  BY <1>1 DEF TraceEntry, ReportInOrder
<1>3. Queue(q, ts)
  BY <1>1, QueueLater DEF IrqInv, At
<1>4. softirqs' = [softirqs EXCEPT ![c][v] = r]
  BY <1>1 DEF TraceEntry, IrqInv
<1>5. Queue(r, ts)
  BY <1>3, QueueEntry, QueueFresh
<1> HIDE DEF r
<1>6. QED
  BY <1>1, <1>2, <1>4, <1>5, SoftPreserved

\* The handler of a softirq returns.
LEMMA SoftExitInv ==
    ASSUME IrqInv, NEW ts \in Nat, NEW c \in Cpus, NEW v \in Vecs, SoftExit(ts, c, v)
    PROVE IrqInv'
<1> DEFINE q == softirqs[c][v]
           irq == [kind |-> "soft", id |-> v, cpu |-> c, raise |-> Head(q).raise,
                   begin |-> Head(q).begin, end |-> ts]
<1>1. At(ts) /\ TraceExit(ts, c, v)
  BY DEF SoftExit
<1>2. UNCHANGED hardIrq
  BY <1>1 DEF TraceExit
<1>3. Queue(q, ts)
  BY <1>1, QueueLater DEF IrqInv, At
<1>4. ReportInOrder'
  <2>1. CASE q # << >> /\ Head(q).begin # None
    <3>1. Report(c, irq)
      BY <1>1, <2>1 DEF TraceExit
    <3>2. Head(q) = q[1] /\ 1 \in DOMAIN q
      BY <1>3, <2>1 DEF Queue
    <3>3. irq.begin = q[1].begin /\ irq.end = ts /\ irq.raise = q[1].raise
      BY <3>2
    <3>4. irq.begin <= irq.end /\ (irq.raise # None => irq.raise <= irq.begin)
      BY <1>3, <2>1, <3>2, <3>3 DEF Queue, InPast, HeadInOrder
    <3> HIDE DEF irq
    <3>5. QED
      BY <3>1, <3>4, ReportPreserved
  <2>2. CASE ~(q # << >> /\ Head(q).begin # None)
    BY <1>1, <2>2 DEF TraceExit, ReportInOrder
  <2>3. QED
    BY <2>1, <2>2
<1>5. CASE softirqs' = softirqs
  <2>1. softirqs' = [softirqs EXCEPT ![c][v] = q]
    BY <1>5 DEF IrqInv
  <2>2. QED
    BY <1>1, <1>2, <1>3, <1>4, <2>1, SoftPreserved
<1>6. CASE q # << >> /\ softirqs' = [softirqs EXCEPT ![c][v] = Tail(@)]
  <2>1. softirqs' = [softirqs EXCEPT ![c][v] = Tail(q)]
    BY <1>6 DEF IrqInv
  <2>2. Queue(Tail(q), ts)
    BY <1>3, <1>6, QueueExit
  <2>3. QED
    BY <1>1, <1>2, <1>4, <2>1, <2>2, SoftPreserved
<1>7. softirqs' = softirqs \/ (q # << >> /\ softirqs' = [softirqs EXCEPT ![c][v] = Tail(@)])
  BY <1>1 DEF TraceExit
<1>8. QED
  BY <1>5, <1>6, <1>7

-----------------------------------------------------------------------------
\* Every event, and every step of the kernel without one, preserves it.
LEMMA IrqNextInv == IrqInv /\ [IrqNext]_irqVars => IrqInv'
<1> SUFFICES ASSUME IrqInv, [IrqNext]_irqVars PROVE IrqInv'
  OBVIOUS
<1>1. ASSUME NEW ts \in 1 .. MaxTs, NEW c \in Cpus, NEW i \in Irqs,
             HardEntry(ts, c, i) \/ HardExit(ts, c, i)
      PROVE IrqInv'
  <2>1. ts \in Nat
    OBVIOUS
  <2>2. QED
    BY <1>1, <2>1, HardEntryInv, HardExitInv
<1>2. ASSUME NEW ts \in 1 .. MaxTs, NEW c \in Cpus, NEW v \in Vecs,
             SoftRaise(ts, c, v) \/ SoftEntry(ts, c, v) \/ SoftExit(ts, c, v)
      PROVE IrqInv'
  <2>1. ts \in Nat
    OBVIOUS
  <2>2. QED
    BY <1>2, <2>1, SoftRaiseInv, SoftEntryInv, SoftExitInv
<1>3. ASSUME UNCHANGED <<now, stateVars, report>>
      PROVE IrqInv'
  <2>1. now' = now /\ hardIrq' = hardIrq /\ softirqs' = softirqs /\ report' = report
    BY <1>3 DEF stateVars
  <2>2. QED
    BY <2>1 DEF IrqInv, ReportInOrder
<1>4. ASSUME NEW c \in Cpus, KernelTakesBits(c)
      PROVE IrqInv'
  BY <1>3, <1>4 DEF KernelTakesBits
<1>5. CASE UNCHANGED irqVars
  BY <1>3, <1>5 DEF irqVars
<1>6. QED
  BY <1>1, <1>2, <1>4, <1>5 DEF IrqNext

\* The lists of softirqs are in the order of their raises, only the first of
\* each may have begun, and no duration and no raise latency that
\* core/irq.py logs is negative, for any trace, complete or not.
THEOREM IrqRaisesQueued == IrqSpec => []RaisesAreQueued
<1>1. IrqInv => RaisesAreQueued
  BY DEF IrqInv, Queue, OnlyHeadBegun, InRaiseOrder, ReportInOrder, RaisesAreQueued
<1>2. QED
  BY <1>1, IrqInitInv, IrqNextInv, PTL DEF IrqSpec

-----------------------------------------------------------------------------
(* Complete traces: the provider and the kernel.                           *)

Served == [vec : Vecs, begin : Nat]

KernelTyped ==
    /\ serving \in [Cpus -> Served \cup {None}]
    /\ stack \in [Cpus -> Seq(HardIrq)]

\* HandledIsExact of one CPU.
SoftExact(c) ==
    /\ ~Idle(c) => /\ softirqs[c][serving[c].vec] # << >>
                   /\ softirqs[c][serving[c].vec][1].begin = serving[c].begin
    /\ \A v \in Vecs : \A k \in DOMAIN softirqs[c][v] :
         softirqs[c][v][k].begin # None => ~Idle(c) /\ serving[c].vec = v

HardExact(c) ==
    hardIrq[c] # None => stack[c] # << >> /\ hardIrq[c] = Last(stack[c])

ExactInv ==
    /\ KernelTyped
    /\ conf.lossless /\ conf.idle => \A c \in Cpus : SoftExact(c) /\ HardExact(c)

LEMMA ExactInit == IrqInit => ExactInv
<1> SUFFICES ASSUME IrqInit PROVE ExactInv
  OBVIOUS
<1>1. KernelTyped
  <2>1. serving \in [Cpus -> Served \cup {None}]
    BY DEF IrqInit, Served
  <2>2. stack \in [Cpus -> Seq(HardIrq)]
    BY DEF IrqInit
  <2> QED BY <2>1, <2>2 DEF KernelTyped
<1>2. ASSUME conf.idle, NEW c \in Cpus PROVE SoftExact(c) /\ HardExact(c)
  <2>1. serving[c] = None /\ hardIrq[c] = None /\ \A v \in Vecs : softirqs[c][v] = << >>
    BY <1>2 DEF IrqInit
  <2> QED BY <2>1 DEF SoftExact, HardExact, Idle
<1> QED BY <1>1, <1>2 DEF ExactInv

\* A step which leaves the softirqs and what the kernel handles alone.
LEMMA SameSoft ==
    ASSUME NEW c \in Cpus, SoftExact(c), softirqs'[c] = softirqs[c], serving'[c] = serving[c]
    PROVE  SoftExact(c)'
BY DEF SoftExact, Idle

LEMMA SameHard ==
    ASSUME NEW c \in Cpus, HardExact(c), hardIrq'[c] = hardIrq[c], stack'[c] = stack[c]
    PROVE  HardExact(c)'
BY DEF HardExact

\* The hard interrupts nest.
LEMMA HardStack ==
    ASSUME IrqInv, ExactInv, NEW ts \in Nat, NEW c \in Cpus, NEW i \in Irqs,
           HardEntry(ts, c, i) \/ HardExit(ts, c, i)
    PROVE  ExactInv'
<1>1. conf' = conf /\ softirqs' = softirqs /\ hardIrq \in [Cpus -> HardIrq \cup {None}]
      /\ KernelTyped
  BY DEF HardEntry, HardExit, At, TraceHardEntry, TraceHardExit, IrqInv, ExactInv
<1>2. CASE ~conf.lossless
  <2>1. UNCHANGED kernelVars
    BY <1>2 DEF HardEntry, HardExit
  <2> QED BY <1>1, <1>2, <2>1 DEF kernelVars, ExactInv, KernelTyped
<1>3. CASE conf.lossless /\ HardEntry(ts, c, i)
  <2> DEFINE h == [irq |-> i, begin |-> ts]
  <2>1. /\ hardIrq' = [hardIrq EXCEPT ![c] = h] /\ serving' = serving
        /\ stack' = [stack EXCEPT ![c] = Append(@, h)] /\ h \in HardIrq
    BY <1>3 DEF HardEntry, TraceHardEntry, KernelHardEntry, HardIrq
  <2> HIDE DEF h
  <2>2. stack[c] \in Seq(HardIrq)
    BY <1>1 DEF KernelTyped
  <2>3. Append(stack[c], h) \in Seq(HardIrq) /\ Append(stack[c], h) # << >>
        /\ Last(Append(stack[c], h)) = h
    BY <2>1, <2>2 DEF Last
  <2>4. KernelTyped'
    BY <1>1, <2>1, <2>3 DEF KernelTyped
  <2>5. ASSUME conf.idle, NEW d \in Cpus PROVE SoftExact(d)' /\ HardExact(d)'
    <3>1. SoftExact(d)'
      BY <1>1, <1>3, <2>1, <2>5, SameSoft DEF ExactInv
    <3>2. CASE d = c
      <4>1. hardIrq'[d] = h /\ stack'[d] = Append(stack[c], h)
        BY <1>1, <2>1, <3>2 DEF KernelTyped
      <4> QED BY <2>3, <3>1, <4>1 DEF HardExact
    <3>3. CASE d # c
      <4>1. hardIrq'[d] = hardIrq[d] /\ stack'[d] = stack[d]
        BY <1>1, <2>1, <3>3 DEF KernelTyped
      <4> QED BY <1>3, <2>5, <3>1, <4>1, SameHard DEF ExactInv
    <3> QED BY <3>2, <3>3
  <2> QED BY <1>1, <2>4, <2>5 DEF ExactInv
<1>4. CASE conf.lossless /\ HardExit(ts, c, i)
  <2>1. /\ hardIrq' = [hardIrq EXCEPT ![c] = None] /\ serving' = serving
        /\ stack' = [stack EXCEPT ![c] = Front(@)] /\ stack[c] # << >>
    BY <1>4 DEF HardExit, TraceHardExit, KernelHardExit
  <2>2. stack[c] \in Seq(HardIrq)
    BY <1>1 DEF KernelTyped
  <2>3. Front(stack[c]) \in Seq(HardIrq)
    BY <2>1, <2>2 DEF Front
  <2>4. KernelTyped'
    BY <1>1, <2>1, <2>3 DEF KernelTyped
  <2>5. ASSUME conf.idle, NEW d \in Cpus PROVE SoftExact(d)' /\ HardExact(d)'
    <3>1. SoftExact(d)'
      BY <1>1, <1>4, <2>1, <2>5, SameSoft DEF ExactInv
    <3>2. CASE d = c
      <4>1. hardIrq'[d] = None
        BY <1>1, <2>1, <3>2
      <4> QED BY <3>1, <4>1 DEF HardExact
    <3>3. CASE d # c
      <4>1. hardIrq'[d] = hardIrq[d] /\ stack'[d] = stack[d]
        BY <1>1, <2>1, <3>3 DEF KernelTyped
      <4> QED BY <1>4, <2>5, <3>1, <4>1, SameHard DEF ExactInv
    <3> QED BY <3>2, <3>3
  <2> QED BY <1>1, <2>4, <2>5 DEF ExactInv
<1> QED BY <1>2, <1>3, <1>4

\* The events of the softirqs, without the kernel's side or on another CPU.
LEMMA SoftKernel ==
    ASSUME IrqInv, ExactInv, NEW ts \in Nat, NEW c \in Cpus, NEW v \in Vecs,
           SoftRaise(ts, c, v) \/ SoftEntry(ts, c, v) \/ SoftExit(ts, c, v),
           NEW q, softirqs' = [softirqs EXCEPT ![c][v] = q],
           conf.lossless /\ conf.idle /\ SoftExact(c) => SoftExact(c)'
    PROVE  ExactInv'
<1>1. conf' = conf /\ hardIrq' = hardIrq /\ KernelTyped
      /\ softirqs \in [Cpus -> [Vecs -> Seq(SoftIrq)]]
  BY DEF SoftRaise, SoftEntry, SoftExit, At, TraceRaise, TraceEntry, TraceExit, IrqInv, ExactInv
<1>2. stack' = stack
  BY DEF SoftRaise, SoftEntry, SoftExit, KernelRaise, KernelEntry, KernelExit, kernelVars
<1>3. /\ serving' \in [Cpus -> Served \cup {None}]
      /\ \A d \in Cpus : d # c => serving'[d] = serving[d]
  <2>1. [vec |-> v, begin |-> ts] \in Served
    BY DEF Served
  <2>2. \/ serving' = serving \/ serving' = [serving EXCEPT ![c] = None]
        \/ serving' = [serving EXCEPT ![c] = [vec |-> v, begin |-> ts]]
    BY DEF SoftRaise, SoftEntry, SoftExit, KernelRaise, KernelEntry, KernelExit, kernelVars
  <2> QED BY <1>1, <2>1, <2>2 DEF KernelTyped
<1>4. ASSUME conf.lossless, conf.idle, NEW d \in Cpus PROVE SoftExact(d)' /\ HardExact(d)'
  <2>1. HardExact(d)'
    BY <1>1, <1>2, <1>4, SameHard DEF ExactInv
  <2>2. CASE d # c
    BY <1>1, <1>3, <1>4, <2>1, <2>2, SameSoft DEF ExactInv
  <2> QED BY <1>4, <2>1, <2>2 DEF ExactInv
<1> QED BY <1>1, <1>2, <1>3, <1>4 DEF ExactInv, KernelTyped

\* A raise goes behind what has begun.
LEMMA RaiseExact ==
    ASSUME IrqInv, ExactInv, NEW ts \in Nat, NEW c \in Cpus, NEW v \in Vecs,
           SoftRaise(ts, c, v)
    PROVE  ExactInv'
<1> DEFINE q == softirqs[c][v]
           r == IF q # << >> /\ Head(q).begin = None THEN q ELSE Append(q, Raised(ts))
<1>1. /\ TraceRaise(ts, c, v) /\ softirqs \in [Cpus -> [Vecs -> Seq(SoftIrq)]]
      /\ serving' = serving /\ q \in Seq(SoftIrq)
  BY DEF SoftRaise, IrqInv, KernelRaise, kernelVars
<1>2. softirqs' = [softirqs EXCEPT ![c][v] = r]
  <2>1. CASE q # << >> /\ Head(q).begin = None
    BY <1>1, <2>1 DEF TraceRaise
  <2>2. CASE ~(q # << >> /\ Head(q).begin = None)
    BY <1>1, <2>2 DEF TraceRaise
  <2> QED BY <2>1, <2>2
<1>3. /\ DOMAIN q \subseteq DOMAIN r /\ \A k \in DOMAIN q : r[k] = q[k]
      /\ \A k \in DOMAIN r : k \in DOMAIN q \/ r[k].begin = None
      /\ q # << >> => r # << >> /\ 1 \in DOMAIN q
  <2>1. Raised(ts).begin = None /\ DOMAIN q = 1 .. Len(q) /\ Len(q) \in Nat
    BY <1>1 DEF Raised
  <2>2. /\ DOMAIN Append(q, Raised(ts)) = 1 .. Len(q) + 1 /\ Append(q, Raised(ts)) # << >>
        /\ Append(q, Raised(ts))[Len(q) + 1] = Raised(ts)
        /\ \A k \in 1 .. Len(q) : Append(q, Raised(ts))[k] = q[k]
    <3>1. Raised(ts) \in SoftIrq
      BY DEF Raised, SoftIrq, Stamp
    <3> HIDE DEF q
    <3>2. PICK x \in SoftIrq : x = Raised(ts)
      BY <3>1
    <3>3. Append(q, x) \in Seq(SoftIrq) /\ Len(Append(q, x)) = Len(q) + 1
      BY <1>1
    <3>4. DOMAIN Append(q, x) = 1 .. Len(q) + 1 /\ Append(q, x)[Len(q) + 1] = x
      BY <1>1, <3>3
    <3>5. \A k \in 1 .. Len(q) : Append(q, x)[k] = q[k]
      BY <1>1
    <3>6. Append(q, x) # << >>
      BY <2>1, <3>4
    <3> QED BY <3>2, <3>4, <3>5, <3>6
  <2> QED BY <1>1, <2>1, <2>2
<1> HIDE DEF r
<1>4. softirqs'[c][v] = r /\ \A w \in Vecs : w # v => softirqs'[c][w] = softirqs[c][w]
  BY <1>1, <1>2
<1>5. ASSUME SoftExact(c) PROVE SoftExact(c)'
  <2>1. ASSUME ~Idle(c)
        PROVE  /\ softirqs'[c][serving[c].vec] # << >>
               /\ softirqs'[c][serving[c].vec][1].begin = serving[c].begin
    <3>1. serving[c].vec \in Vecs
      BY <2>1 DEF ExactInv, KernelTyped, Served, Idle
    <3> QED BY <1>3, <1>4, <1>5, <2>1, <3>1 DEF SoftExact
  <2>2. ASSUME NEW w \in Vecs, NEW k \in DOMAIN softirqs'[c][w],
               softirqs'[c][w][k].begin # None
        PROVE  ~Idle(c) /\ serving[c].vec = w
    BY <1>3, <1>4, <1>5, <2>2 DEF SoftExact
  <2> QED BY <1>1, <2>1, <2>2 DEF SoftExact, Idle
<1> QED BY <1>2, <1>5, SoftKernel

\* The handler that is entered is of the first of its list, and the only one.
LEMMA EntryExact ==
    ASSUME IrqInv, ExactInv, NEW ts \in Nat, NEW c \in Cpus, NEW v \in Vecs,
           SoftEntry(ts, c, v)
    PROVE  ExactInv'
<1> DEFINE q == softirqs[c][v]
           r == IF q # << >> THEN [q EXCEPT ![1].begin = ts] ELSE <<Entered(ts)>>
<1>1. /\ TraceEntry(ts, c, v) /\ softirqs \in [Cpus -> [Vecs -> Seq(SoftIrq)]]
      /\ q \in Seq(SoftIrq)
  BY DEF SoftEntry, IrqInv
<1>2. softirqs' = [softirqs EXCEPT ![c][v] = r]
  BY <1>1 DEF TraceEntry
<1>3. /\ r # << >> /\ r[1].begin = ts
      /\ \A k \in DOMAIN r : k = 1 \/ (k \in DOMAIN q /\ r[k] = q[k])
  <2>1. CASE q = << >>
    <3>1. Entered(ts).begin = ts
      BY DEF Entered
    <3> QED BY <2>1, <3>1
  <2>2. CASE q # << >>
    <3>1. 1 \in DOMAIN q /\ q[1] \in SoftIrq
      BY <1>1, <2>2
    <3>2. [q[1] EXCEPT !.begin = ts].begin = ts
      BY <3>1 DEF SoftIrq
    <3> QED BY <1>1, <2>2, <3>1, <3>2
  <2> QED BY <2>1, <2>2
<1> HIDE DEF r
<1>4. softirqs'[c][v] = r /\ \A w \in Vecs : w # v => softirqs'[c][w] = softirqs[c][w]
  BY <1>1, <1>2
<1>5. ASSUME conf.lossless, SoftExact(c) PROVE SoftExact(c)'
  <2>1. PICK s \in Served : s.vec = v /\ s.begin = ts /\ serving'[c] = s /\ Idle(c)
    <3>1. [vec |-> v, begin |-> ts] \in Served
      BY DEF Served
    <3> QED BY <1>5, <3>1 DEF SoftEntry, KernelEntry, ExactInv, KernelTyped
  <2>2. s # None
    BY IrqAssumption DEF Served
  <2>3. \A w \in Vecs : \A k \in DOMAIN softirqs[c][w] : softirqs[c][w][k].begin = None
    BY <1>5, <2>1 DEF SoftExact
  <2>4. ASSUME NEW w \in Vecs, NEW k \in DOMAIN softirqs'[c][w],
               softirqs'[c][w][k].begin # None
        PROVE  w = v
    BY <1>4, <2>3, <2>4
  <2> QED BY <1>3, <1>4, <2>1, <2>2, <2>4 DEF SoftExact, Idle
<1> QED BY <1>2, <1>5, SoftKernel

\* The exit removes the only one which has begun.
LEMMA ExitExact ==
    ASSUME IrqInv, ExactInv, NEW ts \in Nat, NEW c \in Cpus, NEW v \in Vecs,
           SoftExit(ts, c, v)
    PROVE  ExactInv'
<1> DEFINE q == softirqs[c][v]
           r == IF softirqs' = softirqs THEN q ELSE Tail(q)
<1>1. /\ TraceExit(ts, c, v) /\ softirqs \in [Cpus -> [Vecs -> Seq(SoftIrq)]]
      /\ q \in Seq(SoftIrq) /\ OnlyHeadBegun(q)
  BY DEF SoftExit, IrqInv, Queue
<1>2. /\ softirqs' = [softirqs EXCEPT ![c][v] = r]
      /\ q # << >> /\ q[1].begin # None => r = Tail(q)
  <2>1. CASE softirqs' = softirqs
    <3>1. softirqs' = [softirqs EXCEPT ![c][v] = r]
      BY <1>1, <2>1
    <3>2. ASSUME q # << >>, q[1].begin # None PROVE r = Tail(q)
      <4>1. Head(q) = q[1]
        BY <1>1, <3>2
      <4>2. softirqs' = [softirqs EXCEPT ![c][v] = Tail(@)]
        BY <1>1, <3>2, <4>1 DEF TraceExit
      <4>3. softirqs'[c][v] = Tail(q)
        BY <1>1, <4>2
      <4> QED BY <2>1, <4>3
    <3> QED BY <3>1, <3>2
  <2>2. CASE softirqs' # softirqs
    <3>1. softirqs' = [softirqs EXCEPT ![c][v] = Tail(@)]
      BY <1>1, <2>2 DEF TraceExit
    <3> QED BY <1>1, <2>2, <3>1
  <2> QED BY <2>1, <2>2
<1> HIDE DEF r
<1>3. ASSUME conf.lossless, conf.idle, SoftExact(c) PROVE SoftExact(c)'
  <2>1. /\ ~Idle(c) /\ serving[c].vec = v /\ serving'[c] = None
    BY <1>3 DEF SoftExit, KernelExit, ExactInv, KernelTyped
  <2>2. q # << >> /\ q[1].begin # None
    <3>1. serving[c].begin \in Nat
      BY <2>1 DEF ExactInv, KernelTyped, Served, Idle
    <3> QED BY <1>3, <2>1, <3>1, IrqAssumption DEF SoftExact
  <2>3. softirqs'[c][v] = Tail(q) /\ \A w \in Vecs : w # v => softirqs'[c][w] = softirqs[c][w]
    BY <1>1, <1>2, <2>2
  <2>4. \A k \in DOMAIN Tail(q) : Tail(q)[k].begin = None
    <3>1. \A k \in DOMAIN Tail(q) : Tail(q)[k] = q[k + 1] /\ k + 1 \in DOMAIN q /\ k + 1 > 1
      BY <1>1, <2>2
    <3> QED BY <1>1, <3>1 DEF OnlyHeadBegun
  <2>5. ASSUME NEW w \in Vecs, NEW k \in DOMAIN softirqs'[c][w]
        PROVE  softirqs'[c][w][k].begin = None
    <3>1. CASE w = v
      BY <2>3, <2>4, <3>1
    <3>2. CASE w # v
      BY <1>3, <2>1, <2>3, <3>2 DEF SoftExact
    <3> QED BY <3>1, <3>2
  <2> QED BY <2>1, <2>5 DEF SoftExact, Idle
<1> QED BY <1>2, <1>3, SoftKernel

LEMMA ExactNext == IrqInv /\ ExactInv /\ [IrqNext]_irqVars => ExactInv'
<1> SUFFICES ASSUME IrqInv, ExactInv, [IrqNext]_irqVars PROVE ExactInv'
  OBVIOUS
<1>1. ASSUME NEW ts \in 1 .. MaxTs, NEW c \in Cpus, NEW i \in Irqs,
             HardEntry(ts, c, i) \/ HardExit(ts, c, i)
      PROVE ExactInv'
  <2>1. ts \in Nat
    OBVIOUS
  <2> QED BY <1>1, <2>1, HardStack
<1>2. ASSUME NEW ts \in 1 .. MaxTs, NEW c \in Cpus, NEW v \in Vecs,
             SoftRaise(ts, c, v) \/ SoftEntry(ts, c, v) \/ SoftExit(ts, c, v)
      PROVE ExactInv'
  <2>1. ts \in Nat
    OBVIOUS
  <2> QED BY <1>2, <2>1, RaiseExact, EntryExact, ExitExact
<1>3. ASSUME UNCHANGED <<conf, stateVars, serving, stack>> PROVE ExactInv'
  BY <1>3 DEF stateVars, ExactInv, KernelTyped, SoftExact, HardExact, Idle
<1>4. ASSUME NEW c \in Cpus, KernelTakesBits(c) PROVE ExactInv'
  BY <1>3, <1>4 DEF KernelTakesBits
<1>5. CASE UNCHANGED irqVars
  BY <1>3, <1>5 DEF irqVars, kernelVars
<1> QED BY <1>1, <1>2, <1>4, <1>5 DEF IrqNext

\* In a complete trace which begins outside of the handlers, what the provider
\* holds as begun is what the kernel handles, since the same time.
THEOREM IrqHandledExact == IrqSpec => []HandledIsExact
<1>1. IrqInv /\ ExactInv => HandledIsExact
  <2> SUFFICES ASSUME IrqInv, ExactInv, conf.lossless /\ conf.idle, NEW c \in Cpus
               PROVE  /\ ~Idle(c) =>
                           LET queue == softirqs[c][serving[c].vec] IN
                           queue # << >> /\ Head(queue).begin = serving[c].begin
                      /\ \A v \in Vecs : \A k \in DOMAIN softirqs[c][v] :
                           softirqs[c][v][k].begin # None => ~Idle(c) /\ serving[c].vec = v
                      /\ hardIrq[c] # None => stack[c] # << >> /\ hardIrq[c] = Last(stack[c])
    BY DEF HandledIsExact
  <2>1. SoftExact(c) /\ HardExact(c)
    BY DEF ExactInv
  <2>2. ASSUME ~Idle(c)
        PROVE  LET queue == softirqs[c][serving[c].vec] IN
               queue # << >> /\ Head(queue).begin = serving[c].begin
    <3>1. serving[c].vec \in Vecs
      BY <2>2 DEF ExactInv, KernelTyped, Served, Idle
    <3> DEFINE queue == softirqs[c][serving[c].vec]
    <3>2. queue \in Seq(SoftIrq) /\ queue # << >> /\ queue[1].begin = serving[c].begin
      BY <2>1, <2>2, <3>1 DEF SoftExact, IrqInv
    <3> QED BY <3>2
  <2> QED BY <2>1, <2>2 DEF SoftExact, HardExact
<1> QED BY <1>1, IrqInitInv, IrqNextInv, ExactInit, ExactNext, PTL DEF IrqSpec

-----------------------------------------------------------------------------
(* The dates of the allocations.                                           *)

After(a, d) == Cardinality({i \in DOMAIN a : a[i] > d})
Past(a, n)  == a \in Seq(Nat) /\ \A i \in DOMAIN a : a[i] < n

\* One more is after each date of the past.
LEMMA AfterMore ==
    ASSUME NEW a, NEW n \in Nat, Past(a, n)
    PROVE  /\ \A d \in Nat : d < n => After(Append(a, n), d) = After(a, d) + 1
           /\ \A d \in Nat : After(a, d) \in Nat
           /\ Past(Append(a, n), n + 1) /\ Len(Append(a, n)) = Len(a) + 1
<1> PICK b : b = Append(a, n)
  OBVIOUS
<1>1. /\ Len(a) \in Nat /\ DOMAIN a = 1 .. Len(a)
      /\ b \in Seq(Nat) /\ Len(b) = Len(a) + 1
      /\ DOMAIN b = 1 .. Len(a) + 1 /\ b[Len(a) + 1] = n
      /\ \A i \in 1 .. Len(a) : b[i] = a[i] /\ a[i] < n
  BY DEF Past
<1> DEFINE I(d) == {i \in DOMAIN a : a[i] > d}
<1>2. \A d : IsFiniteSet(I(d)) /\ Cardinality(I(d)) \in Nat
  <2> TAKE d
  <2>1. IsFiniteSet(1 .. Len(a))
    BY <1>1, FS_Interval
  <2>2. I(d) \subseteq 1 .. Len(a)
    BY <1>1
  <2>3. IsFiniteSet(I(d))
    BY <2>1, <2>2, FS_Subset
  <2> QED BY <2>3, FS_CardinalityType
<1>3. ASSUME NEW d \in Nat, d < n
      PROVE  After(b, d) = After(a, d) + 1
  <2>1. {i \in DOMAIN b : b[i] > d} = I(d) \cup {Len(a) + 1}
    <3>1. ASSUME NEW i \in 1 .. Len(a) + 1
          PROVE  b[i] > d <=> i \in I(d) \cup {Len(a) + 1}
      BY <1>1, <1>3
    <3>2. I(d) \subseteq 1 .. Len(a) + 1
      BY <1>1
    <3> QED BY <1>1, <3>1, <3>2
  <2>2. Len(a) + 1 \notin I(d)
    BY <1>1
  <2>3. Cardinality(I(d) \cup {Len(a) + 1}) = Cardinality(I(d)) + 1
    BY <1>2, <2>2, FS_AddElement
  <2> QED BY <2>1, <2>3 DEF After
<1>4. Past(b, n + 1)
  BY <1>1 DEF Past
<1> QED BY <1>1, <1>2, <1>3, <1>4 DEF After

\* None is after a date that is not yet past.
LEMMA AfterNone ==
    ASSUME NEW a, NEW n \in Nat, Past(a, n) PROVE After(a, n) = 0
<1>1. {i \in DOMAIN a : a[i] > n} = {}
  <2>1. \A i \in DOMAIN a : a[i] \in Nat /\ a[i] < n
    BY DEF Past
  <2> QED BY <2>1
<1> QED BY <1>1, FS_EmptySet DEF After

-----------------------------------------------------------------------------
(* The pages.                                                              *)

RqSet   == [alloc : Nat, freed : Nat, written : Nat, woke : BOOLEAN]
CallSet == [name : Calls, begin : Nat, rq : {None} \cup RqSet]
MemSet  == [allocated : Nat, freed : Nat]

\* A call began in the past; its request has the pages allocated since.
CallOK(k, n, a) ==
    k # None => /\ k \in CallSet /\ k.begin < n
                /\ k.rq # None => k.rq.alloc = After(a, k.begin)

MemTyped ==
    /\ now \in Nat /\ pages \in Nat
    /\ IsFiniteSet(DOMAIN cpus) /\ \A c \in DOMAIN cpus : cpus[c] \in Tids \cup {None}
    /\ DOMAIN calls = Tids
    /\ mem \in [DOMAIN mem -> MemSet] /\ IsFiniteSet(DOMAIN mem)
    /\ Past(allocs, now)

PagesInv ==
    /\ MemTyped
    /\ \A t \in Tids : CallOK(calls[t], now, allocs)
    /\ SumOf("freed") + pages <= Len(allocs)

LEMMA CurrentThread ==
    ASSUME MemTyped, NEW c PROVE Current(c) \in Tids \cup {None}
BY DEF MemTyped, Current

\* Time passes: the calls may begin or end, or change but for their pages.
SameCall(k, r) ==
    r # None => /\ k # None /\ r \in CallSet /\ r.begin = k.begin
                /\ r.rq # None => k.rq # None /\ r.rq.alloc = k.rq.alloc

LEMMA SameOK ==
    ASSUME NEW k, NEW r, NEW n \in Nat, NEW a, CallOK(k, n, a), SameCall(k, r) \/ r = k
    PROVE  CallOK(r, n + 1, a)
BY DEF CallOK, SameCall, CallSet

\* What neither allocates nor frees a page.
LEMMA PagesKept ==
    ASSUME PagesInv, now' = now + 1, UNCHANGED <<pages, mem, allocs>>,
           UNCHANGED cpus, DOMAIN calls' = Tids,
           \A t \in Tids : CallOK(calls'[t], now', allocs)
    PROVE  PagesInv'
<1>1. now \in Nat /\ now' \in Nat /\ Past(allocs, now')
  BY DEF PagesInv, MemTyped, Past
<1>2. SumOf("freed")' = SumOf("freed")
  BY DEF SumOf
<1> QED BY <1>1, <1>2 DEF PagesInv, MemTyped

LEMMA SwitchPages ==
    ASSUME PagesInv, NEW c \in Cpus, NEW p, NEW n \in Tids \cup {0}, Switch(c, p, n)
    PROVE  PagesInv'
<1>1. /\ now' = now + 1 /\ UNCHANGED <<calls, pages, mem, allocs>>
      /\ cpus' = [x \in DOMAIN cpus \cup {c} |->
                    IF x # c THEN cpus[x] ELSE IF n = 0 THEN None ELSE n]
  BY DEF Switch, Event
<1>2. now \in Nat /\ now' \in Nat /\ Past(allocs, now')
  BY <1>1 DEF PagesInv, MemTyped, Past
<1>3. IsFiniteSet(DOMAIN cpus') /\ \A x \in DOMAIN cpus' : cpus'[x] \in Tids \cup {None}
  <2>1. IsFiniteSet(DOMAIN cpus \cup {c})
    BY FS_AddElement DEF PagesInv, MemTyped
  <2> QED BY <1>1, <2>1 DEF PagesInv, MemTyped
<1>4. \A t \in Tids : CallOK(calls'[t], now', allocs)
  BY <1>1, SameOK DEF PagesInv, MemTyped
<1>5. SumOf("freed")' = SumOf("freed")
  BY <1>1 DEF SumOf
<1> QED BY <1>1, <1>2, <1>3, <1>4, <1>5 DEF PagesInv, MemTyped

LEMMA EntryPages ==
    ASSUME PagesInv, NEW c, NEW name \in Calls, SyscallEntry(c, name)
    PROVE  PagesInv'
<1>1. /\ now' = now + 1 /\ UNCHANGED <<cpus, pages, mem, allocs>>
      /\ Current(c) \in Tids \cup {None} /\ now \in Nat
  BY CurrentThread DEF SyscallEntry, Event, PagesInv, MemTyped
<1> DEFINE k == [name |-> name, begin |-> now, rq |-> Request(name)]
<1>2. CallOK(k, now', allocs)
  <2>1. k \in CallSet /\ k.begin = now /\ (k.rq # None => k.rq.alloc = 0)
    BY <1>1 DEF CallSet, Request, RqSet
  <2> HIDE DEF k
  <2>2. After(allocs, now) = 0
    BY AfterNone DEF PagesInv, MemTyped
  <2> QED BY <1>1, <2>1, <2>2 DEF CallOK
<1>3. calls' = IF Current(c) = None THEN calls ELSE [calls EXCEPT ![Current(c)] = k]
  BY DEF SyscallEntry
<1> HIDE DEF k
<1>4. DOMAIN calls' = Tids /\ \A t \in Tids : calls'[t] = calls[t] \/ calls'[t] = k
  BY <1>1, <1>3 DEF PagesInv, MemTyped
<1>5. \A t \in Tids : CallOK(calls'[t], now', allocs)
  BY <1>1, <1>2, <1>4, SameOK DEF PagesInv
<1> QED BY <1>1, <1>4, <1>5, PagesKept

LEMMA ExitPages ==
    ASSUME PagesInv, NEW c, NEW ok, SyscallExit(c, ok)
    PROVE  PagesInv'
<1>1. now' = now + 1 /\ UNCHANGED <<cpus, pages, mem, allocs>> /\ now \in Nat
  BY DEF SyscallExit, Event, PagesInv, MemTyped
<1>2. DOMAIN calls' = Tids /\ \A t \in Tids : calls'[t] = calls[t] \/ calls'[t] = None
  BY CurrentThread DEF SyscallExit, Cleared, PagesInv, MemTyped
<1>3. \A t \in Tids : CallOK(calls'[t], now', allocs)
  BY <1>1, <1>2, SameOK DEF PagesInv, SameCall
<1> QED BY <1>1, <1>2, <1>3, PagesKept

\* The statistics of the running thread, if it is wanted, have one more page.
LEMMA OneMorePage ==
    ASSUME MemTyped, NEW c, NEW field \in {"allocated", "freed"}, mem' = MemAfter(c, field)
    PROVE  /\ mem' \in [DOMAIN mem' -> MemSet] /\ IsFiniteSet(DOMAIN mem')
           /\ field = "allocated" => SumOf("freed")' = SumOf("freed")
           /\ field = "freed" => SumOf("freed")' \in {SumOf("freed"), SumOf("freed") + 1}
           /\ SumOf("freed") \in Nat
<1> DEFINE t == Current(c)
           old == IF t \in DOMAIN mem THEN mem[t] ELSE [allocated |-> 0, freed |-> 0]
           new == [old EXCEPT ![field] = @ + 1]
           D   == DOMAIN mem
           f   == [x \in D |-> mem[x]["freed"]]
           g   == [x \in DOMAIN mem' |-> mem'[x]["freed"]]
<1>1. mem \in [D -> MemSet] /\ IsFiniteSet(D)
  BY DEF MemTyped
<1>2. SumFunction(f) \in Nat /\ SumOf("freed") = SumFunction(f) /\ SumOf("freed")' = SumFunction(g)
  <2>1. \A x \in D : f[x] \in Nat /\ DOMAIN f = D
    BY <1>1 DEF MemSet
  <2>2. SumFunction(f) \in Nat
    BY <1>1, <2>1, SumNat DEF SumFunction
  <2> QED BY <2>2 DEF SumOf
<1>3. CASE mem' = mem
  <2>1. g = f
    BY <1>3
  <2> QED BY <1>1, <1>2, <1>3, <2>1
<1>4. CASE mem' = [x \in D \cup {t} |-> IF x = t THEN new ELSE mem[x]]
  <2>1. old \in MemSet
    BY <1>1 DEF MemSet
  <2>2. /\ new \in MemSet
        /\ field = "allocated" => new["freed"] = old["freed"]
        /\ field = "freed" => new["freed"] = old["freed"] + 1
    <3> HIDE DEF old
    <3> QED BY <2>1 DEF MemSet
  <2>3. old["freed"] \in Nat /\ new["freed"] \in Nat
    BY <2>1, <2>2 DEF MemSet
  <2>4. t \notin D => old["freed"] = 0
    OBVIOUS
  <2>5. t \in D => old["freed"] = f[t]
    OBVIOUS
  <2> HIDE DEF new, old
  <2>6. /\ DOMAIN mem' = D \cup {t} /\ mem'[t] = new
        /\ \A x \in D \ {t} : mem'[x] = mem[x]
        /\ IsFiniteSet(DOMAIN mem')
    BY <1>1, <1>4, FS_AddElement
  <2>7. mem' \in [DOMAIN mem' -> MemSet]
    BY <1>1, <1>4, <2>2
  <2>8. /\ DOMAIN g = D \cup {t} /\ DOMAIN f = D /\ g[t] = new["freed"]
        /\ \A x \in D \ {t} : g[x] = f[x]
        /\ \A x \in D : f[x] \in Nat /\ g[x] \in Nat
    BY <1>1, <2>3, <2>6 DEF MemSet
  <2> HIDE DEF f, g, D
  <2>9. SumFunction(g) = SumFunction(f) + (new["freed"] - old["freed"])
    <3>1. CASE t \in D
      <4>1. DOMAIN g = D
        BY <2>8, <3>1
      <4>2. SumFunctionOnSet(g, D) = SumFunctionOnSet(f, D) + (g[t] - f[t])
        BY <1>1, <2>8, <3>1, SumChange
      <4> QED BY <2>5, <2>8, <3>1, <4>1, <4>2 DEF SumFunction
    <3>2. CASE t \notin D
      <4>1. SumFunction(g) = SumFunction(f) + g[t]
        <5>1. IsFiniteSet(DOMAIN f) /\ \A y \in DOMAIN f : f[y] \in Int /\ g[y] = f[y]
          BY <1>1, <2>8, <3>2
        <5>2. t \notin DOMAIN f /\ DOMAIN g = DOMAIN f \cup {t} /\ g[t] \in Int
          BY <2>3, <2>8, <3>2
        <5> QED BY <5>1, <5>2, SumMore
      <4> QED BY <1>2, <2>3, <2>4, <2>8, <3>2, <4>1
    <3> QED BY <3>1, <3>2
  <2> QED BY <1>2, <2>2, <2>3, <2>6, <2>7, <2>9
<1> QED BY <1>3, <1>4 DEF MemAfter

LEMMA AllocPages ==
    ASSUME PagesInv, NEW c, PageAlloc(c) PROVE PagesInv'
<1>1. /\ now' = now + 1 /\ now \in Nat /\ pages' = pages + 1 /\ UNCHANGED cpus
      /\ mem' = MemAfter(c, "allocated") /\ allocs' = Append(allocs, now)
      /\ calls' = [t \in Tids |-> IF HasRequest(t) THEN [calls[t] EXCEPT !.rq.alloc = @ + 1]
                                                   ELSE calls[t]]
  BY DEF PageAlloc, Allocated, Event, PagesInv, MemTyped
<1>2. /\ \A d \in Nat : d < now => After(allocs', d) = After(allocs, d) + 1
      /\ \A d \in Nat : After(allocs, d) \in Nat
      /\ Past(allocs', now') /\ Len(allocs') = Len(allocs) + 1 /\ Len(allocs) \in Nat
  <2>1. Past(allocs, now)
    BY DEF PagesInv, MemTyped
  <2>2. Len(allocs) \in Nat
    BY <2>1 DEF Past
  <2> QED BY <1>1, <2>1, <2>2, AfterMore
<1>3. ASSUME NEW t \in Tids PROVE CallOK(calls'[t], now', allocs')
  <2> PICK k : k = calls[t]
    OBVIOUS
  <2>1. CallOK(k, now, allocs)
    BY DEF PagesInv
  <2>2. CASE HasRequest(t)
    <3> DEFINE r == [k EXCEPT !.rq.alloc = @ + 1]
    <3>1. k \in CallSet /\ k.rq \in RqSet /\ k.begin < now /\ k.rq.alloc = After(allocs, k.begin)
      BY <2>1, <2>2 DEF HasRequest, CallOK, CallSet
    <3>2. calls'[t] = r
      BY <1>1, <2>2
    <3>3. r \in CallSet /\ r.begin = k.begin /\ r.rq.alloc = k.rq.alloc + 1 /\ k.begin \in Nat
      BY <3>1 DEF CallSet, RqSet
    <3> HIDE DEF r
    <3>4. r.begin < now' /\ r.rq.alloc = After(allocs', r.begin)
      BY <1>1, <1>2, <3>1, <3>3
    <3>5. CallOK(r, now', allocs')
      BY <3>3, <3>4 DEF CallOK
    <3> QED BY <3>2, <3>5
  <2>3. CASE ~HasRequest(t)
    <3>1. calls'[t] = k /\ (k = None \/ k.rq = None)
      BY <1>1, <2>3 DEF HasRequest
    <3> QED BY <1>1, <2>1, <3>1 DEF CallOK, CallSet
  <2> QED BY <2>2, <2>3
<1>4. /\ mem' \in [DOMAIN mem' -> MemSet] /\ IsFiniteSet(DOMAIN mem')
      /\ SumOf("freed")' = SumOf("freed") /\ SumOf("freed") \in Nat
  BY <1>1, OneMorePage DEF PagesInv
<1>5. pages' \in Nat /\ SumOf("freed")' + pages' <= Len(allocs')
  BY <1>1, <1>2, <1>4 DEF PagesInv, MemTyped
<1>6. MemTyped'
  BY <1>1, <1>2, <1>4, <1>5 DEF PagesInv, MemTyped
<1> QED BY <1>3, <1>5, <1>6, <1>1 DEF PagesInv

\* Pages are counted as freed only while some are counted as used.
LEMMA FreePages ==
    ASSUME PagesInv, NEW c, NEW old, PageFree(c, old) PROVE PagesInv'
<1>1. /\ now' = now + 1 /\ now \in Nat /\ UNCHANGED <<cpus, allocs>> /\ pages \in Nat
      /\ Past(allocs, now') /\ Len(allocs) \in Nat
  BY DEF PageFree, Event, PagesInv, MemTyped, Past
<1>2. /\ mem' \in [DOMAIN mem' -> MemSet] /\ IsFiniteSet(DOMAIN mem')
      /\ pages' \in Nat /\ SumOf("freed")' + pages' <= Len(allocs)
  <2>1. CASE pages > 0
    <3>1. pages' = pages - 1 /\ mem' = MemAfter(c, "freed")
      BY <2>1 DEF PageFree, CanFree
    <3>2. /\ mem' \in [DOMAIN mem' -> MemSet] /\ IsFiniteSet(DOMAIN mem')
          /\ SumOf("freed")' \in {SumOf("freed"), SumOf("freed") + 1} /\ SumOf("freed") \in Nat
      BY <3>1, OneMorePage DEF PagesInv
    <3> QED BY <1>1, <2>1, <3>1, <3>2 DEF PagesInv
  <2>2. CASE ~(pages > 0)
    <3>1. pages' = pages /\ mem' = mem
      BY <2>2 DEF PageFree, CanFree
    <3>2. SumOf("freed")' = SumOf("freed")
      BY <3>1 DEF SumOf
    <3> QED BY <1>1, <3>1, <3>2 DEF PagesInv, MemTyped
  <2> QED BY <2>1, <2>2
<1>3. \A t \in Tids : FreedBy(t) \in Nat
  <2> TAKE t \in Tids
  <2> DEFINE C == {x \in DOMAIN cpus : Current(x) # None /\ Freeing(x) = t}
  <2>1. IsFiniteSet(C)
    BY FS_Subset DEF PagesInv, MemTyped
  <2>2. Cardinality(C) \in Nat
    BY <2>1, FS_CardinalityType
  <2> QED BY <2>2 DEF FreedBy
<1>4. ASSUME NEW t \in Tids PROVE CallOK(calls'[t], now', allocs)
  <2> PICK k : k = calls[t]
    OBVIOUS
  <2> PICK n : n = FreedBy(t)
    OBVIOUS
  <2> DEFINE r == [k EXCEPT !.rq.freed = @ + n]
  <2>1. CallOK(k, now, allocs)
    BY DEF PagesInv
  <2>2. calls'[t] = k \/ (n # 0 /\ calls'[t] = r)
    BY DEF PageFree, PagesInv, MemTyped
  <2>3. n # 0 => SameCall(k, r)
    <3> SUFFICES ASSUME n # 0 PROVE SameCall(k, r)
      OBVIOUS
    <3>1. k # None /\ k.rq # None
      BY DEF FreedBy, HasRequest
    <3>2. k \in CallSet /\ k.rq \in RqSet /\ n \in Nat
      BY <1>3, <2>1, <3>1 DEF CallOK, CallSet
    <3>3. r \in CallSet /\ r.begin = k.begin /\ r.rq.alloc = k.rq.alloc
      BY <3>2 DEF CallSet, RqSet
    <3> HIDE DEF r
    <3> QED BY <3>1, <3>3 DEF SameCall
  <2> HIDE DEF r
  <2> QED BY <1>1, <2>1, <2>2, <2>3, SameOK
<1>5. DOMAIN calls' = Tids
  BY DEF PageFree, PagesInv, MemTyped
<1> QED BY <1>1, <1>2, <1>4, <1>5 DEF PagesInv, MemTyped

LEMMA WritebackPages ==
    ASSUME PagesInv, NEW n \in Nat, Writeback(n) PROVE PagesInv'
<1>1. now' = now + 1 /\ now \in Nat /\ UNCHANGED <<cpus, pages, mem, allocs>>
      /\ DOMAIN calls' = Tids
  BY DEF Writeback, Event, PagesInv, MemTyped
<1>2. ASSUME NEW t \in Tids PROVE CallOK(calls'[t], now', allocs)
  <2> PICK k : k = calls[t]
    OBVIOUS
  <2> DEFINE r == [k EXCEPT !.rq.written = @ + n]
  <2>1. CallOK(k, now, allocs)
    BY DEF PagesInv
  <2>2. calls'[t] = k \/ (HasRequest(t) /\ calls'[t] = r)
    BY DEF Writeback
  <2>3. HasRequest(t) => SameCall(k, r)
    <3> SUFFICES ASSUME HasRequest(t) PROVE SameCall(k, r)
      OBVIOUS
    <3>1. k # None /\ k.rq # None /\ k \in CallSet /\ k.rq \in RqSet
      BY <2>1 DEF HasRequest, CallOK, CallSet
    <3>2. r \in CallSet /\ r.begin = k.begin /\ r.rq.alloc = k.rq.alloc
      BY <3>1 DEF CallSet, RqSet
    <3> HIDE DEF r
    <3> QED BY <3>1, <3>2 DEF SameCall
  <2> HIDE DEF r
  <2> QED BY <1>1, <2>1, <2>2, <2>3, SameOK
<1> QED BY <1>1, <1>2, PagesKept

LEMMA WakePages ==
    ASSUME PagesInv, NEW c, WakeKswapd(c) PROVE PagesInv'
<1>1. now' = now + 1 /\ now \in Nat /\ UNCHANGED <<cpus, pages, mem, allocs>>
      /\ DOMAIN calls' = Tids
  BY DEF WakeKswapd, Event, PagesInv, MemTyped
<1>2. ASSUME NEW t \in Tids PROVE CallOK(calls'[t], now', allocs)
  <2> PICK k : k = calls[t]
    OBVIOUS
  <2> DEFINE r == [k EXCEPT !.rq.woke = TRUE]
  <2>1. CallOK(k, now, allocs)
    BY DEF PagesInv
  <2>2. calls'[t] = k \/ (HasRequest(t) /\ calls'[t] = r)
    BY DEF WakeKswapd, PagesInv, MemTyped
  <2>3. HasRequest(t) => SameCall(k, r)
    <3> SUFFICES ASSUME HasRequest(t) PROVE SameCall(k, r)
      OBVIOUS
    <3>1. k # None /\ k.rq # None /\ k \in CallSet /\ k.rq \in RqSet
      BY <2>1 DEF HasRequest, CallOK, CallSet
    <3>2. r \in CallSet /\ r.begin = k.begin /\ r.rq.alloc = k.rq.alloc
      BY <3>1 DEF CallSet, RqSet
    <3> HIDE DEF r
    <3> QED BY <3>1, <3>2 DEF SameCall
  <2> HIDE DEF r
  <2> QED BY <1>1, <2>1, <2>2, <2>3, SameOK
<1> QED BY <1>1, <1>2, PagesKept

LEMMA OtherPages ==
    ASSUME PagesInv, now' = now + 1, UNCHANGED <<cpus, calls, pages, mem, allocs>>
    PROVE  PagesInv'
<1>1. \A t \in Tids : CallOK(calls'[t], now', allocs)
  BY SameOK DEF PagesInv, MemTyped
<1>2. DOMAIN calls' = Tids
  BY DEF PagesInv, MemTyped
<1> QED BY <1>1, <1>2, PagesKept

LEMMA PagesInit == MemInit => PagesInv
<1> SUFFICES ASSUME MemInit PROVE PagesInv
  OBVIOUS
<1>1. SumOf("freed") = 0
  <2>1. DOMAIN mem = {}
    BY DEF MemInit
  <2>2. SumFunctionOnSet([t \in {} |-> mem[t]["freed"]], {}) = 0
    BY SumEmpty
  <2> QED BY <2>1, <2>2 DEF SumOf, SumFunction
<1>2. IsFiniteSet({})
  BY FS_EmptySet
<1>3. Past(allocs, now) /\ Len(allocs) = 0
  BY DEF MemInit, Past
<1> QED BY <1>1, <1>2, <1>3 DEF MemInit, PagesInv, MemTyped, CallOK

LEMMA PagesNext == PagesInv /\ [MemNext]_memVars => PagesInv'
<1> SUFFICES ASSUME PagesInv, [MemNext]_memVars PROVE PagesInv'
  OBVIOUS
<1>1. ASSUME NEW c \in Cpus, NEW p \in Tids \cup {0}, NEW n \in Tids \cup {0}, Switch(c, p, n)
      PROVE  PagesInv'
  BY <1>1, SwitchPages
<1>2. ASSUME NEW c \in Cpus, NEW name \in Calls, SyscallEntry(c, name) PROVE PagesInv'
  BY <1>2, EntryPages
<1>3. ASSUME NEW c \in Cpus, NEW ok \in BOOLEAN, SyscallExit(c, ok) PROVE PagesInv'
  BY <1>3, ExitPages
<1>4. ASSUME NEW c \in Cpus, PageAlloc(c) PROVE PagesInv'
  BY <1>4, AllocPages
<1>5. ASSUME NEW c \in Cpus, NEW old \in BOOLEAN, PageFree(c, old) PROVE PagesInv'
  BY <1>5, FreePages
<1>6. ASSUME NEW c \in Cpus, WakeKswapd(c) PROVE PagesInv'
  BY <1>6, WakePages
<1>7. ASSUME NEW c \in Cpus, Xmit(c) \/ Receive PROVE PagesInv'
  BY <1>7, OtherPages DEF Xmit, Receive, Event
<1>8. ASSUME NEW n \in 1 .. 2, Writeback(n) PROVE PagesInv'
  BY <1>8, WritebackPages
<1>9. CASE Receive
  BY <1>9, OtherPages DEF Receive, Event
<1>10. CASE UNCHANGED memVars
  <2>1. UNCHANGED <<now, cpus, calls, pages, mem, allocs>>
    BY <1>10 DEF memVars
  <2>2. SumOf("freed")' = SumOf("freed")
    BY <2>1 DEF SumOf
  <2> QED BY <2>1, <2>2 DEF PagesInv, MemTyped
<1> QED BY <1>1, <1>2, <1>3, <1>4, <1>5, <1>6, <1>7, <1>8, <1>9, <1>10 DEF MemNext

\* A request has as many pages as were allocated since it began, by any thread
\* of any CPU; the pages that the wanted threads free, with those still in use,
\* are at most those allocated (mem.py:54-73, core/memtop.py:43-71).
THEOREM MemPages == MemSpec => []PagesAreAccounted
<1>1. PagesInv => PagesAreAccounted
  BY DEF PagesInv, MemTyped, PagesAreAccounted, CallOK, HasRequest, Since, After
<1> QED BY PagesInit, PagesNext, <1>1, PTL DEF MemSpec

-----------------------------------------------------------------------------
(* The durations of the calls.                                             *)

Span == [begin : Nat, end : Nat]

Durations(list) == {list[i].end - list[i].begin : i \in DOMAIN list}

Apart(x, y) == x.end <= y.begin \/ y.end <= x.begin

\* The statistics of one name, with calls that ended before this date.
Measured(s, n) ==
    /\ s.list \in Seq(Span) /\ s.list # << >>
    /\ \A i \in DOMAIN s.list : s.list[i].begin < s.list[i].end /\ s.list[i].end < n
    /\ s.min \in Durations(s.list) /\ s.max \in Durations(s.list)
    /\ \A d \in Durations(s.list) : s.min <= d /\ d <= s.max
    /\ s.total = SumFunction([i \in DOMAIN s.list |-> s.list[i].end - s.list[i].begin])

LEMMA FirstMeasured ==
    ASSUME NEW b \in Nat, now \in Nat, b < now
    PROVE  LET r == UpdateStats(NewStats, now - b) IN
           /\ Measured(r, now + 1)
           /\ DOMAIN r.list = {1} /\ r.list[1] = [begin |-> b, end |-> now]
<1> PICK x : x = [begin |-> b, end |-> now]
  OBVIOUS
<1> DEFINE r == UpdateStats(NewStats, now - b)
<1>1. now - b \in Nat /\ now - (now - b) = b /\ 0 + (now - b) = now - b
  OBVIOUS
<1>2. r.min = now - b /\ r.max = now - b /\ r.total = now - b /\ r.list = <<x>>
  BY <1>1 DEF UpdateStats, NewStats
<1> HIDE DEF r
<1>3. x \in Span /\ x.begin = b /\ x.end = now
  BY DEF Span
<1>4. r.list \in Seq(Span) /\ r.list # << >> /\ DOMAIN r.list = {1} /\ r.list[1] = x
  BY <1>2, <1>3
<1>5. Durations(r.list) = {now - b}
  BY <1>3, <1>4 DEF Durations
<1> DEFINE f == [i \in DOMAIN r.list |-> r.list[i].end - r.list[i].begin]
           e == [i \in {} |-> 0]
<1>6. SumFunction(f) = now - b
  <2>1. SumFunction(e) = 0
    BY SumEmpty DEF SumFunction
  <2>2. DOMAIN e = {} /\ DOMAIN f = {1} /\ f[1] = now - b
    BY <1>3, <1>4
  <2> HIDE DEF e, f
  <2>3. SumFunction(f) = SumFunction(e) + f[1]
    <3>1. 1 \notin DOMAIN e /\ DOMAIN f = DOMAIN e \cup {1} /\ f[1] \in Int
      BY <1>1, <2>2
    <3>2. IsFiniteSet(DOMAIN e) /\ \A y \in DOMAIN e : e[y] \in Int /\ f[y] = e[y]
      BY <2>2, FS_EmptySet
    <3> QED BY <3>1, <3>2, SumMore
  <2> QED BY <1>1, <2>1, <2>2, <2>3
<1>7. Measured(r, now + 1)
  BY <1>1, <1>2, <1>3, <1>4, <1>5, <1>6 DEF Measured
<1> QED BY <1>4, <1>7 DEF r

\* The first list is the second with one more.
Grown(r, s, x) ==
    /\ DOMAIN s.list = 1 .. Len(s.list) /\ Len(s.list) \in Nat
    /\ DOMAIN r.list = 1 .. Len(s.list) + 1
    /\ \A i \in 1 .. Len(s.list) : r.list[i] = s.list[i]
    /\ r.list[Len(s.list) + 1] = x

LEMMA MoreMeasured ==
    ASSUME NEW b \in Nat, now \in Nat, b < now, NEW s, Measured(s, now)
    PROVE  /\ Measured(UpdateStats(s, now - b), now + 1)
           /\ Grown(UpdateStats(s, now - b), s, [begin |-> b, end |-> now])
<1> PICK x : x = [begin |-> b, end |-> now]
  OBVIOUS
<1> PICK d : d = now - b
  OBVIOUS
<1> DEFINE r == UpdateStats(s, now - b)
<1>1. d \in Nat /\ now - (now - b) = b
  OBVIOUS
<1>2. /\ r.min = IF s.min = None \/ d < s.min THEN d ELSE s.min
      /\ r.max = IF s.max = None \/ d > s.max THEN d ELSE s.max
      /\ r.total = s.total + d /\ r.list = Append(s.list, x)
  BY <1>1 DEF UpdateStats
<1> HIDE DEF r
<1>3. x \in Span /\ x.begin = b /\ x.end = now
  BY DEF Span
<1> DEFINE D(i) == s.list[i].end - s.list[i].begin
           E(i) == r.list[i].end - r.list[i].begin
           n == Len(s.list)
<1>4. /\ DOMAIN s.list = 1 .. n /\ n \in Nat
      /\ r.list \in Seq(Span) /\ r.list # << >> /\ DOMAIN r.list = 1 .. n + 1
      /\ r.list[n + 1] = x /\ \A i \in 1 .. n : r.list[i] = s.list[i]
  <2> PICK l : l = s.list
    OBVIOUS
  <2>1. l \in Seq(Span)
    BY DEF Measured
  <2>2. /\ DOMAIN l = 1 .. Len(l) /\ Len(l) \in Nat
        /\ Append(l, x) \in Seq(Span) /\ Append(l, x) # << >>
        /\ DOMAIN Append(l, x) = 1 .. Len(l) + 1 /\ Append(l, x)[Len(l) + 1] = x
        /\ \A i \in 1 .. Len(l) : Append(l, x)[i] = l[i]
    BY <1>3, <2>1
  <2> QED BY <1>2, <2>2
<1>14. /\ \A i \in 1 .. n : s.list[i] \in Span /\ s.list[i].begin < s.list[i].end
                                /\ s.list[i].end < now
       /\ n + 1 \in 1 .. n + 1
  <2> HIDE DEF n
  <2>1. n + 1 \in 1 .. n + 1
    BY <1>4
  <2>2. s.list \in [1 .. n -> Span]
    <3>1. s.list \in Seq(Span)
      BY DEF Measured
    <3> QED BY <3>1 DEF n
  <2>3. \A i \in DOMAIN s.list : s.list[i].begin < s.list[i].end /\ s.list[i].end < now
    BY DEF Measured
  <2> QED BY <1>4, <2>1, <2>2, <2>3
<1>15. \A i \in 1 .. n : s.list[i].begin \in Nat /\ s.list[i].end \in Nat
  BY <1>14 DEF Span
<1>5. /\ \A i \in 1 .. n : D(i) \in Nat /\ E(i) = D(i)
      /\ E(n + 1) = d
  <2>1. ASSUME NEW i \in 1 .. n PROVE D(i) \in Nat /\ E(i) = D(i)
    <3>1. s.list[i].begin \in Nat /\ s.list[i].end \in Nat /\ s.list[i].begin < s.list[i].end
      BY <1>14, <1>15
    <3>2. \A u, v \in Nat : u < v => v - u \in Nat
      OBVIOUS
    <3>3. r.list[i] = s.list[i]
      BY <1>4
    <3> QED BY <3>1, <3>2, <3>3
  <2>2. E(n + 1) = d
    BY <1>3, <1>4
  <2> QED BY <2>1, <2>2
<1>6. Durations(s.list) = {D(i) : i \in 1 .. n} /\ Durations(r.list) = {E(i) : i \in 1 .. n + 1}
  BY <1>4 DEF Durations
<1> HIDE DEF n
<1>7. Durations(r.list) = Durations(s.list) \cup {d}
  <2>1. ASSUME NEW i \in 1 .. n + 1 PROVE E(i) \in Durations(s.list) \cup {d}
    BY <1>4, <1>5, <1>6
  <2>2. ASSUME NEW i \in 1 .. n PROVE D(i) \in Durations(r.list)
    BY <1>4, <1>5, <1>6
  <2>3. d \in Durations(r.list)
    <3>1. n + 1 \in 1 .. n + 1
      BY <1>4
    <3> QED BY <1>5, <1>6, <3>1
  <2> HIDE DEF D, E
  <2> QED BY <1>6, <2>1, <2>2, <2>3
<1>8. \A y \in Durations(s.list) : y \in Nat
  BY <1>5, <1>6
<1>9. /\ r.min \in Durations(r.list) /\ r.max \in Durations(r.list)
      /\ \A y \in Durations(r.list) : r.min <= y /\ y <= r.max
  <2>1. s.min \in Durations(s.list) /\ s.max \in Durations(s.list)
        /\ \A y \in Durations(s.list) : s.min <= y /\ y <= s.max
    BY DEF Measured
  <2>2. s.min \in Nat /\ s.max \in Nat /\ s.min # None /\ s.max # None
    BY <1>8, <2>1, MemAssumption
  <2> QED BY <1>1, <1>2, <1>7, <1>8, <2>1, <2>2
<1> DEFINE f == [i \in DOMAIN s.list |-> s.list[i].end - s.list[i].begin]
           g == [i \in DOMAIN r.list |-> r.list[i].end - r.list[i].begin]
<1>10. SumFunction(g) = SumFunction(f) + d
  <2>1. /\ DOMAIN f = 1 .. n /\ DOMAIN g = 1 .. n + 1 /\ g[n + 1] = d
        /\ \A i \in 1 .. n : f[i] \in Nat /\ g[i] = f[i]
    BY <1>4, <1>5
  <2>2. n + 1 \notin 1 .. n /\ 1 .. n + 1 = (1 .. n) \cup {n + 1}
    BY <1>4
  <2>4. IsFiniteSet(1 .. n)
    BY <1>4, FS_Interval
  <2> HIDE DEF f, g
  <2>3. SumFunction(g) = SumFunction(f) + g[n + 1]
    <3>1. n + 1 \notin DOMAIN f /\ DOMAIN g = DOMAIN f \cup {n + 1} /\ g[n + 1] \in Int
      BY <1>1, <2>1, <2>2
    <3>2. IsFiniteSet(DOMAIN f) /\ \A y \in DOMAIN f : f[y] \in Int /\ g[y] = f[y]
      BY <2>1, <2>4
    <3> QED BY <3>1, <3>2, SumMore
  <2> QED BY <2>1, <2>3
<1>11. r.total = SumFunction(g)
  BY <1>2, <1>10 DEF Measured
<1>12. \A i \in DOMAIN r.list : r.list[i].begin < r.list[i].end /\ r.list[i].end < now + 1
  <2> SUFFICES ASSUME NEW i \in 1 .. n + 1
               PROVE  r.list[i].begin < r.list[i].end /\ r.list[i].end < now + 1
    BY <1>4
  <2>1. CASE i = n + 1
    BY <1>3, <1>4, <2>1
  <2>2. CASE i \in 1 .. n
    <3>1. s.list[i].end \in Nat /\ s.list[i].begin < s.list[i].end /\ s.list[i].end < now
      BY <1>14, <1>15, <2>2
    <3>2. \A u \in Nat : u < now => u < now + 1
      OBVIOUS
    <3>3. r.list[i] = s.list[i]
      BY <1>4, <2>2
    <3> QED BY <3>1, <3>2, <3>3
  <2> QED BY <1>4, <2>1, <2>2
<1>13. Measured(r, now + 1)
  BY <1>4, <1>9, <1>11, <1>12 DEF Measured
<1> QED BY <1>4, <1>13 DEF r, n, Grown

\* The statistics of a thread have calls that were over when the one it is in
\* began, if it is in one.
StatsInv ==
    /\ DOMAIN stats \subseteq Tids \X Calls
    /\ \A k \in DOMAIN stats : Measured(stats[k], now)
    /\ \A k \in DOMAIN stats : calls[k[1]] # None =>
          \A x \in DOMAIN stats[k].list : stats[k].list[x].end <= calls[k[1]].begin
    /\ \A j, k \in DOMAIN stats :
          \A x \in DOMAIN stats[j].list, y \in DOMAIN stats[k].list :
             j[1] = k[1] /\ <<j, x>> # <<k, y>> => Apart(stats[j].list[x], stats[k].list[y])

LEMMA StatsKept ==
    ASSUME PagesInv, StatsInv, now' = now + 1, UNCHANGED stats,
           \A t \in Tids : calls'[t] # None =>
              \/ calls'[t].begin = now
              \/ calls[t] # None /\ calls'[t].begin = calls[t].begin
    PROVE  StatsInv'
<1>1. now \in Nat /\ DOMAIN stats \subseteq Tids \X Calls
  BY DEF PagesInv, MemTyped, StatsInv
<1>2. ASSUME NEW k \in DOMAIN stats
      PROVE  /\ Measured(stats[k], now + 1)
             /\ \A x \in DOMAIN stats[k].list :
                   stats[k].list[x].end \in Nat /\ stats[k].list[x].end <= now
  <2> PICK r : r = stats[k]
    OBVIOUS
  <2>1. Measured(r, now)
    BY DEF StatsInv
  <2>2. ASSUME NEW x \in DOMAIN r.list
        PROVE  r.list[x].end \in Nat /\ r.list[x].end < now /\ r.list[x].begin < r.list[x].end
    <3>1. r.list[x] \in Span
      BY <2>1 DEF Measured
    <3> QED BY <2>1, <3>1 DEF Measured, Span
  <2>3. \A u \in Nat : u < now => u < now + 1 /\ u <= now
    BY <1>1
  <2>4. Measured(r, now + 1)
    BY <2>1, <2>2, <2>3 DEF Measured
  <2> QED BY <2>2, <2>3, <2>4
<1>3. ASSUME NEW k \in DOMAIN stats, calls'[k[1]] # None, NEW x \in DOMAIN stats[k].list
      PROVE  stats[k].list[x].end <= calls'[k[1]].begin
  <2>1. k[1] \in Tids
    BY <1>1
  <2>2. CASE calls'[k[1]].begin = now
    BY <1>2, <2>2
  <2>3. CASE calls[k[1]] # None /\ calls'[k[1]].begin = calls[k[1]].begin
    BY <2>3 DEF StatsInv
  <2> QED BY <1>3, <2>1, <2>2, <2>3
<1> QED BY <1>1, <1>2, <1>3 DEF StatsInv

\* The call that ends began after the end of each one counted before.
LEMMA ExitStats ==
    ASSUME PagesInv, StatsInv, NEW c, NEW ok, SyscallExit(c, ok)
    PROVE  StatsInv'
<1> PICK t : t = Current(c)
  OBVIOUS
<1> PICK call : call = calls[t]
  OBVIOUS
<1>1. /\ now' = now + 1 /\ now \in Nat /\ t \in Tids \cup {None} /\ DOMAIN calls = Tids
      /\ \A u \in Tids : calls'[u] # None => calls[u] # None /\ calls'[u] = calls[u]
  BY CurrentThread DEF SyscallExit, Event, Cleared, PagesInv, MemTyped
<1>2. CASE stats' = stats
  BY <1>1, <1>2, StatsKept
<1>3. CASE stats' # stats
  <2> PICK k0 : k0 = <<t, call.name>>
    OBVIOUS
  <2> PICK old : old = IF k0 \in DOMAIN stats THEN stats[k0] ELSE NewStats
    OBVIOUS
  <2> PICK r : r = UpdateStats(old, now - call.begin)
    OBVIOUS
  <2> PICK new : new = [begin |-> call.begin, end |-> now]
    OBVIOUS
  <2>1. InCall(c) /\ stats' = Counted(c) /\ calls' = [calls EXCEPT ![t] = None]
    BY <1>3 DEF SyscallExit, Cleared
  <2>2. stats' = [k \in DOMAIN stats \cup {k0} |-> IF k = k0 THEN r ELSE stats[k]]
    BY <1>3, <2>1 DEF Counted
  <2>3. t \in Tids /\ call \in CallSet /\ call.begin < now /\ calls'[t] = None
    BY <1>1, <2>1 DEF InCall, PagesInv, CallOK
  <2>4. call.begin \in Nat /\ k0 \in Tids \X Calls /\ k0[1] = t
    BY <2>3 DEF CallSet
  <2>5. PICK n \in Nat :
           /\ Measured(r, now + 1)
           /\ DOMAIN r.list = 1 .. n + 1 /\ r.list[n + 1] = new
           /\ \A i \in 1 .. n : /\ k0 \in DOMAIN stats /\ i \in DOMAIN stats[k0].list
                                /\ r.list[i] = stats[k0].list[i]
    <3>1. CASE k0 \in DOMAIN stats
      <4>1. Measured(old, now)
        BY <3>1 DEF StatsInv
      <4> PICK b \in Nat : b = call.begin
        BY <2>4
      <4>3. now \in Nat /\ b < now
        BY <1>1, <2>3
      <4>2. Measured(UpdateStats(old, now - b), now + 1)
            /\ Grown(UpdateStats(old, now - b), old, [begin |-> b, end |-> now])
        BY <4>1, <4>3, MoreMeasured
      <4>4. Measured(r, now + 1) /\ Grown(r, old, new)
        BY <4>2
      <4>5. Len(old.list) \in Nat
        BY <4>4 DEF Grown
      <4> WITNESS Len(old.list) \in Nat
      <4> QED BY <3>1, <4>4 DEF Grown
    <3>2. CASE k0 \notin DOMAIN stats
      <4>1. LET q == UpdateStats(NewStats, now - call.begin) IN
            /\ Measured(q, now + 1)
            /\ DOMAIN q.list = {1} /\ q.list[1] = [begin |-> call.begin, end |-> now]
        BY <1>1, <2>3, <2>4, FirstMeasured
      <4>2. Measured(r, now + 1) /\ DOMAIN r.list = {1} /\ r.list[1] = new
        BY <3>2, <4>1
      <4>3. 0 + 1 = 1 /\ 1 .. 0 + 1 = {1} /\ 1 .. 0 = {}
        OBVIOUS
      <4> QED BY <4>2, <4>3
    <3> QED BY <3>1, <3>2
  <2>6. new.begin = call.begin
    OBVIOUS
  <2>7. ASSUME NEW j \in DOMAIN stats', NEW x \in DOMAIN stats'[j].list
        PROVE  \/ j = k0 /\ x = n + 1 /\ stats'[j].list[x] = new
               \/ /\ j \in DOMAIN stats /\ x \in DOMAIN stats[j].list
                  /\ stats'[j].list[x] = stats[j].list[x]
    <3>1. CASE j # k0
      BY <2>2, <3>1
    <3>2. CASE j = k0
      <4>1. stats'[j] = r
        BY <2>2, <3>2
      <4>2. x = n + 1 \/ x \in 1 .. n
        BY <2>5, <4>1
      <4> QED BY <2>5, <3>2, <4>1, <4>2
    <3> QED BY <3>1, <3>2
  <2>8. ASSUME NEW j \in DOMAIN stats, NEW x \in DOMAIN stats[j].list, j[1] = t
        PROVE  Apart(stats[j].list[x], new) /\ Apart(new, stats[j].list[x])
    <3>1. calls[t] # None
      BY <2>1 DEF InCall
    <3>2. stats[j].list[x].end <= call.begin
      BY <2>8, <3>1 DEF StatsInv
    <3> QED BY <2>6, <3>2 DEF Apart
  <2>9. ASSUME NEW j \in DOMAIN stats', NEW k \in DOMAIN stats',
               NEW x \in DOMAIN stats'[j].list, NEW y \in DOMAIN stats'[k].list,
               j[1] = k[1], <<j, x>> # <<k, y>>
        PROVE  Apart(stats'[j].list[x], stats'[k].list[y])
    <3>1. CASE j \in DOMAIN stats /\ x \in DOMAIN stats[j].list
               /\ stats'[j].list[x] = stats[j].list[x]
      <4>1. CASE k = k0 /\ y = n + 1 /\ stats'[k].list[y] = new
        BY <2>4, <2>8, <2>9, <3>1, <4>1
      <4>2. CASE k \in DOMAIN stats /\ y \in DOMAIN stats[k].list
                 /\ stats'[k].list[y] = stats[k].list[y]
        BY <2>9, <3>1, <4>2 DEF StatsInv
      <4> QED BY <2>7, <4>1, <4>2
    <3>2. CASE j = k0 /\ x = n + 1 /\ stats'[j].list[x] = new
      <4>1. ~(k = k0 /\ y = n + 1)
        BY <2>9, <3>2
      <4>2. /\ k \in DOMAIN stats /\ y \in DOMAIN stats[k].list
            /\ stats'[k].list[y] = stats[k].list[y]
        BY <2>7, <4>1
      <4> QED BY <2>4, <2>8, <2>9, <3>2, <4>2
    <3> QED BY <2>7, <3>1, <3>2
  <2>10. ASSUME NEW k \in DOMAIN stats' PROVE Measured(stats'[k], now')
    <3>1. CASE k = k0
      BY <1>1, <2>2, <2>5, <3>1
    <3>2. CASE k # k0
      <4> PICK q : q = stats[k]
        OBVIOUS
      <4>1. Measured(q, now) /\ stats'[k] = q
        BY <2>2, <3>2 DEF StatsInv
      <4>2. ASSUME NEW x \in DOMAIN q.list
            PROVE  q.list[x].end < now + 1 /\ q.list[x].begin < q.list[x].end
        <5>1. q.list[x] \in Span
          BY <4>1 DEF Measured
        <5> QED BY <1>1, <4>1, <5>1 DEF Measured, Span
      <4> QED BY <1>1, <4>1, <4>2 DEF Measured
    <3> QED BY <3>1, <3>2
  <2>11. ASSUME NEW k \in DOMAIN stats', calls'[k[1]] # None, NEW x \in DOMAIN stats'[k].list
         PROVE  stats'[k].list[x].end <= calls'[k[1]].begin
    <3>1. k[1] \in Tids /\ k[1] # t
      BY <2>2, <2>3, <2>4, <2>11 DEF StatsInv
    <3>2. k \in DOMAIN stats /\ stats'[k] = stats[k]
      BY <2>2, <2>4, <3>1
    <3>3. calls[k[1]] # None /\ calls'[k[1]] = calls[k[1]]
      BY <1>1, <2>11, <3>1
    <3> QED BY <2>11, <3>2, <3>3 DEF StatsInv
  <2>12. DOMAIN stats' \subseteq Tids \X Calls
    BY <2>2, <2>4 DEF StatsInv
  <2> QED BY <2>9, <2>10, <2>11, <2>12 DEF StatsInv
<1> QED BY <1>2, <1>3


LEMMA StatsInit == MemInit => StatsInv
BY DEF MemInit, StatsInv

LEMMA StatsNext == PagesInv /\ StatsInv /\ [MemNext]_memVars => StatsInv'
<1> SUFFICES ASSUME PagesInv, StatsInv, [MemNext]_memVars PROVE StatsInv'
  OBVIOUS
<1>0. DOMAIN calls = Tids /\ now \in Nat
  BY DEF PagesInv, MemTyped
<1>1. ASSUME NEW c \in Cpus, NEW p \in Tids \cup {0}, NEW n \in Tids \cup {0}, Switch(c, p, n)
      PROVE  StatsInv'
  BY <1>1, StatsKept DEF Switch, Event
<1>2. ASSUME NEW c \in Cpus, NEW name \in Calls, SyscallEntry(c, name) PROVE StatsInv'
  <2> PICK k : k = [name |-> name, begin |-> now, rq |-> Request(name)]
    OBVIOUS
  <2>1. k.begin = now
    OBVIOUS
  <2>2. calls' = IF Current(c) = None THEN calls ELSE [calls EXCEPT ![Current(c)] = k]
    BY <1>2 DEF SyscallEntry
  <2>3. \A t \in Tids : calls'[t] = k \/ calls'[t] = calls[t]
    BY <1>0, <2>2
  <2>4. now' = now + 1 /\ UNCHANGED stats
    BY <1>2 DEF SyscallEntry, Event
  <2> QED BY <2>1, <2>3, <2>4, StatsKept
<1>3. ASSUME NEW c \in Cpus, NEW ok \in BOOLEAN, SyscallExit(c, ok) PROVE StatsInv'
  BY <1>3, ExitStats
<1>4. ASSUME NEW c \in Cpus, PageAlloc(c) PROVE StatsInv'
  <2>1. ASSUME NEW t \in Tids, calls'[t] # None
        PROVE  calls[t] # None /\ calls'[t].begin = calls[t].begin
    <3> PICK k : k = calls[t]
      OBVIOUS
    <3>1. calls'[t] = k \/ (HasRequest(t) /\ calls'[t] = [k EXCEPT !.rq.alloc = @ + 1])
      BY <1>4 DEF PageAlloc, Allocated
    <3>2. HasRequest(t) => k \in CallSet
      BY <1>0 DEF PagesInv, CallOK, HasRequest
    <3> QED BY <2>1, <3>1, <3>2 DEF HasRequest, CallSet
  <2>2. now' = now + 1 /\ UNCHANGED stats
    BY <1>4 DEF PageAlloc, Event
  <2> QED BY <2>1, <2>2, StatsKept
<1>5. ASSUME NEW c \in Cpus, NEW old \in BOOLEAN, PageFree(c, old) PROVE StatsInv'
  <2>1. ASSUME NEW t \in Tids, calls'[t] # None
        PROVE  calls[t] # None /\ calls'[t].begin = calls[t].begin
    <3> PICK k : k = calls[t]
      OBVIOUS
    <3> PICK n : n = FreedBy(t)
      OBVIOUS
    <3>1. calls'[t] = k \/ (n # 0 /\ calls'[t] = [k EXCEPT !.rq.freed = @ + n])
      BY <1>0, <1>5 DEF PageFree
    <3>2. n # 0 => HasRequest(t)
      BY DEF FreedBy
    <3>3. HasRequest(t) => k \in CallSet
      BY <1>0 DEF PagesInv, CallOK, HasRequest
    <3> QED BY <2>1, <3>1, <3>2, <3>3 DEF HasRequest, CallSet
  <2>2. now' = now + 1 /\ UNCHANGED stats
    BY <1>5 DEF PageFree, Event
  <2> QED BY <2>1, <2>2, StatsKept
<1>6. ASSUME NEW c \in Cpus, WakeKswapd(c) PROVE StatsInv'
  <2>1. ASSUME NEW t \in Tids, calls'[t] # None
        PROVE  calls[t] # None /\ calls'[t].begin = calls[t].begin
    <3> PICK k : k = calls[t]
      OBVIOUS
    <3>1. calls'[t] = k \/ (HasRequest(t) /\ calls'[t] = [k EXCEPT !.rq.woke = TRUE])
      BY <1>0, <1>6 DEF WakeKswapd
    <3>2. HasRequest(t) => k \in CallSet
      BY <1>0 DEF PagesInv, CallOK, HasRequest
    <3> QED BY <2>1, <3>1, <3>2 DEF HasRequest, CallSet
  <2>2. now' = now + 1 /\ UNCHANGED stats
    BY <1>6 DEF WakeKswapd, Event
  <2> QED BY <2>1, <2>2, StatsKept
<1>7. ASSUME NEW n \in 1 .. 2, Writeback(n) PROVE StatsInv'
  <2>1. ASSUME NEW t \in Tids, calls'[t] # None
        PROVE  calls[t] # None /\ calls'[t].begin = calls[t].begin
    <3> PICK k : k = calls[t]
      OBVIOUS
    <3>1. calls'[t] = k \/ (HasRequest(t) /\ calls'[t] = [k EXCEPT !.rq.written = @ + n])
      BY <1>7 DEF Writeback
    <3>2. HasRequest(t) => k \in CallSet
      BY <1>0 DEF PagesInv, CallOK, HasRequest
    <3> QED BY <2>1, <3>1, <3>2 DEF HasRequest, CallSet
  <2>2. now' = now + 1 /\ UNCHANGED stats
    BY <1>7 DEF Writeback, Event
  <2> QED BY <2>1, <2>2, StatsKept
<1>8. ASSUME NEW c \in Cpus, Xmit(c) PROVE StatsInv'
  BY <1>8, StatsKept DEF Xmit, Event
<1>9. CASE Receive
  BY <1>9, StatsKept DEF Receive, Event
<1>10. CASE UNCHANGED memVars
  BY <1>10 DEF memVars, StatsInv
<1> QED BY <1>1, <1>2, <1>3, <1>4, <1>5, <1>6, <1>7, <1>8, <1>9, <1>10 DEF MemNext

\* The minimum and the maximum of the durations.
LEMMA MeasuredExtremes ==
    ASSUME NEW s, NEW n \in Nat, Measured(s, n)
    PROVE  s.min = Min(Durations(s.list)) /\ s.max = Max(Durations(s.list))
<1> PICK D : D = Durations(s.list)
  OBVIOUS
<1>1. D \subseteq Int
  <2>1. ASSUME NEW i \in DOMAIN s.list PROVE s.list[i].end - s.list[i].begin \in Int
    <3>1. s.list[i] \in Span
      BY DEF Measured
    <3> QED BY <3>1 DEF Span
  <2> QED BY <2>1 DEF Durations
<1>2. s.min \in D /\ s.max \in D /\ \A d \in D : s.min <= d /\ d <= s.max
  BY DEF Measured
<1>3. \A x \in D : (\A d \in D : x <= d) => x = s.min
  BY <1>1, <1>2
<1>4. \A x \in D : (\A d \in D : x >= d) => x = s.max
  BY <1>1, <1>2
<1>5. Min(D) = s.min
  BY <1>2, <1>3 DEF Min
<1>6. Max(D) = s.max
  <2>1. \A d \in D : s.max >= d
    BY <1>1, <1>2
  <2> QED BY <1>2, <1>4, <2>1 DEF Max
<1> QED BY <1>5, <1>6

\* The calls that the statistics of a thread have, of all names, never overlap
\* in time, with entries or exits missing from the trace or not; each name has
\* the minimum, maximum and sum of the durations of its own (syscalls.py:
\* 36-73, io.py:82-93, core/syscalls.py:43-64, 91-100).
THEOREM MemCalls == MemSpec => []CallsAreDisjoint
<1>1. PagesInv /\ StatsInv => CallsAreDisjoint
  <2> SUFFICES ASSUME PagesInv, StatsInv PROVE CallsAreDisjoint
    OBVIOUS
  <2>1. ASSUME NEW k \in DOMAIN stats
        PROVE  /\ stats[k].min = Min(Durations(stats[k].list))
               /\ stats[k].max = Max(Durations(stats[k].list))
               /\ stats[k].total = SumFunction([i \in DOMAIN stats[k].list |->
                     stats[k].list[i].end - stats[k].list[i].begin])
    <3>1. Measured(stats[k], now) /\ now \in Nat
      BY DEF StatsInv, PagesInv, MemTyped
    <3>2. stats[k].total = SumFunction([i \in DOMAIN stats[k].list |->
             stats[k].list[i].end - stats[k].list[i].begin])
      BY <3>1 DEF Measured
    <3> QED BY <3>1, <3>2, MeasuredExtremes
  <2>2. ASSUME NEW j \in DOMAIN stats, NEW k \in DOMAIN stats,
               NEW x \in DOMAIN stats[j].list, NEW y \in DOMAIN stats[k].list,
               j[1] = k[1], <<j, x>> # <<k, y>>
        PROVE  \/ stats[j].list[x].end <= stats[k].list[y].begin
               \/ stats[k].list[y].end <= stats[j].list[x].begin
    BY <2>2 DEF StatsInv, Apart
  <2> QED BY <2>1, <2>2 DEF CallsAreDisjoint, Durations
<1> QED BY PagesInit, PagesNext, StatsInit, StatsNext, <1>1, PTL DEF MemSpec
=============================================================================

---------------------------- MODULE Cputop_proof ----------------------------
(***************************************************************************)
(* Proofs about the CPU usage analysis, for any CPUs, threads and filters. *)
(*                                                                         *)
(* UsageWithinPeriod is not inductive: it bounds total + (now - start),    *)
(* and a switch adds that sum to the total. What is inductive is where the *)
(* times lie: a counter which is running was started in the period, and    *)
(* its total fits in the part of the period before that; the total of one  *)
(* which is stopped fits in the period so far. This holds of any trace.    *)
(*                                                                         *)
(* In a complete trace the totals are those of the kernel: what a running  *)
(* thread or a busy CPU will be charged, up to now, is what the kernel     *)
(* counted so far.                                                         *)
(***************************************************************************)
EXTENDS Cputop, TLAPS

\* The statistics of a CPU and of a thread, with a priority of any kind.
CpuStats == [total : Nat, start : Nat \cup {None}]
TidStats(P) == [total : Nat, last : Nat \cup {None}, prio : P]

\* A total, and the timestamp since when more is counted, at time t.
Fits(total, since, t) ==
    IF since = None THEN total <= t - begin
    ELSE begin <= since /\ since <= t /\ total <= since - begin

Prios == {None, 10, 20}

Clock ==
    /\ now \in Nat
    /\ begin \in Nat
    /\ begin <= now
    /\ lastTs \in Nat \cup {None}
    /\ state \in {"ready", "running", "done", "failed"}

CpusFit(f, t) ==
    /\ f \in [DOMAIN f -> CpuStats]
    /\ DOMAIN f \subseteq Cpus
    /\ \A c \in DOMAIN f : Fits(f[c].total, f[c].start, t)

TidsFit(f, t) ==
    /\ f \in [DOMAIN f -> TidStats(Prios)]
    /\ DOMAIN f \subseteq Tids
    /\ \A x \in DOMAIN f : Fits(f[x].total, f[x].last, t)

\* The inductive invariant.
CputopInv ==
    /\ Clock
    /\ CpusFit(cpus, now)
    /\ TidsFit(tids, now)
    /\ running \in [Cpus -> Tids]

-----------------------------------------------------------------------------
\* What is counted until a later time still fits, and the counter may go on
\* from that time or stop.
LEMMA SinceFits ==
    ASSUME begin \in Nat, NEW total \in Nat, NEW since \in Nat \cup {None},
           NEW t \in Nat, NEW ts \in Nat,
           begin <= t, t <= ts, Fits(total, since, t)
    PROVE  /\ total + Since(since, ts) \in Nat
           /\ total + Since(since, ts) <= ts - begin
           /\ Fits(total, since, ts)
           /\ Fits(total + Since(since, ts), ts, ts)
           /\ Fits(total + Since(since, ts), None, ts)
<1>1. None \notin Nat
  BY CputopAssumption
<1>2. CASE since = None
  BY <1>1, <1>2 DEF Fits, Since
<1>3. CASE since # None
  BY <1>1, <1>3 DEF Fits, Since
<1> QED BY <1>2, <1>3

\* Time passes.
LEMMA CpusFitLater ==
    ASSUME begin \in Nat, NEW f, NEW t \in Nat, NEW ts \in Nat,
           begin <= t, t <= ts, CpusFit(f, t)
    PROVE  CpusFit(f, ts)
BY SinceFits DEF CpusFit, CpuStats

LEMMA TidsFitLater ==
    ASSUME begin \in Nat, NEW f, NEW t \in Nat, NEW ts \in Nat,
           begin <= t, t <= ts, TidsFit(f, t)
    PROVE  TidsFit(f, ts)
BY SinceFits DEF TidsFit, TidStats

\* One CPU's statistics are written, and the others are kept.
LEMMA PutCpuFits ==
    ASSUME NEW f, NEW c \in Cpus, NEW v \in CpuStats, NEW t \in Nat,
           CpusFit(f, t), Fits(v.total, v.start, t)
    PROVE  CpusFit(Put(f, c, v), t)
BY DEF CpusFit, Put

LEMMA PutTidFits ==
    ASSUME NEW f, NEW x \in Tids, NEW v \in TidStats(Prios), NEW t \in Nat,
           TidsFit(f, t), Fits(v.total, v.last, t)
    PROVE  TidsFit(Put(f, x, v), t)
BY DEF TidsFit, Put

\* The statistics created at the beginning of the period, or without a
\* starting time, fit.
LEMMA NewFits ==
    ASSUME Clock
    PROVE  /\ NewCpu \in CpuStats /\ Fits(NewCpu.total, NewCpu.start, now)
           /\ \A last \in {begin, None}, p \in Prios :
                 /\ NewTid(last, p) \in TidStats(Prios)
                 /\ Fits(NewTid(last, p).total, NewTid(last, p).last, now)
BY CputopAssumption DEF Clock, NewCpu, NewTid, CpuStats, TidStats, Fits

LEMMA EnsureTidFits ==
    ASSUME NEW f, NEW x \in Tids, NEW v \in TidStats(Prios), NEW t \in Nat,
           TidsFit(f, t), Fits(v.total, v.last, t)
    PROVE  TidsFit(Ensure(f, x, v), t) /\ x \in DOMAIN Ensure(f, x, v)
<1>1. CASE x \in DOMAIN f
  BY <1>1 DEF Ensure
<1>2. CASE x \notin DOMAIN f
  <2>1. TidsFit(Put(f, x, v), t)
    BY PutTidFits
  <2> QED BY <1>2, <2>1 DEF Ensure, Put
<1> QED BY <1>1, <1>2

LEMMA EnsureCpuFits ==
    ASSUME NEW f, NEW x \in Cpus, NEW v \in CpuStats, NEW t \in Nat,
           CpusFit(f, t), Fits(v.total, v.start, t)
    PROVE  CpusFit(Ensure(f, x, v), t) /\ x \in DOMAIN Ensure(f, x, v)
<1>1. CASE x \in DOMAIN f
  BY <1>1 DEF Ensure
<1>2. CASE x \notin DOMAIN f
  <2>1. CpusFit(Put(f, x, v), t)
    BY PutCpuFits
  <2> QED BY <1>2, <2>1 DEF Ensure, Put
<1> QED BY <1>1, <1>2

-----------------------------------------------------------------------------
\* A switch keeps the CPUs' statistics in the period.
LEMMA SwitchCpuFits ==
    ASSUME Clock, CpusFit(cpus, now), NEW ts \in Nat, now <= ts,
           NEW c \in Cpus, NEW next \in Tids
    PROVE  CpusFit(SwitchCpu(ts, c, next), ts)
<1> DEFINE seen == Ensure(cpus, c, NewCpu)
           total == seen[c].total + Since(seen[c].start, ts)
           start == IF Keeps(next) THEN ts ELSE None
<1>1. CpusFit(seen, now) /\ c \in DOMAIN seen
  BY NewFits, EnsureCpuFits DEF Clock
<1>2. /\ seen[c] \in CpuStats
      /\ seen[c].total \in Nat
      /\ seen[c].start \in Nat \cup {None}
      /\ Fits(seen[c].total, seen[c].start, now)
  BY <1>1 DEF CpusFit, CpuStats
<1>3. total \in Nat /\ Fits(total, ts, ts) /\ Fits(total, None, ts)
  BY <1>2, SinceFits DEF Clock
<1>4. start \in Nat \cup {None} /\ Fits(total, start, ts)
  BY <1>3
<1>5. CpusFit(seen, ts)
  BY <1>1, CpusFitLater DEF Clock
<1>6. SwitchCpu(ts, c, next) =
        [seen EXCEPT ![c] = [total |-> total, start |-> start]]
  BY DEF SwitchCpu
<1> HIDE DEF seen, total, start
<1> QED BY <1>1, <1>3, <1>4, <1>5, <1>6 DEF CpusFit, CpuStats

\* Charging the previous thread keeps the threads' statistics in the period,
\* and stops its counter.
LEMMA ChargedFits ==
    ASSUME Clock, TidsFit(tids, now), NEW ts \in Nat, now <= ts,
           NEW prev \in Tids
    PROVE  TidsFit(Charged(ts, prev), ts)
<1> DEFINE seen == Ensure(tids, prev, NewTid(begin, None))
           total == seen[prev].total + Since(seen[prev].last, ts)
<1>0. None \in Prios
  BY DEF Prios
<1>1. TidsFit(seen, now) /\ prev \in DOMAIN seen
  BY <1>0, NewFits, EnsureTidFits DEF Clock
<1>2. /\ seen[prev] \in TidStats(Prios)
      /\ seen[prev].total \in Nat
      /\ seen[prev].last \in Nat \cup {None}
      /\ seen[prev].prio \in Prios
      /\ Fits(seen[prev].total, seen[prev].last, now)
  BY <1>1 DEF TidsFit, TidStats
<1>3. total \in Nat /\ Fits(total, None, ts)
  BY <1>2, SinceFits DEF Clock
<1>4. TidsFit(seen, ts)
  BY <1>1, TidsFitLater DEF Clock
<1>5. Charged(ts, prev) =
        [seen EXCEPT ![prev] =
            [total |-> total, last |-> None, prio |-> seen[prev].prio]]
  BY DEF Charged
<1> HIDE DEF seen, total
<1> QED BY <1>1, <1>2, <1>3, <1>4, <1>5 DEF TidsFit, TidStats

\* A switch keeps the threads' statistics in the period.
LEMMA SwitchTidFits ==
    ASSUME Clock, TidsFit(tids, now), NEW ts \in Nat, now <= ts,
           NEW prev \in Tids, NEW next \in Tids, NEW prio \in Prios
    PROVE  TidsFit(SwitchTid(ts, prev, next, prio), ts)
<1>1. TidsFit(Charged(ts, prev), ts)
  BY ChargedFits
<1>2. CASE ~Keeps(next)
  BY <1>1, <1>2 DEF SwitchTid
<1>3. CASE Keeps(next)
  <2> DEFINE seen == Ensure(Charged(ts, prev), next, NewTid(None, prio))
  <2>1. /\ NewTid(None, prio) \in TidStats(Prios)
        /\ NewTid(None, prio).total = 0
        /\ NewTid(None, prio).last = None
    BY DEF NewTid, TidStats
  <2>2. Fits(0, None, ts)
    BY DEF Fits, Clock
  <2>3. TidsFit(seen, ts) /\ next \in DOMAIN seen
    BY <1>1, <2>1, <2>2, EnsureTidFits
  <2>4. /\ seen[next] \in TidStats(Prios)
        /\ seen[next].total \in Nat
        /\ seen[next].last \in Nat \cup {None}
        /\ seen[next].prio \in Prios
        /\ Fits(seen[next].total, seen[next].last, ts)
    BY <2>3 DEF TidsFit, TidStats
  <2>5. Fits(seen[next].total, ts, ts)
    BY <2>4, CputopAssumption DEF Fits, Clock
  <2> DEFINE v == [seen[next] EXCEPT !.last = ts]
  <2>6. v \in TidStats(Prios) /\ v.total = seen[next].total /\ v.last = ts
    BY <2>4 DEF TidStats
  <2>7. SwitchTid(ts, prev, next, prio) = [seen EXCEPT ![next] = v]
    BY <1>3 DEF SwitchTid
  <2>8. Fits(v.total, v.last, ts)
    BY <2>5, <2>6
  <2> HIDE DEF seen, v
  <2> QED BY <2>3, <2>6, <2>7, <2>8 DEF TidsFit
<1> QED BY <1>2, <1>3

-----------------------------------------------------------------------------
LEMMA RunningTyped == CputopInit => running \in [Cpus -> Tids]
BY CputopAssumption DEF CputopInit, Runnings

LEMMA InitInv == CputopInit => CputopInv
<1> SUFFICES ASSUME CputopInit PROVE CputopInv
  OBVIOUS
<1>1. Clock
  BY CputopAssumption DEF CputopInit, Clock
<1>2. CpusFit(cpus, now) /\ TidsFit(tids, now)
  BY DEF CputopInit, CpusFit, TidsFit
<1> QED BY <1>1, <1>2, RunningTyped DEF CputopInv

\* Time goes forward when an event is processed.
LEMMA AtClock ==
    ASSUME CputopInv, NEW ts \in 0 .. MaxTs, At(ts), begin' \in {begin, ts}
    PROVE  /\ ts \in Nat /\ now <= ts /\ now' = ts
           /\ Clock'
BY CputopAssumption DEF CputopInv, Clock, At

\* Statistics that fit are still good when the beginning does not change.
LEMMA FitNext ==
    ASSUME begin' = begin, NEW f, NEW g, NEW t
    PROVE  /\ cpus' = f /\ now' = t /\ CpusFit(f, t) => CpusFit(cpus, now)'
           /\ tids' = g /\ now' = t /\ TidsFit(g, t) => TidsFit(tids, now)'
BY DEF CpusFit, TidsFit, Fits

LEMMA NextInv == CputopInv /\ [CputopNext]_cputopVars => CputopInv'
<1> SUFFICES ASSUME CputopInv, [CputopNext]_cputopVars
             PROVE  CputopInv'
  OBVIOUS
<1>0. Clock /\ CpusFit(cpus, now) /\ TidsFit(tids, now) /\ running \in [Cpus -> Tids]
  BY DEF CputopInv
<1>1. CASE FirstEvent
  BY <1>0, <1>1 DEF FirstEvent, CputopInv, Clock, CpusFit, TidsFit, Fits,
                    statVars, kernelVars
<1>2. CASE FirstEventPastEnd
  BY <1>0, <1>2 DEF FirstEventPastEnd, CputopInv, Clock, CpusFit, TidsFit,
                    Fits, statVars, kernelVars
<1>3. ASSUME NEW ts \in 0 .. MaxTs, NEW c \in Cpus,
             NEW prev \in Tids, NEW next \in Tids,
             Switch(ts, c, prev, next, 20)
      PROVE  CputopInv'
  <2>1. At(ts) /\ begin' = begin
    BY <1>3 DEF Switch
  <2>2. ts \in Nat /\ now <= ts /\ now' = ts /\ Clock'
    BY <2>1, AtClock
  <2>3. running' \in [Cpus -> Tids]
    BY <1>0, <1>3 DEF Switch
  <2>4. CASE c \in conf.cpus
    <3>1. cpus' = SwitchCpu(ts, c, next) /\ tids' = SwitchTid(ts, prev, next, 20)
      BY <1>3, <2>4 DEF Switch
    <3>2. CpusFit(SwitchCpu(ts, c, next), ts)
      BY <1>0, <2>2, SwitchCpuFits
    <3>3. 20 \in Prios
      BY DEF Prios
    <3>4. TidsFit(SwitchTid(ts, prev, next, 20), ts)
      BY <1>0, <2>2, <3>3, SwitchTidFits
    <3> QED BY <2>1, <2>2, <2>3, <3>1, <3>2, <3>4, FitNext DEF CputopInv
  <2>5. CASE c \notin conf.cpus
    <3>1. cpus' = cpus /\ tids' = tids
      BY <1>3, <2>5 DEF Switch, statVars
    <3>2. CpusFit(cpus, ts) /\ TidsFit(tids, ts)
      BY <1>0, <2>2, CpusFitLater, TidsFitLater DEF Clock
    <3> QED BY <2>1, <2>2, <2>3, <3>1, <3>2, FitNext DEF CputopInv
  <2> QED BY <2>4, <2>5
<1>4. ASSUME NEW ts \in 0 .. MaxTs, NEW c \in Cpus,
             NEW t \in Tids \ {Swapper}, Migrate(ts, c, t)
      PROVE  CputopInv'
  <2>1. At(ts) /\ begin' = begin /\ cpus' = cpus /\ running' = running
    BY <1>4 DEF Migrate
  <2>2. ts \in Nat /\ now <= ts /\ now' = ts /\ Clock'
    BY <2>1, AtClock
  <2>3. CpusFit(cpus, ts)
    BY <1>0, <2>2, CpusFitLater DEF Clock
  <2>4. NewTid(None, None) \in TidStats(Prios)
        /\ Fits(NewTid(None, None).total, NewTid(None, None).last, now)
    BY <1>0, NewFits DEF Prios
  <2>5. TidsFit(Ensure(tids, t, NewTid(None, None)), now)
    BY <1>0, <2>4, EnsureTidFits DEF Clock
  <2>6. TidsFit(tids', now)
    BY <1>0, <1>4, <2>5 DEF Migrate
  <2>7. TidsFit(tids', ts)
    BY <1>0, <2>2, <2>6, TidsFitLater DEF Clock
  <2> QED BY <1>0, <2>1, <2>2, <2>3, <2>7, FitNext DEF CputopInv
<1>5. ASSUME NEW ts \in 0 .. MaxTs, NEW t \in Tids \ {Swapper},
             PrioChanged(ts, t, 10)
      PROVE  CputopInv'
  <2>1. At(ts) /\ begin' = begin /\ cpus' = cpus /\ running' = running
    BY <1>5 DEF PrioChanged
  <2>2. ts \in Nat /\ now <= ts /\ now' = ts /\ Clock'
    BY <2>1, AtClock
  <2>3. CpusFit(cpus, ts) /\ TidsFit(tids, ts)
    BY <1>0, <2>2, CpusFitLater, TidsFitLater DEF Clock
  <2>4. TidsFit(tids', ts)
    <3>1. CASE t \notin DOMAIN tids
      BY <1>5, <2>3, <3>1 DEF PrioChanged
    <3>2. CASE t \in DOMAIN tids
      <4> DEFINE v == [tids[t] EXCEPT !.prio = 10]
      <4>1. tids' = [tids EXCEPT ![t] = v]
        BY <1>5, <3>2 DEF PrioChanged
      <4>2. tids[t] \in TidStats(Prios) /\ Fits(tids[t].total, tids[t].last, ts)
        BY <2>3, <3>2 DEF TidsFit
      <4>3. v \in TidStats(Prios) /\ v.total = tids[t].total /\ v.last = tids[t].last
        BY <4>2 DEF TidStats, Prios
      <4> HIDE DEF v
      <4> QED BY <2>3, <4>1, <4>2, <4>3 DEF TidsFit
    <3> QED BY <3>1, <3>2
  <2> QED BY <1>0, <2>1, <2>2, <2>3, <2>4, FitNext DEF CputopInv
<1>6. ASSUME NEW ts \in 0 .. MaxTs, NextPeriod(ts)
      PROVE  CputopInv'
  <2>1. At(ts) /\ begin' = ts /\ running' = running
    BY <1>6 DEF NextPeriod
  <2>2. Clock'
    BY <2>1, AtClock
  <2>3. (CpusFit(cpus, now) /\ TidsFit(tids, now))'
    BY <1>6 DEF NextPeriod, CpusFit, TidsFit
  <2> QED BY <1>0, <2>1, <2>2, <2>3 DEF CputopInv
<1>7. CASE Finish
  BY <1>0, <1>7 DEF Finish, CputopInv, Clock, CpusFit, TidsFit, Fits,
                    statVars, kernelVars
<1>8. CASE UNCHANGED cputopVars
  BY <1>0, <1>8 DEF CputopInv, Clock, CpusFit, TidsFit, Fits, cputopVars,
                    statVars, kernelVars
<1> QED BY <1>1, <1>2, <1>3, <1>4, <1>5, <1>6, <1>7, <1>8 DEF CputopNext

\* What is reported of a CPU or a thread is within its period.
LEMMA InvBoundsUsage == CputopInv => CputopTypeOK /\ UsageWithinPeriod
<1> SUFFICES ASSUME CputopInv PROVE CputopTypeOK /\ UsageWithinPeriod
  OBVIOUS
<1>1. Clock /\ CpusFit(cpus, now) /\ TidsFit(tids, now)
  BY DEF CputopInv
<1>2. CputopTypeOK
  BY <1>1 DEF CputopInv, CputopTypeOK, Clock, CpusFit, TidsFit, CpuStats,
              TidStats
<1>3. ASSUME NEW c \in DOMAIN cpus PROVE CpuUsage(c) \in 0 .. Duration
  <2>1. /\ cpus[c].total \in Nat /\ cpus[c].start \in Nat \cup {None}
        /\ Fits(cpus[c].total, cpus[c].start, now)
    BY <1>1, <1>3 DEF CpusFit, CpuStats
  <2>2. begin \in Nat /\ now \in Nat /\ begin <= now /\ now <= now
    BY <1>1 DEF Clock
  <2>3. /\ cpus[c].total + Since(cpus[c].start, now) \in Nat
        /\ cpus[c].total + Since(cpus[c].start, now) <= now - begin
    BY <2>1, <2>2, SinceFits
  <2> QED BY <2>2, <2>3 DEF CpuUsage, Duration
<1>4. ASSUME NEW t \in DOMAIN tids PROVE TidUsage(t) \in 0 .. Duration
  <2>1. /\ tids[t].total \in Nat /\ tids[t].last \in Nat \cup {None}
        /\ Fits(tids[t].total, tids[t].last, now)
    BY <1>1, <1>4 DEF TidsFit, TidStats
  <2>2. begin \in Nat /\ now \in Nat /\ begin <= now /\ now <= now
    BY <1>1 DEF Clock
  <2>3. /\ tids[t].total + Since(tids[t].last, now) \in Nat
        /\ tids[t].total + Since(tids[t].last, now) <= now - begin
    BY <2>1, <2>2, SinceFits
  <2> QED BY <2>2, <2>3 DEF TidUsage, Duration
<1> QED BY <1>2, <1>3, <1>4 DEF UsageWithinPeriod

\* The usage statistics always have their types: the analysis never adds a
\* missing timestamp to a total (core/cputop.py:88-142).
THEOREM CputopTypes == CputopSpec => []CputopTypeOK
<1>1. CputopInv => CputopTypeOK
  BY InvBoundsUsage
<1> QED BY <1>1, InitInv, NextInv, PTL DEF CputopSpec

\* No CPU and no thread is ever reported above 100 % of its period, whatever
\* the trace lost, the filters kept and the number of CPUs and threads
\* (core/cputop.py:57-86).
THEOREM CputopBounded == CputopSpec => []UsageWithinPeriod
<1>1. CputopInv => UsageWithinPeriod
  BY InvBoundsUsage
<1> QED BY <1>1, InitInv, NextInv, PTL DEF CputopSpec

-----------------------------------------------------------------------------
(* Complete traces.  The two properties are about what is reported now, and *)
(* a counter that is stopped hides since when: what is inductive says which *)
(* counters run, those of the CPUs that run a thread which is kept and of   *)
(* the threads on a kept CPU, and what was counted in each case.            *)

OnCpu(t) == \E c \in conf.cpus : running[c] = t

\* A thread without statistics never left its CPU, or never had one.
TidExact(t) ==
    IF t \in DOMAIN tids
      THEN IF OnCpu(t)
             THEN tids[t].last # None /\ tids[t].total + (now - tids[t].last) = ran[t]
             ELSE tids[t].last = None /\ tids[t].total = ran[t]
      ELSE ran[t] = IF OnCpu(t) THEN now - begin ELSE 0

Charge(c) == busy[c] + idleHead[c]

CpuExact(c) ==
    IF c \in DOMAIN cpus
      THEN IF Keeps(running[c])
             THEN cpus[c].start # None /\ cpus[c].total + (now - cpus[c].start) = Charge(c)
             ELSE cpus[c].start = None /\ cpus[c].total = Charge(c)
      ELSE Charge(c) = now - begin

KernelTyped ==
    /\ ran \in [Tids -> Nat]
    /\ busy \in [Cpus -> Nat]
    /\ idleHead \in [Cpus -> Nat]

Apart == \A c, d \in Cpus : running[c] = running[d] => c = d \/ running[c] = Swapper

Exact ==
    /\ KernelTyped
    /\ Apart
    /\ DOMAIN cpus \subseteq conf.cpus
    /\ \A t \in conf.tids \ {Swapper} : TidExact(t)
    /\ \A c \in conf.cpus : CpuExact(c)

ExactInv == CputopInv /\ conf \in Confs /\ (conf.lossless => Exact)

LEMMA ConfTyped ==
    ASSUME conf \in Confs
    PROVE  conf.cpus \subseteq Cpus /\ conf.tids \subseteq Tids /\ conf.lossless \in BOOLEAN
BY CputopAssumption

LEMMA ExactInit == CputopInit => ExactInv
<1> SUFFICES ASSUME CputopInit PROVE ExactInv
  OBVIOUS
<1>1. /\ conf \in Confs /\ now \in Nat /\ begin = now /\ DOMAIN cpus = {} /\ DOMAIN tids = {}
      /\ ran = [t \in Tids |-> 0] /\ busy = [c \in Cpus |-> 0]
      /\ idleHead = [c \in Cpus |-> 0] /\ running \in Runnings
  BY CputopAssumption DEF CputopInit
<1>2. conf.cpus \subseteq Cpus /\ conf.tids \subseteq Tids
  BY <1>1, ConfTyped
<1>3. KernelTyped /\ Apart
  <2>1. \A c, d \in Cpus : running[c] = running[d] => c = d \/ running[c] = Swapper
    BY <1>1 DEF Runnings
  <2> QED BY <1>1, <2>1 DEF KernelTyped, Apart
<1>4. ASSUME NEW t \in conf.tids \ {Swapper} PROVE TidExact(t)
  <2>1. ran[t] = 0 /\ t \notin DOMAIN tids /\ now - begin = 0
    BY <1>1, <1>2
  <2> QED BY <2>1 DEF TidExact
<1>5. ASSUME NEW c \in conf.cpus PROVE CpuExact(c)
  BY <1>1, <1>2 DEF CpuExact, Charge
<1> QED BY <1>1, <1>3, <1>4, <1>5, InitInv DEF ExactInv, Exact

\* Time passes: a thread on a kept CPU ran, and a CPU is charged if it runs a
\* thread which is kept or has not switched yet.
LEMMA ElapseKernel ==
    ASSUME conf \in Confs, conf.lossless, KernelTyped, now \in Nat,
           running \in [Cpus -> Tids],
           NEW ts \in Nat, now <= ts, Elapse(ts)
    PROVE  /\ KernelTyped'
           /\ \A t \in Tids \ {Swapper} : ran'[t] = ran[t] + (IF OnCpu(t) THEN ts - now ELSE 0)
           /\ \A c \in Cpus :
                 Charge(c)' = Charge(c) + (IF c \in DOMAIN cpus /\ ~Keeps(running[c])
                                             THEN 0 ELSE ts - now)
<1>1. /\ ran' = [t \in Tids |->
                   ran[t] + (IF \E c \in conf.cpus : running[c] = t /\ t # Swapper
                               THEN ts - now ELSE 0)]
      /\ busy' = [c \in Cpus |-> busy[c] + (IF Keeps(running[c]) THEN ts - now ELSE 0)]
      /\ idleHead' = [c \in Cpus |->
                        idleHead[c] + (IF c \in DOMAIN cpus \/ Keeps(running[c])
                                         THEN 0 ELSE ts - now)]
  BY DEF Elapse
<1>2. ts - now \in Nat
  OBVIOUS
<1>3. ran' \in [Tids -> Nat] /\ busy' \in [Cpus -> Nat] /\ idleHead' \in [Cpus -> Nat]
  BY <1>1, <1>2 DEF KernelTyped
<1>4. ASSUME NEW t \in Tids \ {Swapper}
      PROVE  ran'[t] = ran[t] + (IF OnCpu(t) THEN ts - now ELSE 0)
  BY <1>1 DEF OnCpu
<1>5. ASSUME NEW c \in Cpus
      PROVE  Charge(c)' = Charge(c) + (IF c \in DOMAIN cpus /\ ~Keeps(running[c])
                                         THEN 0 ELSE ts - now)
  <2>1. busy[c] \in Nat /\ idleHead[c] \in Nat
    BY DEF KernelTyped
  <2>2. /\ busy'[c] = busy[c] + (IF Keeps(running[c]) THEN ts - now ELSE 0)
        /\ idleHead'[c] = idleHead[c] + (IF c \in DOMAIN cpus \/ Keeps(running[c])
                                           THEN 0 ELSE ts - now)
    BY <1>1
  <2>3. CASE Keeps(running[c])
    BY <1>2, <2>1, <2>2, <2>3 DEF Charge
  <2>4. CASE ~Keeps(running[c])
    BY <1>2, <2>1, <2>2, <2>4 DEF Charge
  <2> QED BY <2>3, <2>4
<1> QED BY <1>3, <1>4, <1>5 DEF KernelTyped

\* The statistics of a thread, and of a CPU, are left alone while time passes.
LEMMA SameTid ==
    ASSUME ExactInv, conf.lossless, NEW ts \in Nat, now <= ts, now' = ts, begin' = begin,
           Elapse(ts), NEW t \in conf.tids \ {Swapper}, OnCpu(t)' <=> OnCpu(t),
           t \in DOMAIN tids' <=> t \in DOMAIN tids,
           t \in DOMAIN tids => /\ tids'[t].total = tids[t].total
                                /\ tids'[t].last = tids[t].last
    PROVE  TidExact(t)'
<1>1. /\ TidExact(t) /\ conf \in Confs /\ KernelTyped /\ now \in Nat /\ begin \in Nat
      /\ running \in [Cpus -> Tids] /\ t \in Tids
  BY ConfTyped DEF ExactInv, Exact, CputopInv, Clock
<1>2. ran'[t] = ran[t] + (IF OnCpu(t) THEN ts - now ELSE 0) /\ ran[t] \in Nat
  BY <1>1, ElapseKernel DEF KernelTyped
<1>3. t \in DOMAIN tids => tids[t].total \in Nat /\ tids[t].last \in Nat \cup {None}
  BY DEF ExactInv, CputopInv, TidsFit, TidStats
<1>4. CASE OnCpu(t)
  BY <1>1, <1>2, <1>3, <1>4 DEF TidExact
<1>5. CASE ~OnCpu(t)
  BY <1>1, <1>2, <1>3, <1>5 DEF TidExact
<1> QED BY <1>4, <1>5

LEMMA SameCpu ==
    ASSUME ExactInv, conf.lossless, NEW ts \in Nat, now <= ts, now' = ts, begin' = begin,
           Elapse(ts), conf' = conf, NEW c \in conf.cpus, running'[c] = running[c],
           c \in DOMAIN cpus' <=> c \in DOMAIN cpus,
           c \in DOMAIN cpus => cpus'[c] = cpus[c]
    PROVE  CpuExact(c)'
<1>1. /\ CpuExact(c) /\ conf \in Confs /\ KernelTyped /\ now \in Nat /\ begin \in Nat
      /\ running \in [Cpus -> Tids] /\ c \in Cpus
  BY ConfTyped DEF ExactInv, Exact, CputopInv, Clock
<1>2. /\ Charge(c)' = Charge(c) + (IF c \in DOMAIN cpus /\ ~Keeps(running[c])
                                     THEN 0 ELSE ts - now)
      /\ Charge(c) \in Nat
  BY <1>1, ElapseKernel DEF KernelTyped, Charge
<1>3. c \in DOMAIN cpus => cpus[c].total \in Nat /\ cpus[c].start \in Nat \cup {None}
  BY DEF ExactInv, CputopInv, CpusFit, CpuStats
<1>4. Keeps(running[c])' <=> Keeps(running[c])
  BY DEF Keeps
<1> HIDE DEF Charge
<1>5. CASE Keeps(running[c])
  BY <1>1, <1>2, <1>3, <1>4, <1>5 DEF CpuExact
<1>6. CASE ~Keeps(running[c])
  BY <1>1, <1>2, <1>3, <1>4, <1>6 DEF CpuExact
<1> QED BY <1>5, <1>6

\* What a switch writes of the threads.
LEMMA SwitchTidParts ==
    ASSUME Clock, TidsFit(tids, now), NEW ts \in Nat, NEW prev \in Tids, NEW next \in Tids,
           prev # next, NEW prio \in Prios
    PROVE  LET f == SwitchTid(ts, prev, next, prio) IN
           /\ DOMAIN f = DOMAIN tids \cup {prev} \cup {x \in {next} : Keeps(x)}
           /\ f[prev].last = None
           /\ prev \in DOMAIN tids =>
                f[prev].total = tids[prev].total + Since(tids[prev].last, ts)
           /\ prev \notin DOMAIN tids => f[prev].total = 0 + Since(begin, ts)
           /\ Keeps(next) => f[next].last = ts
           /\ Keeps(next) /\ next \in DOMAIN tids => f[next].total = tids[next].total
           /\ Keeps(next) /\ next \notin DOMAIN tids => f[next].total = 0
           /\ \A t \in DOMAIN tids \ {prev} : (t # next \/ ~Keeps(next)) => f[t] = tids[t]
<1> DEFINE seen == Ensure(tids, prev, NewTid(begin, None))
           v == [total |-> seen[prev].total + Since(seen[prev].last, ts), last |-> None,
                 prio |-> seen[prev].prio]
           g == Charged(ts, prev)
<1>1. /\ DOMAIN seen = DOMAIN tids \cup {prev}
      /\ \A t \in DOMAIN tids : seen[t] = tids[t]
      /\ prev \notin DOMAIN tids => seen[prev] = NewTid(begin, None)
  <2>1. CASE prev \in DOMAIN tids
    BY <2>1 DEF Ensure
  <2>2. CASE prev \notin DOMAIN tids
    BY <2>2 DEF Ensure, Put
  <2> QED BY <2>1, <2>2
<1>2. NewTid(begin, None).total = 0 /\ NewTid(begin, None).last = begin
  BY DEF NewTid
<1>3. g = [seen EXCEPT ![prev] = v]
  BY DEF Charged
<1>4. /\ v.last = None
      /\ v.total = IF prev \in DOMAIN tids THEN tids[prev].total + Since(tids[prev].last, ts)
                                           ELSE 0 + Since(begin, ts)
  <2>1. v.total = seen[prev].total + Since(seen[prev].last, ts) /\ v.last = None
    OBVIOUS
  <2> HIDE DEF seen, v
  <2> QED BY <1>1, <1>2, <2>1
<1> HIDE DEF seen, v, g
<1>5. /\ DOMAIN g = DOMAIN tids \cup {prev} /\ g[prev] = v
      /\ \A t \in DOMAIN tids \ {prev} : g[t] = tids[t]
  BY <1>1, <1>3
<1>6. CASE ~Keeps(next)
  BY <1>4, <1>5, <1>6 DEF SwitchTid, g
<1>7. CASE Keeps(next)
  <2> DEFINE h == Ensure(g, next, NewTid(None, prio))
             w == [h[next] EXCEPT !.last = ts]
  <2>1. /\ DOMAIN h = DOMAIN g \cup {next}
        /\ \A t \in DOMAIN g : h[t] = g[t]
        /\ next \notin DOMAIN g => h[next] = NewTid(None, prio)
    <3>1. CASE next \in DOMAIN g
      BY <3>1 DEF Ensure
    <3>2. CASE next \notin DOMAIN g
      BY <3>2 DEF Ensure, Put
    <3> QED BY <3>1, <3>2
  <2>2. NewTid(None, prio) \in TidStats(Prios) /\ NewTid(None, prio).total = 0
    BY DEF NewTid, TidStats
  <2>3. h[next] \in TidStats(Prios)
        /\ h[next].total = IF next \in DOMAIN tids THEN tids[next].total ELSE 0
    <3>1. CASE next \in DOMAIN tids
      BY <1>5, <2>1, <3>1 DEF TidsFit
    <3>2. CASE next \notin DOMAIN tids
      BY <1>5, <2>1, <2>2, <3>2
    <3> QED BY <3>1, <3>2
  <2>4. w.last = ts /\ w.total = h[next].total
    BY <2>3 DEF TidStats
  <2>5. SwitchTid(ts, prev, next, prio) = [h EXCEPT ![next] = w]
    BY <1>7 DEF SwitchTid, g
  <2> HIDE DEF h, w
  <2> DEFINE f == SwitchTid(ts, prev, next, prio)
  <2>6. DOMAIN f = DOMAIN h /\ f[next] = w /\ \A t \in DOMAIN h \ {next} : f[t] = h[t]
    BY <2>1, <2>5
  <2> HIDE DEF f
  <2>7. /\ DOMAIN f = DOMAIN tids \cup {prev} \cup {next}
        /\ f[prev] = v
        /\ f[next].last = ts
        /\ f[next].total = IF next \in DOMAIN tids THEN tids[next].total ELSE 0
        /\ \A t \in DOMAIN tids \ {prev} : t # next => f[t] = tids[t]
    BY <1>5, <2>1, <2>3, <2>4, <2>6
  <2> QED BY <1>4, <1>7, <2>7 DEF f
<1> QED BY <1>6, <1>7

\* What a switch writes of the CPUs.
LEMMA SwitchCpuParts ==
    ASSUME NEW ts \in Nat, NEW c \in Cpus, NEW next \in Tids
    PROVE  LET f == SwitchCpu(ts, c, next) IN
           /\ DOMAIN f = DOMAIN cpus \cup {c}
           /\ f[c].start = IF Keeps(next) THEN ts ELSE None
           /\ f[c].total = IF c \in DOMAIN cpus THEN cpus[c].total + Since(cpus[c].start, ts)
                                                ELSE 0 + Since(begin, ts)
           /\ \A d \in DOMAIN cpus \ {c} : f[d] = cpus[d]
<1> DEFINE seen == Ensure(cpus, c, NewCpu)
           v == [total |-> seen[c].total + Since(seen[c].start, ts),
                 start |-> IF Keeps(next) THEN ts ELSE None]
<1>1. /\ DOMAIN seen = DOMAIN cpus \cup {c}
      /\ \A d \in DOMAIN cpus : seen[d] = cpus[d]
      /\ c \notin DOMAIN cpus => seen[c] = NewCpu
  <2>1. CASE c \in DOMAIN cpus
    BY <2>1 DEF Ensure
  <2>2. CASE c \notin DOMAIN cpus
    BY <2>2 DEF Ensure, Put
  <2> QED BY <2>1, <2>2
<1>2. NewCpu.total = 0 /\ NewCpu.start = begin
  BY DEF NewCpu
<1>3. SwitchCpu(ts, c, next) = [seen EXCEPT ![c] = v]
  BY DEF SwitchCpu
<1>4. /\ v.start = IF Keeps(next) THEN ts ELSE None
      /\ v.total = IF c \in DOMAIN cpus THEN cpus[c].total + Since(cpus[c].start, ts)
                                        ELSE 0 + Since(begin, ts)
  <2>1. /\ v.total = seen[c].total + Since(seen[c].start, ts)
        /\ v.start = IF Keeps(next) THEN ts ELSE None
    OBVIOUS
  <2> HIDE DEF seen, v
  <2> QED BY <1>1, <1>2, <2>1
<1> HIDE DEF seen, v
<1> QED BY <1>1, <1>3, <1>4

\* A switch on a kept CPU: the previous thread stops, the next one runs.
LEMMA SwitchTidExact ==
    ASSUME ExactInv, conf.lossless, NEW ts \in Nat, NEW c \in conf.cpus,
           NEW prev \in Tids, NEW next \in Tids,
           now <= ts, now' = ts, begin' = begin, conf' = conf, Elapse(ts), prev # next,
           prev = running[c], \A d \in Cpus \ {c} : running[d] # next \/ next = Swapper,
           running' = [running EXCEPT ![c] = next],
           tids' = SwitchTid(ts, prev, next, 20),
           NEW t \in conf.tids \ {Swapper}
    PROVE  TidExact(t)'
<1>1. /\ TidExact(t) /\ conf \in Confs /\ KernelTyped /\ Apart
      /\ now \in Nat /\ begin \in Nat /\ begin <= now /\ Clock /\ TidsFit(tids, now)
      /\ running \in [Cpus -> Tids] /\ t \in Tids /\ conf.cpus \subseteq Cpus
      /\ None \notin Nat
  BY ConfTyped, CputopAssumption DEF ExactInv, Exact, CputopInv, Clock
<1>2. ran'[t] = ran[t] + (IF OnCpu(t) THEN ts - now ELSE 0) /\ ran[t] \in Nat
  BY <1>1, ElapseKernel DEF KernelTyped
<1>3. t \in DOMAIN tids => tids[t].total \in Nat /\ tids[t].last \in Nat \cup {None}
  BY <1>1 DEF TidsFit, TidStats
<1>4. 20 \in Prios
  BY DEF Prios
<1>5. /\ DOMAIN tids' = DOMAIN tids \cup {prev} \cup {x \in {next} : Keeps(x)}
      /\ tids'[prev].last = None
      /\ prev \in DOMAIN tids =>
           tids'[prev].total = tids[prev].total + Since(tids[prev].last, ts)
      /\ prev \notin DOMAIN tids => tids'[prev].total = 0 + Since(begin, ts)
      /\ Keeps(next) => tids'[next].last = ts
      /\ Keeps(next) /\ next \in DOMAIN tids => tids'[next].total = tids[next].total
      /\ Keeps(next) /\ next \notin DOMAIN tids => tids'[next].total = 0
      /\ \A x \in DOMAIN tids \ {prev} : (x # next \/ ~Keeps(next)) => tids'[x] = tids[x]
  <2> DEFINE f == SwitchTid(ts, prev, next, 20)
  <2>1. /\ DOMAIN f = DOMAIN tids \cup {prev} \cup {x \in {next} : Keeps(x)}
        /\ f[prev].last = None
        /\ prev \in DOMAIN tids =>
             f[prev].total = tids[prev].total + Since(tids[prev].last, ts)
        /\ prev \notin DOMAIN tids => f[prev].total = 0 + Since(begin, ts)
        /\ Keeps(next) => f[next].last = ts
        /\ Keeps(next) /\ next \in DOMAIN tids => f[next].total = tids[next].total
        /\ Keeps(next) /\ next \notin DOMAIN tids => f[next].total = 0
        /\ \A x \in DOMAIN tids \ {prev} : (x # next \/ ~Keeps(next)) => f[x] = tids[x]
    BY <1>1, <1>4, SwitchTidParts
  <2>2. tids' = f
    OBVIOUS
  <2> HIDE DEF f
  <2> QED BY <2>1, <2>2
<1>6. OnCpu(t)' <=> \E d \in conf.cpus : (IF d = c THEN next ELSE running[d]) = t
  BY <1>1 DEF OnCpu
<1>7. CASE t = prev
  <2>1. OnCpu(t) /\ ~OnCpu(t)'
    BY <1>1, <1>6, <1>7 DEF OnCpu, Apart
  <2>2. CASE t \in DOMAIN tids
    <3>1. tids[t].last # None /\ tids[t].total + (now - tids[t].last) = ran[t]
      BY <1>1, <2>1, <2>2 DEF TidExact
    <3>2. tids'[t].total = tids[t].total + (ts - tids[t].last)
      BY <1>5, <1>7, <2>2, <3>1 DEF Since
    <3> QED BY <1>1, <1>2, <1>3, <1>5, <1>7, <2>1, <2>2, <3>1, <3>2 DEF TidExact
  <2>3. CASE t \notin DOMAIN tids
    <3>1. ran[t] = now - begin
      BY <1>1, <2>1, <2>3 DEF TidExact
    <3>2. tids'[t].total = 0 + (ts - begin)
      BY <1>1, <1>5, <1>7, <2>3 DEF Since
    <3> QED BY <1>1, <1>2, <1>5, <1>7, <2>1, <3>1, <3>2 DEF TidExact
  <2> QED BY <2>2, <2>3
<1>8. CASE t = next
  <2>1. Keeps(t) /\ t # prev
    BY <1>8 DEF Keeps
  <2>2. ~OnCpu(t) /\ OnCpu(t)'
    BY <1>1, <1>6, <1>8 DEF OnCpu
  <2>3. t \in DOMAIN tids' /\ tids'[t].last = ts
        /\ tids'[t].total = IF t \in DOMAIN tids THEN tids[t].total ELSE 0
    BY <1>5, <1>8, <2>1
  <2>4. tids'[t].total = ran[t]
    BY <1>1, <2>2, <2>3 DEF TidExact
  <2> QED BY <1>1, <1>2, <2>2, <2>3, <2>4 DEF TidExact
<1>9. CASE t # prev /\ t # next
  <2>1. OnCpu(t)' <=> OnCpu(t)
    BY <1>1, <1>6, <1>9 DEF OnCpu
  <2>2. t \in DOMAIN tids' <=> t \in DOMAIN tids
    BY <1>5, <1>9
  <2>3. t \in DOMAIN tids => tids'[t] = tids[t]
    BY <1>5, <1>9
  <2> QED BY <2>1, <2>2, <2>3, SameTid
<1> QED BY <1>7, <1>8, <1>9

LEMMA SwitchCpuExact ==
    ASSUME ExactInv, conf.lossless, NEW ts \in Nat, NEW c \in conf.cpus,
           NEW prev \in Tids, NEW next \in Tids,
           now <= ts, now' = ts, begin' = begin, conf' = conf, Elapse(ts),
           prev = running[c], running' = [running EXCEPT ![c] = next],
           cpus' = SwitchCpu(ts, c, next),
           NEW e \in conf.cpus
    PROVE  CpuExact(e)'
<1>1. /\ CpuExact(e) /\ conf \in Confs /\ KernelTyped
      /\ now \in Nat /\ begin \in Nat /\ begin <= now /\ CpusFit(cpus, now)
      /\ running \in [Cpus -> Tids] /\ e \in Cpus /\ c \in Cpus /\ None \notin Nat
  BY ConfTyped, CputopAssumption DEF ExactInv, Exact, CputopInv, Clock
<1>2. /\ Charge(e)' = Charge(e) + (IF e \in DOMAIN cpus /\ ~Keeps(running[e])
                                     THEN 0 ELSE ts - now)
      /\ Charge(e) \in Nat
  BY <1>1, ElapseKernel DEF KernelTyped, Charge
<1>3. e \in DOMAIN cpus => cpus[e].total \in Nat /\ cpus[e].start \in Nat \cup {None}
  BY <1>1 DEF CpusFit, CpuStats
<1>4. /\ DOMAIN cpus' = DOMAIN cpus \cup {c}
      /\ cpus'[c].start = IF Keeps(next) THEN ts ELSE None
      /\ cpus'[c].total = IF c \in DOMAIN cpus THEN cpus[c].total + Since(cpus[c].start, ts)
                                               ELSE 0 + Since(begin, ts)
      /\ \A d \in DOMAIN cpus \ {c} : cpus'[d] = cpus[d]
  <2> DEFINE f == SwitchCpu(ts, c, next)
  <2>1. /\ DOMAIN f = DOMAIN cpus \cup {c}
        /\ f[c].start = IF Keeps(next) THEN ts ELSE None
        /\ f[c].total = IF c \in DOMAIN cpus THEN cpus[c].total + Since(cpus[c].start, ts)
                                             ELSE 0 + Since(begin, ts)
        /\ \A d \in DOMAIN cpus \ {c} : f[d] = cpus[d]
    BY <1>1, SwitchCpuParts
  <2>2. cpus' = f
    OBVIOUS
  <2> HIDE DEF f
  <2> QED BY <2>1, <2>2
<1> HIDE DEF Charge
<1>5. CASE e = c
  <2>1. running'[e] = next /\ (Keeps(running[e])' <=> Keeps(next))
    <3>1. running'[e] = next
      BY <1>1, <1>5
    <3> QED BY <3>1 DEF Keeps
  <2>2. cpus'[e].total = Charge(e)'
    <3>1. CASE e \notin DOMAIN cpus
      BY <1>1, <1>2, <1>4, <1>5, <3>1 DEF CpuExact, Since
    <3>2. CASE e \in DOMAIN cpus /\ Keeps(running[e])
      BY <1>1, <1>2, <1>3, <1>4, <1>5, <3>2 DEF CpuExact, Since
    <3>3. CASE e \in DOMAIN cpus /\ ~Keeps(running[e])
      BY <1>1, <1>2, <1>3, <1>4, <1>5, <3>3 DEF CpuExact, Since
    <3> QED BY <3>1, <3>2, <3>3
  <2>3. Charge(e)' \in Nat
    BY <1>1, <1>2
  <2>4. CASE Keeps(next)
    <3>1. cpus'[e].start = ts /\ e \in DOMAIN cpus'
      BY <1>4, <1>5, <2>4
    <3> QED BY <1>1, <2>1, <2>2, <2>3, <2>4, <3>1 DEF CpuExact
  <2>5. CASE ~Keeps(next)
    <3>1. cpus'[e].start = None /\ e \in DOMAIN cpus'
      BY <1>4, <1>5, <2>5
    <3> QED BY <2>1, <2>2, <2>5, <3>1 DEF CpuExact
  <2> QED BY <2>4, <2>5
<1>6. CASE e # c
  <2>1. running'[e] = running[e]
    BY <1>1, <1>6
  <2>2. (e \in DOMAIN cpus' <=> e \in DOMAIN cpus) /\ (e \in DOMAIN cpus => cpus'[e] = cpus[e])
    BY <1>4, <1>6
  <2> QED BY <2>1, <2>2, SameCpu
<1> QED BY <1>5, <1>6

\* Whatever the step, time only passes for the rest.
LEMMA KernelNext ==
    ASSUME ExactInv, conf.lossless, NEW ts \in Nat, now <= ts, Elapse(ts)
    PROVE  KernelTyped'
BY ElapseKernel DEF ExactInv, Exact, CputopInv, Clock

LEMMA SwitchExact ==
    ASSUME ExactInv, conf.lossless, NEW ts \in 0 .. MaxTs, NEW c \in Cpus,
           NEW prev \in Tids, NEW next \in Tids, Switch(ts, c, prev, next, 20)
    PROVE  Exact'
<1>1. /\ ts \in Nat /\ now <= ts /\ now' = ts /\ begin' = begin /\ conf' = conf
      /\ Elapse(ts) /\ prev # next /\ prev = running[c]
      /\ \A d \in Cpus \ {c} : running[d] # next \/ next = Swapper
      /\ running' = [running EXCEPT ![c] = next]
  BY AtClock DEF Switch, At, ExactInv
<1>2. /\ Apart /\ running \in [Cpus -> Tids] /\ DOMAIN cpus \subseteq conf.cpus
      /\ conf \in Confs
  BY DEF ExactInv, Exact, CputopInv
<1>3. KernelTyped'
  BY <1>1, KernelNext
<1>4. Apart'
  BY <1>1, <1>2 DEF Apart
<1>5. CASE c \in conf.cpus
  <2>1. cpus' = SwitchCpu(ts, c, next) /\ tids' = SwitchTid(ts, prev, next, 20)
    BY <1>5 DEF Switch
  <2>2. ASSUME NEW t \in conf.tids \ {Swapper} PROVE TidExact(t)'
    BY <1>1, <1>5, <2>1, SwitchTidExact
  <2>3. ASSUME NEW e \in conf.cpus PROVE CpuExact(e)'
    BY <1>1, <1>5, <2>1, SwitchCpuExact
  <2>4. DOMAIN cpus' \subseteq conf.cpus
    <3> DEFINE f == SwitchCpu(ts, c, next)
    <3>1. DOMAIN f = DOMAIN cpus \cup {c}
      BY <1>1, SwitchCpuParts
    <3>2. cpus' = f
      BY <2>1
    <3> HIDE DEF f
    <3> QED BY <1>2, <1>5, <3>1, <3>2
  <2> QED BY <1>1, <1>3, <1>4, <2>2, <2>3, <2>4 DEF Exact
<1>6. CASE c \notin conf.cpus
  <2>1. cpus' = cpus /\ tids' = tids
    BY <1>6 DEF Switch, statVars
  <2>2. \A d \in conf.cpus : running'[d] = running[d]
    BY <1>1, <1>2, <1>6, ConfTyped
  <2>3. ASSUME NEW t \in conf.tids \ {Swapper} PROVE TidExact(t)'
    <3>1. OnCpu(t)' <=> OnCpu(t)
      BY <1>1, <2>2 DEF OnCpu
    <3> QED BY <1>1, <2>1, <3>1, SameTid
  <2>4. ASSUME NEW e \in conf.cpus PROVE CpuExact(e)'
    BY <1>1, <2>1, <2>2, SameCpu
  <2> QED BY <1>1, <1>2, <1>3, <1>4, <2>1, <2>3, <2>4 DEF Exact
<1> QED BY <1>5, <1>6

\* The events that change no running thread.
LEMMA OtherExact ==
    ASSUME ExactInv, conf.lossless, NEW ts \in 0 .. MaxTs, At(ts), Elapse(ts),
           UNCHANGED <<begin, cpus, running>>,
           \A t \in conf.tids \ {Swapper} :
             \/ /\ t \in DOMAIN tids' <=> t \in DOMAIN tids
                /\ t \in DOMAIN tids => tids'[t].total = tids[t].total
                                        /\ tids'[t].last = tids[t].last
             \/ /\ t \notin DOMAIN tids /\ ~OnCpu(t)
                /\ t \in DOMAIN tids' /\ tids'[t].total = 0 /\ tids'[t].last = None
    PROVE  Exact'
<1>1. ts \in Nat /\ now <= ts /\ now' = ts /\ begin' = begin /\ conf' = conf
  BY AtClock DEF At, ExactInv
<1>2. KernelTyped'
  BY <1>1, KernelNext
<1>3. /\ Apart /\ DOMAIN cpus \subseteq conf.cpus /\ conf \in Confs /\ KernelTyped
      /\ running \in [Cpus -> Tids] /\ now \in Nat
  BY DEF ExactInv, Exact, CputopInv, Clock
<1>4. Apart'
  BY <1>3 DEF Apart
<1>5. ASSUME NEW e \in conf.cpus PROVE CpuExact(e)'
  BY <1>1, SameCpu
<1>6. ASSUME NEW t \in conf.tids \ {Swapper} PROVE TidExact(t)'
  <2>1. OnCpu(t)' <=> OnCpu(t)
    BY <1>1 DEF OnCpu
  <2>2. CASE /\ t \in DOMAIN tids' <=> t \in DOMAIN tids
             /\ t \in DOMAIN tids => tids'[t].total = tids[t].total
                                     /\ tids'[t].last = tids[t].last
    BY <1>1, <2>1, <2>2, SameTid
  <2>3. CASE /\ t \notin DOMAIN tids /\ ~OnCpu(t)
             /\ t \in DOMAIN tids' /\ tids'[t].total = 0 /\ tids'[t].last = None
    <3>1. ran[t] = 0 /\ t \in Tids
      BY <1>3, <2>3, ConfTyped DEF ExactInv, Exact, TidExact
    <3>2. ran'[t] = 0
      BY <1>1, <1>3, <2>3, <3>1, ElapseKernel
    <3> QED BY <2>1, <2>3, <3>2 DEF TidExact
  <2> QED BY <2>2, <2>3
<1> QED BY <1>1, <1>2, <1>3, <1>4, <1>5, <1>6 DEF Exact

LEMMA ExactNext == ExactInv /\ [CputopNext]_cputopVars => ExactInv'
<1> SUFFICES ASSUME ExactInv, [CputopNext]_cputopVars PROVE ExactInv'
  OBVIOUS
<1>1. CputopInv'
  BY NextInv DEF ExactInv
<1>2. conf' = conf
  BY DEF CputopNext, cputopVars, FirstEvent, FirstEventPastEnd, Switch, Migrate,
         PrioChanged, NextPeriod, Finish, At
<1> SUFFICES ASSUME conf.lossless PROVE Exact'
  BY <1>1, <1>2 DEF ExactInv
<1>3. /\ conf \in Confs /\ Clock /\ running \in [Cpus -> Tids] /\ Exact
      /\ TidsFit(tids, now)
  BY DEF ExactInv, CputopInv
<1>4. CASE FirstEvent \/ FirstEventPastEnd \/ Finish \/ UNCHANGED cputopVars
  <2>1. UNCHANGED <<now, begin, cpus, tids, running, ran, busy, idleHead>>
    BY <1>4 DEF FirstEvent, FirstEventPastEnd, Finish, cputopVars, statVars, kernelVars
  <2> QED BY <1>2, <1>3, <2>1
          DEF Exact, KernelTyped, Apart, TidExact, CpuExact, Charge, OnCpu, Keeps
<1>5. ASSUME NEW ts \in 0 .. MaxTs, NEW c \in Cpus, NEW prev \in Tids, NEW next \in Tids,
             Switch(ts, c, prev, next, 20)
      PROVE  Exact'
  BY <1>5, SwitchExact
<1>6. ASSUME NEW ts \in 0 .. MaxTs, NEW c \in Cpus, NEW t \in Tids \ {Swapper},
             Migrate(ts, c, t)
      PROVE  Exact'
  <2>1. /\ At(ts) /\ Elapse(ts) /\ UNCHANGED <<begin, cpus, running>>
        /\ \A d \in Cpus : running[d] # t
        /\ tids' = IF Keeps(t) /\ c \in conf.cpus THEN Ensure(tids, t, NewTid(None, None))
                                                  ELSE tids
    BY <1>6 DEF Migrate
  <2>2. ~OnCpu(t)
    BY <1>3, <2>1, ConfTyped DEF OnCpu
  <2>3. NewTid(None, None).total = 0 /\ NewTid(None, None).last = None
    BY DEF NewTid
  <2>4. CASE tids' = tids
    BY <2>1, <2>4, OtherExact
  <2>5. CASE t \notin DOMAIN tids /\ tids' = Put(tids, t, NewTid(None, None))
    <3>1. /\ DOMAIN tids' = DOMAIN tids \cup {t} /\ tids'[t] = NewTid(None, None)
          /\ \A x \in DOMAIN tids : tids'[x] = tids[x]
      BY <2>5 DEF Put
    <3> QED BY <2>1, <2>2, <2>3, <2>5, <3>1, OtherExact
  <2> QED BY <2>1, <2>4, <2>5 DEF Ensure
<1>7. ASSUME NEW ts \in 0 .. MaxTs, NEW t \in Tids \ {Swapper}, PrioChanged(ts, t, 10)
      PROVE  Exact'
  <2>1. At(ts) /\ Elapse(ts) /\ UNCHANGED <<begin, cpus, running>>
    BY <1>7 DEF PrioChanged
  <2>2. CASE t \notin DOMAIN tids
    <3>1. tids' = tids
      BY <1>7, <2>2 DEF PrioChanged
    <3> QED BY <2>1, <3>1, OtherExact
  <2>3. CASE t \in DOMAIN tids
    <3> DEFINE v == [tids[t] EXCEPT !.prio = 10]
    <3>1. tids' = [tids EXCEPT ![t] = v]
      BY <1>7, <2>3 DEF PrioChanged
    <3>2. v.total = tids[t].total /\ v.last = tids[t].last
      BY <1>3, <2>3 DEF TidsFit, TidStats
    <3> HIDE DEF v
    <3>3. /\ DOMAIN tids' = DOMAIN tids
          /\ \A x \in DOMAIN tids : tids'[x].total = tids[x].total /\ tids'[x].last = tids[x].last
      BY <3>1, <3>2
    <3> QED BY <2>1, <3>3, OtherExact
  <2> QED BY <2>2, <2>3
<1>8. ASSUME NEW ts \in 0 .. MaxTs, NextPeriod(ts) PROVE Exact'
  <2>1. /\ now' = ts /\ begin' = ts /\ ts \in Nat /\ running' = running
        /\ DOMAIN cpus' = {} /\ DOMAIN tids' = {}
        /\ ran' = [t \in Tids |-> 0] /\ busy' = [c \in Cpus |-> 0]
        /\ idleHead' = [c \in Cpus |-> 0]
    BY <1>8, CputopAssumption DEF NextPeriod, At
  <2>2. KernelTyped' /\ Apart'
    BY <1>3, <2>1 DEF KernelTyped, Exact, Apart
  <2>3. ASSUME NEW t \in conf.tids \ {Swapper} PROVE TidExact(t)'
    <3>1. ran'[t] = 0 /\ t \notin DOMAIN tids' /\ now' - begin' = 0
      BY <1>3, <2>1, ConfTyped
    <3> QED BY <3>1 DEF TidExact
  <2>4. ASSUME NEW c \in conf.cpus PROVE CpuExact(c)'
    BY <1>3, <2>1, ConfTyped DEF CpuExact, Charge
  <2> QED BY <1>2, <2>1, <2>2, <2>3, <2>4 DEF Exact
<1> QED BY <1>4, <1>5, <1>6, <1>7, <1>8 DEF CputopNext

LEMMA ExactInvariant == CputopSpec => []ExactInv
BY ExactInit, ExactNext, PTL DEF CputopSpec

\* With a complete trace each thread that is kept is charged what it ran,
\* across periods, migrations and the CPUs that are filtered out
\* (core/cputop.py:106-142).
THEOREM CputopTidsExact == CputopSpec => []TidUsageIsExact
<1>1. ExactInv => TidUsageIsExact
  <2> SUFFICES ASSUME ExactInv, conf.lossless, NEW t \in conf.tids \ {Swapper}
               PROVE  IF t \in DOMAIN tids THEN TidUsage(t) = ran[t]
                      ELSE ran[t] > 0 => \E c \in conf.cpus : running[c] = t
    BY DEF TidUsageIsExact
  <2>1. TidExact(t) /\ ran[t] \in Nat
    BY ConfTyped DEF ExactInv, Exact, KernelTyped
  <2>2. CASE t \in DOMAIN tids
    BY <2>1, <2>2 DEF TidExact, TidUsage, Since
  <2>3. CASE t \notin DOMAIN tids
    BY <2>1, <2>3 DEF TidExact, OnCpu
  <2> QED BY <2>2, <2>3
<1> QED BY <1>1, ExactInvariant, PTL

\* ... and each CPU what it was busy, with the time before its first switch
\* of the period (core/cputop.py:88-104).
THEOREM CputopCpusExact == CputopSpec => []CpuUsageIsBusyPlusHead
<1>1. ExactInv => CpuUsageIsBusyPlusHead
  <2> SUFFICES ASSUME ExactInv, conf.lossless, NEW c \in DOMAIN cpus
               PROVE  CpuUsage(c) = busy[c] + idleHead[c]
    BY DEF CpuUsageIsBusyPlusHead
  <2>1. CpuExact(c)
    BY DEF ExactInv, Exact
  <2>2. cpus[c].total \in Nat
    BY DEF ExactInv, CputopInv, CpusFit, CpuStats
  <2> QED BY <2>1, <2>2 DEF CpuExact, CpuUsage, Since, Charge
<1> QED BY <1>1, ExactInvariant, PTL
=============================================================================

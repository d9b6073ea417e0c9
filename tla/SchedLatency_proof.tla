------------------------- MODULE SchedLatency_proof -------------------------
(***************************************************************************)
(* Proofs about the scheduling state, and about the scheduling latency     *)
(* analysis over it, for any threads, CPUs, priorities, tracer versions,   *)
(* filters and traces.                                                     *)
(*                                                                         *)
(* The inductive invariant of the state has two parts.  Threads(f, ts, K): *)
(* the Process objects f are well typed, their pids and wakers are known   *)
(* (or in K, the threads about to be created), and their pending wakeups   *)
(* are not after ts, are not the swapper's and come from another thread.   *)
(* Current(k, f): the thread that each CPU of k executes is in f, without  *)
(* a wakeup pending.  Each handler is a composition of writes to f; a      *)
(* write W(f) that keeps Threads also keeps Current because it is Calm: it *)
(* gives no thread a wakeup.                                               *)
(*                                                                         *)
(* The theorems of the state hold when the analysis listens to it, since   *)
(* its steps are events of SchedState or leave the state alone.  For the   *)
(* latencies, LogInv adds what links the list to the state: a pending      *)
(* wakeup is not before the last switch that was logged for its thread.    *)
(***************************************************************************)
EXTENDS SchedLatency, TLAPS

\* What is true of each Process object p of thread t.
ProcessOK(f, K, ts, t) ==
    /\ f[t] \in Processes
    /\ f[t].pid # None => f[t].pid \in DOMAIN f \cup K
    /\ f[t].lastWakeup # None => f[t].lastWakeup <= ts /\ t # Swapper
    /\ f[t].lastWaker # None =>
          /\ f[t].lastWakeup # None
          /\ f[t].lastWaker \in DOMAIN f
          /\ f[t].lastWaker # t

Threads(f, K, ts) ==
    /\ f \in [DOMAIN f -> Processes]
    /\ DOMAIN f \subseteq Tids
    /\ \A t \in DOMAIN f : ProcessOK(f, K, ts, t)

Current(k, f) ==
    /\ k \in [DOMAIN k -> (Tids \ {Swapper}) \cup {None}]
    /\ DOMAIN k \subseteq Cpus
    /\ \A c \in DOMAIN k :
         k[c] # None => k[c] \in DOMAIN f /\ f[k[c]].lastWakeup = None

\* From f to g, only the threads of R may lose their wakeup; none gets one.
Calm(f, g, R) ==
    /\ DOMAIN f \subseteq DOMAIN g
    /\ \A t \in DOMAIN f :
         g[t].lastWakeup # f[t].lastWakeup => t \in R /\ g[t].lastWakeup = None
    /\ \A t \in DOMAIN g \ DOMAIN f : g[t].lastWakeup = None

\* The inductive invariant.
SchedInv ==
    /\ now \in Nat
    /\ version \in Versions
    /\ fault \in {"none", "KeyError", "AttributeError"}
    /\ Threads(tids, {}, now)
    /\ Current(cpus, tids)

-----------------------------------------------------------------------------
LEMMA Constants ==
    /\ None \notin Tids
    /\ None \notin Int
    /\ Swapper \in Tids
    /\ \A ts \in 0 .. MaxTs : ts \in Nat
    /\ \A p \in Prios : p \in Int
BY SwapperAssumption, NoneAssumption, MaxTsAssumption, PriosAssumption

\* A calm write keeps the CPUs' current threads without a wakeup.
LEMMA CalmCurrent ==
    ASSUME NEW k, NEW f, NEW g, NEW R, Current(k, f), Calm(f, g, R)
    PROVE  Current(k, g)
BY DEF Current, Calm

LEMMA CalmComposes ==
    ASSUME NEW f, NEW g, NEW h, NEW R, NEW S, Calm(f, g, R), Calm(g, h, S)
    PROVE  Calm(f, h, R \cup S)
BY DEF Calm

\* Time passes.
LEMMA ThreadsLater ==
    ASSUME NEW f, NEW K, NEW t \in Nat, NEW ts \in Nat, t <= ts,
           Threads(f, K, t)
    PROVE  Threads(f, K, ts)
BY Constants DEF Threads, ProcessOK, Processes

\* A new Process object, which may take the place of another.
LEMMA PutThreads ==
    ASSUME NEW f, NEW K, NEW ts \in Nat, Threads(f, K, ts),
           NEW t \in Tids, NEW pid \in DOMAIN f \cup {t, None},
           NEW prio \in Int \cup {None}
    PROVE  /\ Threads(Put(f, t, Process(pid, prio)), K \ {t}, ts)
           /\ Calm(f, Put(f, t, Process(pid, prio)), {t})
           /\ t \in DOMAIN Put(f, t, Process(pid, prio))
<1> DEFINE p == Process(pid, prio)
           g == Put(f, t, p)
<1>1. /\ p \in Processes /\ p.pid = pid
      /\ p.lastWakeup = None /\ p.lastWaker = None
  BY DEF Process, Processes, Threads
<1>2. /\ DOMAIN g = DOMAIN f \cup {t}
      /\ g[t] = p
      /\ \A x \in DOMAIN f : x # t => g[x] = f[x]
      /\ g = [x \in DOMAIN g |-> g[x]]
  BY DEF Put
<1> HIDE DEF p, g
<1>3. ASSUME NEW x \in DOMAIN g PROVE ProcessOK(g, K \ {t}, ts, x)
  <2>1. CASE x = t
    BY <1>1, <1>2, <2>1 DEF ProcessOK
  <2>2. CASE x # t
    <3>1. x \in DOMAIN f /\ ProcessOK(f, K, ts, x) /\ g[x] = f[x]
      BY <1>2, <1>3, <2>2 DEF Threads
    <3> QED BY <1>2, <3>1 DEF ProcessOK
  <2> QED BY <2>1, <2>2
<1>4. g \in [DOMAIN g -> Processes]
  BY <1>2, <1>3 DEF ProcessOK
<1>5. Threads(g, K \ {t}, ts)
  BY <1>2, <1>3, <1>4 DEF Threads
<1>6. Calm(f, g, {t})
  BY <1>1, <1>2 DEF Calm
<1> QED BY <1>2, <1>5, <1>6 DEF g, p

LEMMA EnsureThreads ==
    ASSUME NEW f, NEW ts \in Nat, NEW K, Threads(f, K, ts),
           NEW t \in Tids, NEW pid \in DOMAIN f \cup {t, None},
           NEW prio \in Int \cup {None}
    PROVE  /\ Threads(Ensure(f, t, Process(pid, prio)), K \ {t}, ts)
           /\ Calm(f, Ensure(f, t, Process(pid, prio)), {})
           /\ t \in DOMAIN Ensure(f, t, Process(pid, prio))
<1>1. CASE t \in DOMAIN f
  <2>1. Ensure(f, t, Process(pid, prio)) = f
    BY <1>1 DEF Ensure
  <2>2. Threads(f, K \ {t}, ts)
    BY <1>1 DEF Threads, ProcessOK
  <2> QED BY <1>1, <2>1, <2>2 DEF Calm
<1>2. CASE t \notin DOMAIN f
  <2>1. Ensure(f, t, Process(pid, prio)) = Put(f, t, Process(pid, prio))
    BY <1>2 DEF Ensure
  <2> DEFINE g == Put(f, t, Process(pid, prio))
  <2>2. Threads(g, K \ {t}, ts) /\ Calm(f, g, {t}) /\ t \in DOMAIN g
    BY PutThreads
  <2> HIDE DEF g
  <2>3. Calm(f, g, {})
    BY <1>2, <2>2 DEF Calm
  <2> QED BY <2>1, <2>2, <2>3 DEF g
<1> QED BY <1>1, <1>2

\* A priority and a pid are written; the pid may be of a thread to create.
LEMMA WrittenThreads ==
    ASSUME NEW f, NEW K, NEW ts \in Nat, Threads(f, K, ts), NEW t \in DOMAIN f,
           NEW p \in Processes, p.pid # None => p.pid \in DOMAIN f \cup K,
           p.lastWakeup = f[t].lastWakeup, p.lastWaker = f[t].lastWaker,
           NEW g, g = [f EXCEPT ![t] = p]
    PROVE  Threads(g, K, ts) /\ Calm(f, g, {}) /\ DOMAIN g = DOMAIN f
<1>1. /\ g \in [DOMAIN f -> Processes]
      /\ DOMAIN g = DOMAIN f
      /\ g[t] = p
      /\ \A x \in DOMAIN f : x # t => g[x] = f[x]
  BY DEF Threads
<1>2. ASSUME NEW x \in DOMAIN f PROVE ProcessOK(g, K, ts, x)
  <2>1. ProcessOK(f, K, ts, x)
    BY DEF Threads
  <2> QED BY <1>1, <2>1 DEF ProcessOK
<1>3. Threads(g, K, ts)
  BY <1>1, <1>2 DEF Threads
<1>4. Calm(f, g, {})
  BY <1>1 DEF Calm
<1> QED BY <1>1, <1>3, <1>4

LEMMA SetPrioThreads ==
    ASSUME NEW f, NEW K, NEW ts \in Nat, Threads(f, K, ts),
           NEW t \in DOMAIN f \cup {Swapper}, NEW prio \in Int
    PROVE  Threads(SetPrio(f, t, prio), K, ts) /\ Calm(f, SetPrio(f, t, prio), {})
<1>1. CASE t = Swapper
  BY <1>1 DEF SetPrio, Calm
<1>2. CASE t # Swapper
  <2> DEFINE p == [f[t] EXCEPT !.prio = prio]
  <2>1. t \in DOMAIN f /\ ProcessOK(f, K, ts, t)
    BY <1>2 DEF Threads
  <2>2. /\ p \in Processes /\ p.pid = f[t].pid
        /\ p.lastWakeup = f[t].lastWakeup /\ p.lastWaker = f[t].lastWaker
    BY <2>1 DEF ProcessOK, Processes
  <2>3. SetPrio(f, t, prio) = [f EXCEPT ![t] = p]
    BY <1>2 DEF SetPrio
  <2>4. p.pid # None => p.pid \in DOMAIN f \cup K
    BY <2>1, <2>2 DEF ProcessOK
  <2> HIDE DEF p
  <2> QED BY <2>1, <2>2, <2>3, <2>4, WrittenThreads
<1> QED BY <1>1, <1>2

LEMMA CreateProcThreads ==
    ASSUME NEW f, NEW ts \in Nat, Threads(f, {}, ts), NEW t \in Tids
    PROVE  /\ Threads(CreateProc(f, t), {}, ts)
           /\ Calm(f, CreateProc(f, t), {})
           /\ t \in DOMAIN CreateProc(f, t)
<1> DEFINE pid == IF t = Swapper THEN Swapper ELSE None
<1>1. pid \in DOMAIN f \cup {t, None}
  OBVIOUS
<1>2. {} \ {t} = {}
  OBVIOUS
<1>3. CreateProc(f, t) = Ensure(f, t, Process(pid, None))
  BY DEF CreateProc
<1> HIDE DEF pid
<1> DEFINE g == Ensure(f, t, Process(pid, None))
<1>4. Threads(g, {} \ {t}, ts) /\ Calm(f, g, {}) /\ t \in DOMAIN g
  BY <1>1, EnsureThreads
<1> HIDE DEF g
<1> QED BY <1>2, <1>3, <1>4 DEF g

\* The wakeup of a thread is consumed.
LEMMA ConsumedThreads ==
    ASSUME NEW f, NEW ts \in Nat, Threads(f, {}, ts), NEW t \in DOMAIN f
    PROVE  /\ Threads(WakeupConsumed(f, t), {}, ts)
           /\ Calm(f, WakeupConsumed(f, t), {t})
           /\ WakeupConsumed(f, t)[t].lastWakeup = None
<1> DEFINE p == [f[t] EXCEPT !.lastWakeup = None, !.lastWaker = None]
           g == WakeupConsumed(f, t)
<1>1. ProcessOK(f, {}, ts, t)
  BY DEF Threads
<1>2. /\ p \in Processes /\ p.pid = f[t].pid
      /\ p.lastWakeup = None /\ p.lastWaker = None
  BY <1>1 DEF ProcessOK, Processes
<1>3. g = [f EXCEPT ![t] = p]
  BY DEF WakeupConsumed
<1> HIDE DEF p, g
<1>4. /\ g \in [DOMAIN f -> Processes]
      /\ DOMAIN g = DOMAIN f
      /\ g[t] = p
      /\ \A x \in DOMAIN f : x # t => g[x] = f[x]
  BY <1>2, <1>3 DEF Threads
<1>5. ASSUME NEW x \in DOMAIN f PROVE ProcessOK(g, {}, ts, x)
  <2>1. ProcessOK(f, {}, ts, x)
    BY DEF Threads
  <2> QED BY <1>1, <1>2, <1>4, <2>1 DEF ProcessOK
<1>6. Threads(g, {}, ts)
  BY <1>4, <1>5 DEF Threads
<1>7. Calm(f, g, {t})
  BY <1>2, <1>4 DEF Calm
<1> QED BY <1>2, <1>4, <1>6, <1>7 DEF g

\* A wakeup at ts by another thread, or by nobody, is recorded if it is the
\* first: no wakeup but that of t changes, and only from None to ts.
LEMMA FirstWakeupThreads ==
    ASSUME NEW f, NEW ts \in Nat, Threads(f, {}, ts),
           NEW t \in DOMAIN f \ {Swapper},
           NEW waker \in (DOMAIN f \ {t}) \cup {None}
    PROVE  LET g == FirstWakeup(f, t, ts, waker)
           IN  /\ Threads(g, {}, ts)
               /\ DOMAIN g = DOMAIN f
               /\ \A x \in DOMAIN f :
                    g[x].lastWakeup # f[x].lastWakeup =>
                       /\ x = t
                       /\ f[x].lastWakeup = None
                       /\ g[x].lastWakeup = ts
<1> DEFINE w == IF waker # None THEN waker ELSE f[t].lastWaker
           p == [f[t] EXCEPT !.lastWakeup = ts, !.lastWaker = w]
           g == FirstWakeup(f, t, ts, waker)
<1>1. f[t] \in Processes /\ ProcessOK(f, {}, ts, t)
  BY DEF Threads, ProcessOK
<1>2. CASE f[t].lastWakeup # None
  BY <1>2 DEF FirstWakeup
<1>3. CASE f[t].lastWakeup = None
  <2>1. w \in Tids \cup {None} /\ (w # None => w \in DOMAIN f /\ w # t)
    BY <1>1, <1>3 DEF Threads, ProcessOK
  <2>2. g = [f EXCEPT ![t] = p]
    BY <1>3 DEF FirstWakeup
  <2> HIDE DEF w, g
  <2>3. /\ p \in Processes /\ p.pid = f[t].pid
        /\ p.lastWakeup = ts /\ p.lastWaker = w
    BY <1>1, <2>1 DEF ProcessOK, Processes
  <2> HIDE DEF p
  <2>4. /\ g \in [DOMAIN f -> Processes]
        /\ DOMAIN g = DOMAIN f
        /\ g[t] = p
        /\ \A x \in DOMAIN f : x # t => g[x] = f[x]
    BY <2>2, <2>3 DEF Threads
  <2>5. ts # None /\ ts <= ts
    BY Constants
  <2>6. ASSUME NEW x \in DOMAIN f PROVE ProcessOK(g, {}, ts, x)
    <3>1. ProcessOK(f, {}, ts, x)
      BY DEF Threads
    <3> QED BY <1>1, <2>1, <2>3, <2>4, <2>5, <3>1 DEF ProcessOK
  <2>7. Threads(g, {}, ts)
    BY <2>4, <2>6 DEF Threads
  <2> QED BY <1>3, <2>3, <2>4, <2>7 DEF g
<1> QED BY <1>2, <1>3

-----------------------------------------------------------------------------
\* What an event at ts does to the pending wakeups.
WakeupsMove(ts) ==
    /\ \A t \in DOMAIN tids :
         tids[t].lastWakeup # None /\ tids'[t].lastWakeup # tids[t].lastWakeup
         => /\ tids'[t].lastWakeup = None
            /\ \/ \E c \in DOMAIN cpus' : cpus'[c] = t
               \/ tids'[t].pid # None /\ UNCHANGED cpus
    /\ \A t \in DOMAIN tids' :
         \/ tids'[t].lastWakeup \in {None, ts}
         \/ t \in DOMAIN tids /\ tids'[t].lastWakeup = tids[t].lastWakeup

EventOK(ts) == SchedInv' /\ WakeupsMove(ts)

LEMMA InitInv == SchedInit => SchedInv
<1> SUFFICES ASSUME SchedInit PROVE SchedInv
  OBVIOUS
<1>1. now \in Nat /\ version \in Versions /\ fault = "none"
  BY Constants DEF SchedInit
<1>2. Threads(tids, {}, now)
  BY DEF SchedInit, Threads
<1>3. Current(cpus, tids)
  BY DEF SchedInit, Current
<1> QED BY <1>1, <1>2, <1>3 DEF SchedInv

\* What every handler starts from.
LEMMA AtThreads ==
    ASSUME SchedInv, NEW ts \in 0 .. MaxTs, At(ts)
    PROVE  /\ ts \in Nat /\ now' = ts /\ version' \in Versions
           /\ fault = "none"
           /\ Threads(tids, {}, ts) /\ Current(cpus, tids)
<1>1. ts \in Nat /\ now <= ts /\ now \in Nat
  BY Constants DEF SchedInv, At
<1>2. Threads(tids, {}, ts)
  BY <1>1, ThreadsLater DEF SchedInv
<1> QED BY <1>1, <1>2 DEF SchedInv, At

\* A handler that leaves the CPUs alone and loses the wakeups of R only.
LEMMA CalmStep ==
    ASSUME SchedInv, NEW ts \in 0 .. MaxTs, At(ts), NEW R,
           Threads(tids', {}, ts), Calm(tids, tids', R),
           \A t \in R : tids'[t].pid # None,
           cpus' = cpus, fault' \in {"none", "KeyError", "AttributeError"}
    PROVE  EventOK(ts)
<1>1. /\ ts \in Nat /\ now' = ts /\ version' \in Versions
      /\ Current(cpus, tids)
  BY AtThreads
<1>2. Current(cpus', tids')
  BY <1>1, CalmCurrent
<1>3. WakeupsMove(ts)
  BY DEF WakeupsMove, Calm
<1> QED BY <1>1, <1>2, <1>3 DEF EventOK, SchedInv

LEMMA CalmFails ==
    ASSUME SchedInv, NEW ts \in 0 .. MaxTs,
           NEW e \in {"KeyError", "AttributeError"}, Fails(ts, e)
    PROVE  EventOK(ts)
<1>1. At(ts) /\ tids' = tids /\ cpus' = cpus /\ fault' = e
  BY DEF Fails
<1>2. Threads(tids', {}, ts)
  BY <1>1, AtThreads
<1>3. Calm(tids, tids', {})
  BY <1>1 DEF Calm
<1> QED BY <1>1, <1>2, <1>3, CalmStep

LEMMA SwitchOK ==
    ASSUME SchedInv, NEW ts \in 0 .. MaxTs, NEW c \in Cpus,
           NEW prev \in Tids, NEW next \in Tids, NEW p \in Prios,
           NEW q \in Prios, SchedSwitch(ts, c, prev, p, next, q)
    PROVE  EventOK(ts)
<1> DEFINE f1 == CreateProc(tids, prev)
           f2 == CreateProc(f1, next)
           f3 == SetPrio(f2, prev, p)
           f4 == SetPrio(f3, next, q)
           f5 == WakeupConsumed(f4, next)
<1>1. /\ At(ts) /\ fault' = fault
      /\ cpus' = Put(cpus, c, CurrentOf(next))
      /\ tids' = f5
  BY DEF SchedSwitch, Switched
<1>2. /\ ts \in Nat /\ now' = ts /\ version' \in Versions
      /\ fault = "none"
      /\ Threads(tids, {}, ts) /\ Current(cpus, tids)
  BY <1>1, AtThreads
<1>3. p \in Int /\ q \in Int
  BY Constants
<1>4. Threads(f1, {}, ts) /\ Calm(tids, f1, {}) /\ prev \in DOMAIN f1
  BY <1>2, CreateProcThreads
<1> HIDE DEF f1
<1>5. Threads(f2, {}, ts) /\ Calm(f1, f2, {}) /\ next \in DOMAIN f2
  BY <1>2, <1>4, CreateProcThreads
<1> HIDE DEF f2
<1>6. Threads(f3, {}, ts) /\ Calm(f2, f3, {})
  <2>1. prev \in DOMAIN f2
    BY <1>4, <1>5 DEF Calm
  <2> QED BY <1>2, <1>3, <1>5, <2>1, SetPrioThreads
<1> HIDE DEF f3
<1>7. Threads(f4, {}, ts) /\ Calm(f3, f4, {}) /\ next \in DOMAIN f4
  <2>1. next \in DOMAIN f3
    BY <1>5, <1>6 DEF Calm
  <2>2. Threads(f4, {}, ts) /\ Calm(f3, f4, {})
    BY <1>2, <1>3, <1>6, <2>1, SetPrioThreads
  <2> QED BY <2>1, <2>2 DEF Calm
<1> HIDE DEF f4
<1>8. Threads(f5, {}, ts) /\ Calm(f4, f5, {next}) /\ f5[next].lastWakeup = None
  BY <1>2, <1>7, ConsumedThreads
<1> HIDE DEF f5
<1>9. Calm(tids, f5, {next})
  BY <1>4, <1>5, <1>6, <1>7, <1>8 DEF Calm
<1>10. next \in DOMAIN f5
  BY <1>7, <1>8 DEF Calm
<1>11. Current(cpus', tids')
  <2>1. Current(cpus, f5)
    BY <1>2, <1>9, CalmCurrent
  <2>2. /\ CurrentOf(next) \in (Tids \ {Swapper}) \cup {None}
        /\ CurrentOf(next) # None => CurrentOf(next) = next
    BY DEF CurrentOf
  <2> QED BY <1>1, <1>8, <1>10, <2>1, <2>2 DEF Current, Put
<1>12. WakeupsMove(ts)
  <2>1. ASSUME NEW t \in DOMAIN tids, tids[t].lastWakeup # None,
               tids'[t].lastWakeup # tids[t].lastWakeup
        PROVE  /\ tids'[t].lastWakeup = None
               /\ \E d \in DOMAIN cpus' : cpus'[d] = t
    <3>1. t = next /\ tids'[t].lastWakeup = None
      BY <1>1, <1>9, <2>1 DEF Calm
    <3>2. t # Swapper
      BY <1>2, <2>1 DEF Threads, ProcessOK
    <3>3. c \in DOMAIN cpus' /\ cpus'[c] = next
      BY <1>1, <3>1, <3>2 DEF Put, CurrentOf
    <3> QED BY <3>1, <3>3
  <2>2. \A t \in DOMAIN tids' :
          \/ tids'[t].lastWakeup = None
          \/ t \in DOMAIN tids /\ tids'[t].lastWakeup = tids[t].lastWakeup
    BY <1>1, <1>9 DEF Calm
  <2> QED BY <2>1, <2>2 DEF WakeupsMove
<1> QED BY <1>1, <1>2, <1>8, <1>11, <1>12 DEF EventOK, SchedInv

\* The CPUs of a wakeup exist, without a current thread if they are new.
LEMMA WithCpusCurrent ==
    ASSUME NEW f, Current(cpus, f), NEW target \in Cpus, NEW here \in Cpus
    PROVE  /\ Current(WithCpus(target, here), f)
           /\ here \in DOMAIN WithCpus(target, here)
           /\ \A c \in DOMAIN WithCpus(target, here) :
                WithCpus(target, here)[c] # None =>
                    c \in DOMAIN cpus /\ WithCpus(target, here)[c] = cpus[c]
BY DEF Current, WithCpus

LEMMA WakeupIgnoredOK ==
    ASSUME SchedInv, NEW ts \in 0 .. MaxTs, NEW here \in Cpus,
           NEW target \in Cpus, NEW t \in Tids \ {Swapper},
           WakeupIgnored(ts, here, target, t)
    PROVE  EventOK(ts)
<1>1. /\ At(ts) /\ fault' = fault /\ tids' = tids
      /\ cpus' = WithCpus(target, here)
  BY DEF WakeupIgnored
<1>2. /\ ts \in Nat /\ now' = ts /\ version' \in Versions /\ fault = "none"
      /\ Threads(tids, {}, ts) /\ Current(cpus, tids)
  BY <1>1, AtThreads
<1>3. Current(cpus', tids')
  BY <1>1, <1>2, WithCpusCurrent
<1>4. WakeupsMove(ts)
  BY <1>1 DEF WakeupsMove
<1> QED BY <1>1, <1>2, <1>3, <1>4 DEF EventOK, SchedInv

LEMMA WakeupOK ==
    ASSUME SchedInv, NEW ts \in 0 .. MaxTs, NEW here \in Cpus,
           NEW target \in Cpus, NEW t \in Tids \ {Swapper}, NEW p \in Prios,
           SchedWakeup(ts, here, target, t, p)
    PROVE  EventOK(ts)
<1> DEFINE k == WithCpus(target, here)
           f1 == Ensure(tids, t, Process(None, None))
           f2 == SetPrio(f1, t, WakeupPrio(p))
           f3 == FirstWakeup(f2, t, ts, k[here])
<1>1. /\ At(ts) /\ fault' = fault /\ ~IsCurrent(t)
      /\ cpus' = k /\ tids' = f3
  BY DEF SchedWakeup
<1>2. /\ ts \in Nat /\ now' = ts /\ version' \in Versions /\ fault = "none"
      /\ Threads(tids, {}, ts) /\ Current(cpus, tids)
  BY <1>1, AtThreads
<1>3. WakeupPrio(p) \in Int
  BY Constants DEF WakeupPrio
<1>4. Threads(f1, {}, ts) /\ Calm(tids, f1, {}) /\ t \in DOMAIN f1
  <2>1. Threads(f1, {} \ {t}, ts) /\ Calm(tids, f1, {}) /\ t \in DOMAIN f1
    BY <1>2, EnsureThreads
  <2>2. {} \ {t} = {}
    OBVIOUS
  <2> QED BY <2>1, <2>2
<1> HIDE DEF f1
<1>5. Threads(f2, {}, ts) /\ Calm(f1, f2, {})
  BY <1>2, <1>3, <1>4, SetPrioThreads
<1>6. Calm(tids, f2, {}) /\ t \in DOMAIN f2
  BY <1>4, <1>5 DEF Calm
<1> HIDE DEF f2
<1>7. /\ Current(k, f2) /\ here \in DOMAIN k
      /\ \A c \in DOMAIN k : k[c] # None => c \in DOMAIN cpus /\ k[c] = cpus[c]
  <2>1. Current(cpus, f2)
    BY <1>2, <1>6, CalmCurrent
  <2> QED BY <2>1, WithCpusCurrent
<1> HIDE DEF k
<1>8. \A c \in DOMAIN k : k[c] # t
  BY <1>1, <1>7, Constants DEF IsCurrent
<1>9. k[here] \in (DOMAIN f2 \ {t}) \cup {None}
  BY <1>7, <1>8 DEF Current
<1>10. /\ Threads(f3, {}, ts)
       /\ DOMAIN f3 = DOMAIN f2
       /\ \A x \in DOMAIN f2 :
            f3[x].lastWakeup # f2[x].lastWakeup =>
               /\ x = t
               /\ f2[x].lastWakeup = None
               /\ f3[x].lastWakeup = ts
  BY <1>2, <1>5, <1>6, <1>9, FirstWakeupThreads
<1> HIDE DEF f3
<1>11. Current(k, f3)
  BY <1>7, <1>8, <1>10 DEF Current
<1>12. WakeupsMove(ts)
  <2>1. \A x \in DOMAIN tids : tids'[x].lastWakeup # tids[x].lastWakeup =>
                                 tids[x].lastWakeup = None
    BY <1>1, <1>6, <1>10 DEF Calm
  <2>2. \A x \in DOMAIN tids' :
          \/ tids'[x].lastWakeup \in {None, ts}
          \/ x \in DOMAIN tids /\ tids'[x].lastWakeup = tids[x].lastWakeup
    BY <1>1, <1>6, <1>10 DEF Calm
  <2> QED BY <2>1, <2>2 DEF WakeupsMove
<1> QED BY <1>1, <1>2, <1>10, <1>11, <1>12 DEF EventOK, SchedInv

LEMMA EnsureOK ==
    ASSUME NEW f, NEW ts \in Nat, Threads(f, {}, ts), NEW t \in Tids
    PROVE  LET g == Ensure(f, t, Process(None, None))
           IN  Threads(g, {}, ts) /\ Calm(f, g, {}) /\ t \in DOMAIN g
<1> DEFINE g == Ensure(f, t, Process(None, None))
<1>1. Threads(g, {} \ {t}, ts) /\ Calm(f, g, {}) /\ t \in DOMAIN g
  BY EnsureThreads
<1>2. {} \ {t} = {}
  OBVIOUS
<1> HIDE DEF g
<1> QED BY <1>1, <1>2 DEF g

LEMMA MigrateOK ==
    ASSUME SchedInv, NEW ts \in 0 .. MaxTs, NEW t \in Tids \ {Swapper},
           NEW p \in Prios, SchedMigrate(ts, t, p)
    PROVE  EventOK(ts)
<1> DEFINE f1 == Ensure(tids, t, Process(None, None))
           f2 == SetPrio(f1, t, p)
<1>1. At(ts) /\ fault' = fault /\ cpus' = cpus /\ tids' = f2
  BY DEF SchedMigrate
<1>2. ts \in Nat /\ fault = "none" /\ Threads(tids, {}, ts)
  BY <1>1, AtThreads
<1>3. Threads(f1, {}, ts) /\ Calm(tids, f1, {}) /\ t \in DOMAIN f1
  BY <1>2, EnsureOK
<1> HIDE DEF f1
<1>4. Threads(f2, {}, ts) /\ Calm(f1, f2, {})
  BY <1>2, <1>3, SetPrioThreads, Constants
<1> HIDE DEF f2
<1>5. Calm(tids, f2, {})
  BY <1>3, <1>4 DEF Calm
<1> QED BY <1>1, <1>2, <1>4, <1>5, CalmStep

LEMMA ExecOK ==
    ASSUME SchedInv, NEW ts \in 0 .. MaxTs, NEW t \in Tids \ {Swapper},
           SchedExec(ts, t)
    PROVE  EventOK(ts)
<1> DEFINE f1 == Ensure(tids, t, Process(None, None))
<1>1. At(ts) /\ fault' = fault /\ cpus' = cpus /\ tids' = f1
  BY DEF SchedExec
<1>2. ts \in Nat /\ fault = "none" /\ Threads(tids, {}, ts)
  BY <1>1, AtThreads
<1>3. Threads(f1, {}, ts) /\ Calm(tids, f1, {})
  BY <1>2, EnsureOK
<1> HIDE DEF f1
<1> QED BY <1>1, <1>2, <1>3, CalmStep

LEMMA PiSetprioOK ==
    ASSUME SchedInv, NEW ts \in 0 .. MaxTs, NEW t \in Tids, NEW p \in Prios,
           SchedPiSetprio(ts, t, p)
    PROVE  EventOK(ts)
<1> DEFINE f1 == SetPrio(tids, t, p)
<1>1. /\ At(ts) /\ fault' = fault /\ cpus' = cpus /\ tids' = f1
      /\ t \in DOMAIN tids \cup {Swapper}
  BY DEF SchedPiSetprio
<1>2. ts \in Nat /\ fault = "none" /\ Threads(tids, {}, ts)
  BY <1>1, AtThreads
<1>3. Threads(f1, {}, ts) /\ Calm(tids, f1, {})
  BY <1>1, <1>2, SetPrioThreads, Constants
<1> HIDE DEF f1
<1> QED BY <1>1, <1>2, <1>3, CalmStep

LEMMA ForkOK ==
    ASSUME SchedInv, NEW ts \in 0 .. MaxTs, NEW child \in Tids \ {Swapper},
           NEW pid \in Tids \ {Swapper}, NEW parent \in Tids \ {Swapper},
           SchedFork(ts, child, pid, parent)
    PROVE  EventOK(ts)
<1> DEFINE f1 == Ensure(tids, parent, Process(parent, None))
           p == [f1[parent] EXCEPT !.pid = parent]
           f2 == [f1 EXCEPT ![parent] = p]
           f3 == Put(f2, child, Process(pid, None))
<1>1. /\ At(ts) /\ fault' = fault /\ cpus' = cpus /\ tids' = f3
      /\ pid \in {child, parent}
  BY DEF SchedFork
<1>2. ts \in Nat /\ fault = "none" /\ Threads(tids, {}, ts)
  BY <1>1, AtThreads
<1>3. Threads(f1, {}, ts) /\ Calm(tids, f1, {}) /\ parent \in DOMAIN f1
  <2>1. {} \ {parent} = {}
    OBVIOUS
  <2>2. /\ Threads(f1, {} \ {parent}, ts)
        /\ Calm(tids, f1, {}) /\ parent \in DOMAIN f1
    BY <1>2, EnsureThreads
  <2> QED BY <2>1, <2>2
<1> HIDE DEF f1
<1>4. /\ p \in Processes /\ p.pid = parent
      /\ p.lastWakeup = f1[parent].lastWakeup
      /\ p.lastWaker = f1[parent].lastWaker
  <2>1. f1[parent] \in Processes
    BY <1>3 DEF Threads
  <2> QED BY <2>1 DEF Processes
<1> HIDE DEF p
<1>5. Threads(f2, {}, ts) /\ Calm(f1, f2, {}) /\ DOMAIN f2 = DOMAIN f1
  BY <1>2, <1>3, <1>4, WrittenThreads
<1> HIDE DEF f2
<1>6. Threads(f3, {}, ts) /\ Calm(f2, f3, {child})
  <2>1. {} \ {child} = {}
    OBVIOUS
  <2>2. pid \in DOMAIN f2 \cup {child, None}
    BY <1>1, <1>3, <1>5
  <2>3. Threads(f3, {} \ {child}, ts) /\ Calm(f2, f3, {child})
    BY <1>2, <1>5, <2>2, PutThreads
  <2> QED BY <2>1, <2>3
<1>7. f3[child].pid # None
  BY Constants DEF Put, Process
<1> HIDE DEF f3
<1>8. Calm(tids, f3, {child})
  BY <1>3, <1>5, <1>6 DEF Calm
<1> QED BY <1>1, <1>2, <1>6, <1>7, <1>8, CalmStep

LEMMA StatedumpOK ==
    ASSUME SchedInv, NEW ts \in 0 .. MaxTs, NEW t \in Tids \ {Swapper},
           NEW pid \in Tids \ {Swapper}, NEW prio \in Prios \cup {None},
           StatedumpProcess(ts, t, pid, prio)
    PROVE  EventOK(ts)
<1> DEFINE f1 == Ensure(tids, t, Process(None, None))
           p == [f1[t] EXCEPT !.pid = pid,
                      !.prio = IF f1[t].prio = None THEN prio ELSE f1[t].prio]
           f2 == Dumped(f1, t, pid, prio)
           f3 == Ensure(f2, pid, Process(pid, None))
<1>1. At(ts) /\ fault' = fault /\ cpus' = cpus /\ tids' = f3
  BY DEF StatedumpProcess
<1>2. ts \in Nat /\ fault = "none" /\ Threads(tids, {}, ts)
  BY <1>1, AtThreads
<1>3. Threads(f1, {}, ts) /\ Calm(tids, f1, {}) /\ t \in DOMAIN f1
  BY <1>2, EnsureOK
<1> HIDE DEF f1
<1>4. f1[t] \in Processes
  BY <1>3 DEF Threads
<1>6. /\ p \in Processes /\ p.pid = pid
      /\ p.lastWakeup = f1[t].lastWakeup
      /\ p.lastWaker = f1[t].lastWaker
  BY <1>4, Constants DEF Processes
<1>5. f2 = [f1 EXCEPT ![t] = p]
  BY DEF Dumped
<1> HIDE DEF p, f2
<1>7. Threads(f1, {pid}, ts)
  BY <1>3 DEF Threads, ProcessOK
<1>8. Threads(f2, {pid}, ts) /\ Calm(f1, f2, {}) /\ DOMAIN f2 = DOMAIN f1
  BY <1>2, <1>3, <1>5, <1>6, <1>7, WrittenThreads
<1>9. Threads(f3, {}, ts) /\ Calm(f2, f3, {})
  <2>1. {pid} \ {pid} = {}
    OBVIOUS
  <2>2. Threads(f3, {pid} \ {pid}, ts) /\ Calm(f2, f3, {})
    BY <1>2, <1>8, EnsureThreads
  <2> QED BY <2>1, <2>2
<1> HIDE DEF f3
<1>10. Calm(tids, f3, {})
  BY <1>3, <1>8, <1>9 DEF Calm
<1> QED BY <1>1, <1>2, <1>9, <1>10, CalmStep

LEMMA FixContextOK ==
    ASSUME SchedInv, NEW ts \in 0 .. MaxTs, NEW c \in Cpus,
           NEW pid \in Tids \ {Swapper}, FixContextPid(ts, c, pid)
    PROVE  EventOK(ts)
<1> DEFINE t == cpus[c]
           p == [tids[t] EXCEPT !.pid = pid]
           f1 == [tids EXCEPT ![t] = p]
           f2 == Put(f1, pid, Process(pid, tids[t].prio))
<1>1. /\ At(ts) /\ fault' = fault /\ cpus' = cpus
      /\ c \in DOMAIN cpus /\ t # None
      /\ tids' = IF pid = t THEN f1 ELSE f2
  BY DEF FixContextPid
<1>2. /\ ts \in Nat /\ fault = "none" /\ Threads(tids, {}, ts)
      /\ Current(cpus, tids)
  BY <1>1, AtThreads
<1>3. t \in DOMAIN tids
  BY <1>1, <1>2 DEF Current
<1> HIDE DEF t
<1>4. /\ p \in Processes /\ p.pid = pid
      /\ p.lastWakeup = tids[t].lastWakeup
      /\ p.lastWaker = tids[t].lastWaker
      /\ tids[t].prio \in Int \cup {None}
  <2>1. tids[t] \in Processes
    BY <1>2, <1>3 DEF Threads
  <2> QED BY <2>1 DEF Processes
<1> HIDE DEF p
<1>5. Threads(tids, {pid}, ts)
  BY <1>2 DEF Threads, ProcessOK
<1>6. Threads(f1, {pid}, ts) /\ Calm(tids, f1, {}) /\ DOMAIN f1 = DOMAIN tids
  BY <1>2, <1>3, <1>4, <1>5, WrittenThreads
<1> HIDE DEF f1
<1>7. CASE pid = t
  <2>1. Threads(f1, {}, ts)
    BY <1>3, <1>6, <1>7 DEF Threads, ProcessOK
  <2> QED BY <1>1, <1>2, <1>6, <1>7, <2>1, CalmStep
<1>8. CASE pid # t
  <2>1. Threads(f2, {}, ts) /\ Calm(f1, f2, {pid})
    <3>1. {pid} \ {pid} = {}
      OBVIOUS
    <3>2. Threads(f2, {pid} \ {pid}, ts) /\ Calm(f1, f2, {pid})
      BY <1>2, <1>4, <1>6, PutThreads
    <3> QED BY <3>1, <3>2
  <2>2. f2[pid].pid # None
    BY Constants DEF Put, Process
  <2> HIDE DEF f2
  <2>3. Calm(tids, f2, {pid})
    BY <1>6, <2>1 DEF Calm
  <2> QED BY <1>1, <1>2, <1>8, <2>1, <2>2, <2>3, CalmStep
<1> QED BY <1>7, <1>8

-----------------------------------------------------------------------------
LEMMA EventInv ==
    ASSUME SchedInv, NEW ts \in 0 .. MaxTs, SchedEvent(ts)
    PROVE  EventOK(ts)
<1>1. ASSUME WakeupWithoutVersion(ts) PROVE EventOK(ts)
  BY <1>1, CalmFails DEF WakeupWithoutVersion
<1>2. ASSUME NEW t \in Tids, PiSetprioOfUnknown(ts, t) PROVE EventOK(ts)
  BY <1>2, CalmFails DEF PiSetprioOfUnknown
<1> QED BY <1>1, <1>2, SwitchOK, MigrateOK, WakeupIgnoredOK, WakeupOK, ForkOK,
           ExecOK, PiSetprioOK, StatedumpOK, FixContextOK DEF SchedEvent

\* An event of which the state only keeps the timestamp.
LEMMA TickInv ==
    ASSUME SchedInv, NEW ts \in 0 .. MaxTs, At(ts),
           UNCHANGED <<tids, cpus, fault>>
    PROVE  EventOK(ts)
<1>1. Threads(tids', {}, ts) /\ fault = "none"
  BY AtThreads
<1>2. Calm(tids, tids', {})
  BY DEF Calm
<1> QED BY <1>1, <1>2, CalmStep

LEMMA StutterInv == SchedInv /\ UNCHANGED schedVars => SchedInv'
BY DEF SchedInv, schedVars

LEMMA NextInv == SchedInv /\ [SchedNext]_schedVars => SchedInv'
BY EventInv, StutterInv DEF SchedNext, EventOK

LEMMA InvImplies ==
    SchedInv => SchedTypeOK /\ LookupsSucceed /\ RunningHasNoWakeup
<1> SUFFICES ASSUME SchedInv
             PROVE  SchedTypeOK /\ LookupsSucceed /\ RunningHasNoWakeup
  OBVIOUS
<1>1. Threads(tids, {}, now) /\ Current(cpus, tids)
  BY DEF SchedInv
<1>2. SchedTypeOK
  BY <1>1 DEF SchedInv, SchedTypeOK, Threads, Current
<1>3. LookupsSucceed
  BY <1>1 DEF LookupsSucceed, CurrentIsKnown, WakerIsKnown, PidIsKnown,
              Threads, ProcessOK, Current
<1>4. RunningHasNoWakeup
  BY <1>1 DEF RunningHasNoWakeup, Threads, ProcessOK, Current
<1> QED BY <1>2, <1>3, <1>4

\* The scheduling state always has its types.
THEOREM SchedTypes == SchedSpec => []SchedTypeOK
<1>1. SchedInv => SchedTypeOK
  BY InvImplies
<1> QED BY <1>1, InitInv, NextInv, PTL DEF SchedSpec

\* Whatever events the trace has lost and wherever it begins, no look-up of a
\* CPU's current thread, of a waker or of a process leader fails: the handlers
\* that index State.tids with them raise no KeyError (linuxautomaton/sched.py:105,
\* syscalls.py:46, io.py:58, 327).
THEOREM SchedLookups == SchedSpec => []LookupsSucceed
<1>1. SchedInv => LookupsSucceed
  BY InvImplies
<1> QED BY <1>1, InitInv, NextInv, PTL DEF SchedSpec

\* A thread that a CPU executes has no wakeup pending, and none is in the
\* future: the latency of a switch is measured from a wakeup after the thread
\* was last given a CPU (linuxautomaton/sched.py:119-122, 155-174).
THEOREM SchedWakeups == SchedSpec => []RunningHasNoWakeup
<1>1. SchedInv => RunningHasNoWakeup
  BY InvImplies
<1> QED BY <1>1, InitInv, NextInv, PTL DEF SchedSpec

\* A pending wakeup is the first since the thread last ran: no later wakeup
\* replaces it (linuxautomaton/sched.py:168-174).
THEOREM SchedFirstWakeup == SchedSpec => FirstWakeupStays
<1>1. ASSUME SchedInv, [SchedNext]_schedVars
      PROVE  [\A t \in DOMAIN tids :
                /\ tids[t].lastWakeup # None
                /\ tids'[t].lastWakeup # tids[t].lastWakeup
                => /\ tids'[t].lastWakeup = None
                   /\ \/ \E c \in DOMAIN cpus' : cpus'[c] = t
                      \/ tids'[t].pid # None /\ UNCHANGED cpus]_schedVars
  BY <1>1, EventInv DEF SchedNext, EventOK, WakeupsMove
<1> QED BY <1>1, InitInv, NextInv, PTL DEF SchedSpec, FirstWakeupStays

-----------------------------------------------------------------------------
(* The analysis.                                                           *)

Latency == [wakeup : Nat, switch : Nat, wakee : Tids,
            waker : Tids \cup {None}, cpu : Cpus]

\* The inductive invariant of the list, with SchedInv.
LogInv ==
    /\ schedList \in Seq(Latency)
    /\ reported \subseteq Tids
    /\ \A i \in DOMAIN schedList :
         /\ schedList[i].wakeup <= schedList[i].switch
         /\ schedList[i].switch <= now
         /\ schedList[i].waker # schedList[i].wakee
         /\ {schedList[i].wakee, schedList[i].waker} \subseteq reported \cup {None}
    /\ \A i, j \in DOMAIN schedList :
         i < j /\ schedList[j].wakee = schedList[i].wakee
           => schedList[i].switch <= schedList[j].wakeup
    /\ \A i \in DOMAIN schedList, t \in DOMAIN tids :
         schedList[i].wakee = t /\ tids[t].lastWakeup # None
           => schedList[i].switch <= tids[t].lastWakeup

LatencyInv == SchedInv /\ LogInv

-----------------------------------------------------------------------------
LEMMA LatencyInitInv == LatencyInit => LatencyInv
<1> SUFFICES ASSUME LatencyInit PROVE LatencyInv
  OBVIOUS
<1>1. SchedInv
  BY InitInv DEF LatencyInit
<1>2. LogInv
  BY DEF LatencyInit, LogInv
<1> QED BY <1>1, <1>2 DEF LatencyInv

\* The list is kept while an event is handled: a new wakeup is not before the
\* switches of the list, which are in the past.
LEMMA LogKept ==
    ASSUME LatencyInv, NEW ts \in 0 .. MaxTs, At(ts), EventOK(ts),
           schedList' = schedList, reported' = reported
    PROVE  LogInv'
<1>1. now \in Nat /\ ts \in Nat /\ now <= ts /\ now' = ts
  BY Constants DEF At, LatencyInv, SchedInv
<1>2. \A i \in DOMAIN schedList :
         schedList[i] \in Latency /\ schedList[i].switch \in Nat
  <2>1. schedList \in Seq(Latency)
    BY DEF LatencyInv, LogInv
  <2>2. \A i \in DOMAIN schedList : schedList[i] \in Latency
    BY <2>1
  <2> QED BY <2>2 DEF Latency
<1>3. \A i \in DOMAIN schedList : schedList[i].switch <= ts
  BY <1>1, <1>2 DEF LatencyInv, LogInv
<1>4. ASSUME NEW i \in DOMAIN schedList, NEW t \in DOMAIN tids',
             schedList[i].wakee = t, tids'[t].lastWakeup # None
      PROVE  schedList[i].switch <= tids'[t].lastWakeup
  <2>1. \/ tids'[t].lastWakeup = ts
        \/ t \in DOMAIN tids /\ tids'[t].lastWakeup = tids[t].lastWakeup
    BY <1>4 DEF EventOK, WakeupsMove
  <2> QED BY <1>3, <1>4, <2>1 DEF LatencyInv, LogInv
<1> QED BY <1>1, <1>3, <1>4 DEF LatencyInv, LogInv

LEMMA LatencySwitchOK ==
    ASSUME LatencyInv, NEW ts \in 0 .. MaxTs, NEW c \in Cpus,
           NEW prev \in Tids, NEW next \in Tids, NEW p \in Prios,
           NEW q \in Prios, Switch(ts, c, prev, p, next, q)
    PROVE  EventOK(ts) /\ LogInv'
<1>1. SchedSwitch(ts, c, prev, p, next, q) /\ LogSwitch(ts, c, next)
  BY DEF Switch
<1>2. EventOK(ts) /\ At(ts)
  BY <1>1, SwitchOK DEF LatencyInv, SchedSwitch
<1> DEFINE w == PendingOf(next)
<1>3. CASE ~Kept(c, next, w.lastWakeup, ts)
  <2>1. schedList' = schedList /\ reported' = reported
    BY <1>1, <1>3 DEF LogSwitch
  <2> QED BY <1>2, <2>1, LogKept
<1>4. CASE Kept(c, next, w.lastWakeup, ts)
  <2> DEFINE e == [wakeup |-> w.lastWakeup, switch |-> ts, wakee |-> next,
                   waker |-> w.lastWaker, cpu |-> c]
  <2>1. /\ schedList' = Append(schedList, e)
        /\ reported' = reported \cup {next} \cup ({w.lastWaker} \ {None})
    BY <1>1, <1>4 DEF LogSwitch
  <2>2. now \in Nat /\ ts \in Nat /\ now <= ts /\ now' = ts
    BY <1>2, Constants DEF At, LatencyInv, SchedInv
  <2>3. next \in DOMAIN tids /\ w = tids[next] /\ w.lastWakeup # None
    BY <1>4 DEF Kept, PendingOf, Process
  <2>4. /\ w \in Processes /\ w.lastWakeup \in Nat /\ w.lastWakeup <= ts
        /\ w.lastWaker \in Tids \cup {None} /\ w.lastWaker # next
        /\ next # Swapper
    <3>1. Threads(tids, {}, ts)
      BY <1>2, AtThreads DEF LatencyInv
    <3>2. ProcessOK(tids, {}, ts, next)
      BY <2>3, <3>1 DEF Threads
    <3>3. w \in Processes
      BY <2>3, <3>2 DEF ProcessOK
    <3> QED BY <2>3, <3>2, <3>3, Constants DEF ProcessOK, Processes
  <2>5. next \in DOMAIN tids' => tids'[next].lastWakeup = None
    <3>1. c \in DOMAIN cpus' /\ cpus'[c] = next
      BY <1>1, <2>4 DEF SchedSwitch, Put, CurrentOf
    <3>2. Current(cpus', tids')
      BY <1>2 DEF EventOK, SchedInv
    <3> QED BY <3>1, <3>2, Constants DEF Current
  <2>6. /\ e \in Latency /\ e.wakeup = w.lastWakeup /\ e.switch = ts
        /\ e.wakee = next /\ e.waker = w.lastWaker
    BY <2>2, <2>3, <2>4 DEF Latency
  <2> HIDE DEF e, w
  <2>7. schedList \in Seq(Latency)
    BY DEF LatencyInv, LogInv
  <2>8. /\ schedList' \in Seq(Latency)
        /\ DOMAIN schedList' = 1 .. Len(schedList) + 1
        /\ DOMAIN schedList = 1 .. Len(schedList)
        /\ Len(schedList) \in Nat
        /\ \A i \in DOMAIN schedList : schedList'[i] = schedList[i]
        /\ schedList'[Len(schedList) + 1] = e
    BY <2>1, <2>6, <2>7
  <2>9. reported' \subseteq Tids
    BY <2>1, <2>4 DEF LatencyInv, LogInv
  <2>10. ASSUME NEW i \in DOMAIN schedList'
         PROVE  /\ schedList'[i].wakeup <= schedList'[i].switch
                /\ schedList'[i].switch <= ts
                /\ schedList'[i].waker # schedList'[i].wakee
                /\ {schedList'[i].wakee, schedList'[i].waker}
                     \subseteq reported' \cup {None}
    <3>1. CASE i \in DOMAIN schedList
      <4>1. schedList'[i] = schedList[i] /\ schedList[i] \in Latency
        BY <2>7, <2>8, <3>1
      <4>2. schedList[i].switch \in Nat
        BY <4>1 DEF Latency
      <4>3. schedList[i].switch <= ts
        BY <2>2, <3>1, <4>2 DEF LatencyInv, LogInv
      <4> QED BY <2>1, <3>1, <4>1, <4>3 DEF LatencyInv, LogInv
    <3>2. CASE i = Len(schedList) + 1
      BY <2>1, <2>2, <2>4, <2>6, <2>8, <3>2
    <3> QED BY <2>8, <3>1, <3>2
  <2>11. ASSUME NEW i \in DOMAIN schedList', NEW j \in DOMAIN schedList',
                i < j, schedList'[j].wakee = schedList'[i].wakee
         PROVE  schedList'[i].switch <= schedList'[j].wakeup
    <3>1. i \in DOMAIN schedList /\ schedList'[i] = schedList[i]
      BY <2>8, <2>11
    <3>2. CASE j \in DOMAIN schedList
      BY <2>8, <2>11, <3>1, <3>2 DEF LatencyInv, LogInv
    <3>3. CASE j = Len(schedList) + 1
      <4>1. schedList[i].wakee = next
        BY <2>6, <2>8, <2>11, <3>1, <3>3
      <4>2. schedList[i].switch <= tids[next].lastWakeup
        BY <2>3, <3>1, <4>1 DEF LatencyInv, LogInv
      <4> QED BY <2>3, <2>6, <2>8, <3>1, <3>3, <4>2
    <3> QED BY <2>8, <3>2, <3>3
  <2>12. ASSUME NEW i \in DOMAIN schedList', NEW t \in DOMAIN tids',
                schedList'[i].wakee = t, tids'[t].lastWakeup # None
         PROVE  schedList'[i].switch <= tids'[t].lastWakeup
    <3>1. t # next
      BY <2>5, <2>12
    <3>2. i \in DOMAIN schedList /\ schedList'[i] = schedList[i]
      BY <2>6, <2>8, <2>12, <3>1
    <3>3. \/ tids'[t].lastWakeup = ts
          \/ t \in DOMAIN tids /\ tids'[t].lastWakeup = tids[t].lastWakeup
      BY <1>2, <2>12 DEF EventOK, WakeupsMove
    <3> QED BY <2>10, <2>12, <3>2, <3>3 DEF LatencyInv, LogInv
  <2>13. LogInv'
    BY <2>2, <2>8, <2>9, <2>10, <2>11, <2>12 DEF LogInv
  <2> QED BY <1>2, <2>13
<1> QED BY <1>3, <1>4

LEMMA LatencyNextInv ==
    LatencyInv /\ [LatencyNext]_latencyVars =>
       /\ LatencyInv'
       /\ \/ \E ts \in 0 .. MaxTs : WakeupsMove(ts)
          \/ UNCHANGED schedVars
<1> SUFFICES ASSUME LatencyInv, [LatencyNext]_latencyVars
             PROVE  /\ LatencyInv'
                    /\ \/ \E ts \in 0 .. MaxTs : WakeupsMove(ts)
                       \/ UNCHANGED schedVars
  OBVIOUS
<1>1. ASSUME NEW ts \in 0 .. MaxTs, EventOK(ts), LogInv'
      PROVE  LatencyInv' /\ WakeupsMove(ts)
  BY <1>1 DEF EventOK, LatencyInv
<1>2. ASSUME NEW ts \in 0 .. MaxTs, NEW c \in Cpus, NEW prev \in Tids,
             NEW next \in Tids, NEW p \in Prios, NEW q \in Prios,
             Switch(ts, c, prev, p, next, q)
      PROVE  EventOK(ts) /\ LogInv'
  BY <1>2, LatencySwitchOK
<1>3. ASSUME NEW ts \in 0 .. MaxTs, NEW child \in Tids \ {Swapper},
             NEW pid \in Tids \ {Swapper}, NEW parent \in Tids \ {Swapper},
             Fork(ts, child, pid, parent)
      PROVE  EventOK(ts) /\ LogInv'
  <2>1. /\ SchedFork(ts, child, pid, parent) /\ At(ts)
        /\ schedList' = schedList /\ reported' = reported
    BY <1>3 DEF Fork, SchedFork
  <2> QED BY <2>1, ForkOK, LogKept DEF LatencyInv
<1>4. ASSUME NEW ts \in 0 .. MaxTs, NextPeriod(ts)
      PROVE  EventOK(ts) /\ LogInv'
  <2>1. /\ At(ts) /\ UNCHANGED <<tids, cpus, fault>>
        /\ schedList' = << >> /\ reported' = {}
    BY <1>4 DEF NextPeriod
  <2> QED BY <2>1, TickInv DEF LatencyInv, LogInv
<1>5. ASSUME NEW ts \in 0 .. MaxTs, OtherEvent(ts),
             UNCHANGED <<conf, schedList, reported, running, stopped>>
      PROVE  EventOK(ts) /\ LogInv'
  <2>1. SchedEvent(ts)
    BY <1>5 DEF OtherEvent, SchedEvent
  <2>2. At(ts)
    BY <1>5 DEF OtherEvent, SchedMigrate, WakeupIgnored, SchedWakeup,
                WakeupWithoutVersion, SchedExec, SchedPiSetprio,
                PiSetprioOfUnknown, StatedumpProcess, FixContextPid, Fails
  <2>3. EventOK(ts)
    BY <2>1, EventInv DEF LatencyInv
  <2> QED BY <1>5, <2>2, <2>3, LogKept
<1>6. CASE UNCHANGED latencyVars
  BY <1>6, StutterInv DEF latencyVars, schedVars, LatencyInv, LogInv
<1> QED BY <1>1, <1>2, <1>3, <1>4, <1>5, <1>6 DEF LatencyNext

-----------------------------------------------------------------------------
\* The scheduling state and the latencies always have their types.
THEOREM LatencyTypes == LatencySpec => []LatencyTypeOK
<1>1. LatencyInv => LatencyTypeOK
  BY InvImplies DEF LatencyInv, LogInv, LatencyTypeOK, Latency
<1> QED BY <1>1, LatencyInitInv, LatencyNextInv, PTL DEF LatencySpec

\* The latencies that one period logs for a thread are not negative, do not
\* overlap and name another thread as the waker: no wakeup is counted twice,
\* whatever the trace lost (core/sched.py:58-80,
\* linuxautomaton/sched.py:119-122).
THEOREM LatenciesDisjoint == LatencySpec => []LatenciesAreDisjoint
<1>1. LatencyInv => LatenciesAreDisjoint
  <2> SUFFICES ASSUME LatencyInv PROVE LatenciesAreDisjoint
    OBVIOUS
  <2> QED BY DEF LatencyInv, LogInv, LatenciesAreDisjoint
<1> QED BY <1>1, LatencyInitInv, LatencyNextInv, PTL DEF LatencySpec

\* The look-ups of the automaton succeed while the analysis listens to it.
THEOREM LatencyLookups == LatencySpec => []LookupsSucceed
<1>1. LatencyInv => LookupsSucceed
  BY InvImplies DEF LatencyInv
<1> QED BY <1>1, LatencyInitInv, LatencyNextInv, PTL DEF LatencySpec

\* No running thread has a wakeup pending while the analysis listens.
THEOREM LatencyWakeups == LatencySpec => []RunningHasNoWakeup
<1>1. LatencyInv => RunningHasNoWakeup
  BY InvImplies DEF LatencyInv
<1> QED BY <1>1, LatencyInitInv, LatencyNextInv, PTL DEF LatencySpec

\* The first wakeup stays while the analysis listens.
THEOREM LatencyFirstWakeup == LatencySpec => FirstWakeupStays
<1>1. ASSUME LatencyInv, [LatencyNext]_latencyVars
      PROVE  [\A t \in DOMAIN tids :
                /\ tids[t].lastWakeup # None
                /\ tids'[t].lastWakeup # tids[t].lastWakeup
                => /\ tids'[t].lastWakeup = None
                   /\ \/ \E c \in DOMAIN cpus' : cpus'[c] = t
                      \/ tids'[t].pid # None /\ UNCHANGED cpus]_schedVars
  BY <1>1, LatencyNextInv DEF WakeupsMove
<1> QED BY <1>1, LatencyInitInv, LatencyNextInv, PTL
        DEF LatencySpec, FirstWakeupStays

-----------------------------------------------------------------------------
(* With a complete trace.                                                  *)

\* A thread is not woken up before the last time it left a CPU, unless that
\* switch was the first one of its CPU.
StopInv ==
    /\ running \in [Cpus -> Tids]
    /\ DOMAIN stopped = Tids
    /\ \A t \in Tids :
         stopped[t].ts # None => stopped[t].ts \in Nat /\ stopped[t].ts <= now
    /\ \A t \in DOMAIN tids :
         tids[t].lastWakeup # None /\ stopped[t].ts # None /\ ~stopped[t].first
           => stopped[t].ts <= tids[t].lastWakeup

LEMMA StopInitInv == LatencyInit => StopInv
<1> SUFFICES ASSUME LatencyInit PROVE StopInv
  OBVIOUS
<1>1. running \in [Cpus -> Tids]
  BY Constants DEF LatencyInit
<1>2. DOMAIN stopped = Tids /\ \A t \in Tids : stopped[t].ts = None
  BY DEF LatencyInit, NeverStopped
<1>3. DOMAIN tids = {}
  BY DEF LatencyInit, SchedInit
<1> QED BY <1>1, <1>2, <1>3 DEF StopInv

\* What an event at ts leaves true of a thread whose last stop it does not
\* record: a new wakeup is at ts.
LEMMA StopKept ==
    ASSUME LatencyInv, StopInv, NEW ts \in 0 .. MaxTs, At(ts), EventOK(ts),
           NEW t \in Tids, stopped'[t] = stopped[t]
    PROVE  /\ stopped'[t].ts # None =>
                stopped'[t].ts \in Nat /\ stopped'[t].ts <= now'
           /\ t \in DOMAIN tids' /\ tids'[t].lastWakeup # None
              /\ stopped'[t].ts # None /\ ~stopped'[t].first
              => stopped'[t].ts <= tids'[t].lastWakeup
<1>1. now \in Nat /\ ts \in Nat /\ now <= ts /\ now' = ts
  BY Constants DEF At, LatencyInv, SchedInv
<1>2. stopped[t].ts # None => stopped[t].ts \in Nat /\ stopped[t].ts <= ts
  BY <1>1 DEF StopInv
<1>3. ASSUME t \in DOMAIN tids', tids'[t].lastWakeup # None,
             stopped[t].ts # None, ~stopped[t].first
      PROVE  stopped[t].ts <= tids'[t].lastWakeup
  <2>1. \/ tids'[t].lastWakeup = ts
        \/ t \in DOMAIN tids /\ tids'[t].lastWakeup = tids[t].lastWakeup
    BY <1>3 DEF EventOK, WakeupsMove
  <2> QED BY <1>2, <1>3, <2>1 DEF StopInv
<1> QED BY <1>1, <1>2, <1>3

\* Events which leave the kernel's threads where they are.
LEMMA StopSame ==
    ASSUME LatencyInv, StopInv, NEW ts \in 0 .. MaxTs, At(ts), EventOK(ts),
           running' = running, stopped' = stopped
    PROVE  StopInv'
<1>1. DOMAIN tids' \subseteq Tids
  BY DEF EventOK, SchedInv, Threads
<1> QED BY <1>1, StopKept DEF StopInv

LEMMA StopFork ==
    ASSUME LatencyInv, StopInv, NEW ts \in 0 .. MaxTs, At(ts), EventOK(ts),
           running' = running, NEW child \in Tids,
           stopped' = [stopped EXCEPT ![child] = NeverStopped]
    PROVE  StopInv'
<1>1. DOMAIN tids' \subseteq Tids
  BY DEF EventOK, SchedInv, Threads
<1>2. /\ DOMAIN stopped' = Tids
      /\ stopped'[child].ts = None
      /\ \A t \in Tids \ {child} : stopped'[t] = stopped[t]
  BY DEF StopInv, NeverStopped
<1> QED BY <1>1, <1>2, StopKept DEF StopInv

\* A thread that stops has no wakeup pending, if its CPU was known to execute
\* it.
LEMMA StopSwitch ==
    ASSUME LatencyInv, StopInv, NEW ts \in 0 .. MaxTs, At(ts), EventOK(ts),
           NEW c \in Cpus, NEW prev \in Tids, NEW next \in Tids,
           KernelSwitch(ts, c, prev, next)
    PROVE  StopInv'
<1>1. /\ DOMAIN tids' \subseteq Tids
      /\ now' = ts /\ ts \in Nat
  BY Constants DEF EventOK, SchedInv, Threads, At
<1>2. running' \in [Cpus -> Tids]
  BY DEF StopInv, KernelSwitch
<1>3. /\ DOMAIN stopped' = Tids
      /\ stopped'[prev].ts = ts
      /\ stopped'[prev].first = (c \notin DOMAIN cpus \/ cpus[c] # prev)
      /\ \A t \in Tids \ {prev} : stopped'[t] = stopped[t]
  BY DEF StopInv, KernelSwitch
<1>4. ASSUME prev \in DOMAIN tids', tids'[prev].lastWakeup # None,
             ~stopped'[prev].first
      PROVE  ts <= tids'[prev].lastWakeup
  <2>1. c \in DOMAIN cpus /\ cpus[c] = prev
    BY <1>3, <1>4
  <2>2. tids[prev].lastWakeup = None
    BY <2>1, Constants DEF LatencyInv, SchedInv, Current
  <2>3. tids'[prev].lastWakeup = ts
    BY <1>4, <2>2 DEF EventOK, WakeupsMove
  <2> QED BY <1>1, <2>3
<1>5. ts <= ts
  BY <1>1
<1> QED BY <1>1, <1>2, <1>3, <1>4, <1>5, StopKept DEF StopInv

LEMMA StopNextInv ==
    LatencyInv /\ StopInv /\ [LatencyNext]_latencyVars => StopInv'
<1> SUFFICES ASSUME LatencyInv, StopInv, [LatencyNext]_latencyVars
             PROVE  StopInv'
  OBVIOUS
<1>1. ASSUME NEW ts \in 0 .. MaxTs, NEW c \in Cpus, NEW prev \in Tids,
             NEW next \in Tids, NEW p \in Prios, NEW q \in Prios,
             Switch(ts, c, prev, p, next, q)
      PROVE  StopInv'
  <2>1. EventOK(ts) /\ At(ts)
    BY <1>1, LatencySwitchOK DEF Switch, SchedSwitch
  <2> QED BY <1>1, <2>1, StopSwitch, StopSame DEF Switch
<1>2. ASSUME NEW ts \in 0 .. MaxTs, NEW child \in Tids \ {Swapper},
             NEW pid \in Tids \ {Swapper}, NEW parent \in Tids \ {Swapper},
             Fork(ts, child, pid, parent)
      PROVE  StopInv'
  <2>1. /\ SchedFork(ts, child, pid, parent) /\ At(ts)
        /\ running' = running
        /\ stopped' = [stopped EXCEPT ![child] = NeverStopped]
    BY <1>2 DEF Fork, SchedFork
  <2>2. EventOK(ts)
    BY <2>1, ForkOK DEF LatencyInv
  <2> QED BY <2>1, <2>2, StopFork
<1>3. ASSUME NEW ts \in 0 .. MaxTs, NextPeriod(ts)
      PROVE  StopInv'
  <2>1. /\ At(ts) /\ UNCHANGED <<tids, cpus, fault>>
        /\ running' = running /\ stopped' = stopped
    BY <1>3 DEF NextPeriod
  <2>2. EventOK(ts)
    BY <2>1, TickInv DEF LatencyInv
  <2> QED BY <2>1, <2>2, StopSame
<1>4. ASSUME NEW ts \in 0 .. MaxTs, OtherEvent(ts),
             UNCHANGED <<conf, schedList, reported, running, stopped>>
      PROVE  StopInv'
  <2>1. SchedEvent(ts)
    BY <1>4 DEF OtherEvent, SchedEvent
  <2>2. At(ts)
    BY <1>4 DEF OtherEvent, SchedMigrate, WakeupIgnored, SchedWakeup,
                WakeupWithoutVersion, SchedExec, SchedPiSetprio,
                PiSetprioOfUnknown, StatedumpProcess, FixContextPid, Fails
  <2>3. EventOK(ts)
    BY <2>1, EventInv DEF LatencyInv
  <2> QED BY <1>4, <2>2, <2>3, StopSame
<1>5. CASE UNCHANGED latencyVars
  BY <1>5 DEF latencyVars, schedVars, StopInv
<1> QED BY <1>1, <1>2, <1>3, <1>4, <1>5 DEF LatencyNext

\* Only a switch puts a thread on a CPU, and it logs the latency of that
\* thread.
LEMMA LoggedAfterStop ==
    ASSUME LatencyInv, StopInv, LatencyNext, conf.lossless,
           NEW c \in Cpus, running[c] # running'[c],
           Len(schedList') > Len(schedList)
    PROVE  LET t == running'[c]
               e == schedList'[Len(schedList')]
           IN  \/ stopped[t].ts = None
               \/ stopped[t].first
               \/ stopped[t].ts <= e.wakeup
<1>1. PICK ts \in 0 .. MaxTs, d \in Cpus, prev \in Tids, next \in Tids,
           p \in Prios, q \in Prios : Switch(ts, d, prev, p, next, q)
  BY DEF LatencyNext, Fork, NextPeriod
<1>2. KernelSwitch(ts, d, prev, next) /\ LogSwitch(ts, d, next)
  BY <1>1 DEF Switch
<1>3. running'[c] = next
  BY <1>2 DEF KernelSwitch, StopInv
<1> DEFINE w == PendingOf(next)
<1>4. schedList \in Seq(Latency)
  BY DEF LatencyInv, LogInv
<1>5. Len(schedList) \in Nat
  BY <1>4
<1>6. Kept(d, next, w.lastWakeup, ts)
  BY <1>2, <1>5 DEF LogSwitch
<1>7. PICK e : /\ schedList' = Append(schedList, e)
               /\ e.wakeup = w.lastWakeup
  BY <1>2, <1>6 DEF LogSwitch
<1>8. schedList'[Len(schedList')] = e
  BY <1>4, <1>7
<1>9. next \in DOMAIN tids /\ w = tids[next] /\ w.lastWakeup # None
  BY <1>6 DEF Kept, PendingOf, Process
<1> HIDE DEF w
<1> QED BY <1>3, <1>7, <1>8, <1>9 DEF StopInv

\* With a complete trace, a latency that is logged does not cover time during
\* which the thread ran: the wakeup is after the thread last left a CPU, but
\* for the threads that ran when the trace began (core/sched.py:58-80,
\* linuxautomaton/sched.py:92-122, 155-174).
THEOREM LatencyExcludes == LatencySpec => LatencyExcludesRunning
<1>1. ASSUME LatencyInv, StopInv, [LatencyNext]_latencyVars
      PROVE  [\A c \in Cpus :
                LET t == running'[c] IN
                Len(schedList') > Len(schedList) /\ running[c] # t
                  /\ conf.lossless =>
                   LET e == schedList'[Len(schedList')] IN
                   \/ stopped[t].ts = None
                   \/ stopped[t].first
                   \/ stopped[t].ts <= e.wakeup]_latencyVars
  BY <1>1, LoggedAfterStop
<1> QED BY <1>1, LatencyInitInv, StopInitInv, LatencyNextInv, StopNextInv, PTL
        DEF LatencySpec, LatencyExcludesRunning
=============================================================================

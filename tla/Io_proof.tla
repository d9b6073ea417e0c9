------------------------------ MODULE Io_proof ------------------------------
(***************************************************************************)
(* The descriptors and the calls of the threads, for any threads, CPUs,    *)
(* descriptors and names: what the analysis has of the descriptors after   *)
(* any events, and what the automaton knows of the calls and of the        *)
(* descriptors of a kernel.                                                *)
(*                                                                         *)
(* For the analysis each event is a composition of writes to the processes *)
(* and to the statistics, with a lemma for each write: what it keeps open, *)
(* and what it adds to the bytes of the threads and of the descriptors.    *)
(* For the kernel each event is a composition of writes to the pending     *)
(* calls, and the inductive invariant says which CPUs know their current   *)
(* thread; of the descriptors of a process it says that they are right, or *)
(* will be once the call that changed them has returned.                   *)
(***************************************************************************)
EXTENDS IoTrace, IoAnalysis, DataTheorems

-----------------------------------------------------------------------------
(* The Process objects.                                                    *)

IsProcess(p) ==
    /\ p = [pid |-> p.pid, fds |-> p.fds, sys |-> p.sys]
    /\ p.pid \in Tids \cup {None}

\* The leader of a process is known.
IsTable(f) ==
    /\ f = [t \in DOMAIN f |-> f[t]] /\ DOMAIN f \subseteq Tids
    /\ \A t \in DOMAIN f : IsProcess(f[t]) /\ (f[t].pid # None => f[t].pid \in DOMAIN f)

ProcsOK ==
    /\ IsTable(procs)
    /\ cpus = [c \in Cpus |-> cpus[c]]
    /\ \A c \in Cpus : cpus[c] # None => cpus[c] \in DOMAIN procs

\* A descriptor that a thread has, the call that it is in.
Has(f, t, fd)  == t \in DOMAIN f /\ fd \in DOMAIN f[t].fds
CallIn(f, t)   == IF t \in DOMAIN f THEN f[t].sys ELSE None

LEMMA NewProcess ==
    ASSUME NEW pid \in Tids \cup {None}
    PROVE  /\ IsProcess(Process(pid)) /\ Process(pid).pid = pid /\ Process(pid).sys = None
           /\ DOMAIN Process(pid).fds = {}
BY DEF IsProcess, Process, NoFds

\* A Process is changed, or added.
LEMMA PutProcess ==
    ASSUME NEW f, IsTable(f), NEW t \in Tids, NEW p, IsProcess(p),
           p.pid # None => p.pid \in DOMAIN f \cup {t}
    PROVE  IsTable(Put(f, t, p))
<1> DEFINE g == Put(f, t, p)
<1>1. /\ DOMAIN g = DOMAIN f \cup {t} /\ g[t] = p /\ \A x \in DOMAIN f : x # t => g[x] = f[x]
      /\ g = [x \in DOMAIN g |-> g[x]]
  BY DEF Put
<1> HIDE DEF g
<1>2. DOMAIN g \subseteq Tids
  BY <1>1 DEF IsTable
<1>3. ASSUME NEW x \in DOMAIN g PROVE IsProcess(g[x]) /\ (g[x].pid # None => g[x].pid \in DOMAIN g)
  BY <1>1 DEF IsTable
<1>4. IsTable(g)
  BY <1>1, <1>2, <1>3 DEF IsTable
<1> QED BY <1>4 DEF g

\* A change of one Process is a Put of it.
LEMMA ExceptIsPut ==
    ASSUME NEW f, f = [t \in DOMAIN f |-> f[t]], NEW t \in DOMAIN f, NEW p
    PROVE  [f EXCEPT ![t] = p] = Put(f, t, p)
BY DEF Put

\* The descriptors of one thread, or its call, are set.
FdsSet(g, f, t, fds) ==
    /\ IsTable(g) /\ DOMAIN g = DOMAIN f
    /\ \A u, fd : Has(g, u, fd) <=> IF u = t THEN fd \in DOMAIN fds ELSE Has(f, u, fd)
    /\ \A u : CallIn(g, u) = CallIn(f, u)

CallSet(g, f, t, sys) ==
    /\ IsTable(g) /\ DOMAIN g = DOMAIN f
    /\ \A u, fd : Has(g, u, fd) <=> Has(f, u, fd)
    /\ \A u : CallIn(g, u) = IF u = t THEN sys ELSE CallIn(f, u)

LEMMA ExceptProcess ==
    ASSUME NEW f, IsTable(f), NEW t \in DOMAIN f, NEW fds, NEW sys
    PROVE  /\ FdsSet([f EXCEPT ![t].fds = fds], f, t, fds)
           /\ CallSet([f EXCEPT ![t].sys = sys], f, t, sys)
<1> DEFINE p == [f[t] EXCEPT !.fds = fds]
           q == [f[t] EXCEPT !.sys = sys]
           g == [f EXCEPT ![t].fds = fds]
           h == [f EXCEPT ![t].sys = sys]
<1>0. t \in Tids /\ IsProcess(f[t]) /\ (f[t].pid # None => f[t].pid \in DOMAIN f)
  BY DEF IsTable
<1>1. /\ IsProcess(p) /\ p.pid = f[t].pid /\ p.fds = fds /\ p.sys = f[t].sys
      /\ IsProcess(q) /\ q.pid = f[t].pid /\ q.fds = f[t].fds /\ q.sys = sys
  <2> PICK r : r = f[t]
    OBVIOUS
  <2>1. IsProcess(r)
    BY <1>0
  <2>2. p = [r EXCEPT !.fds = fds] /\ q = [r EXCEPT !.sys = sys]
    OBVIOUS
  <2> HIDE DEF p, q
  <2> QED BY <2>1, <2>2 DEF IsProcess
<1>2. g = Put(f, t, p) /\ h = Put(f, t, q)
  BY DEF Put, IsTable
<1> HIDE DEF p, q, g, h
<1>3. IsTable(g) /\ IsTable(h)
  BY <1>0, <1>1, <1>2, PutProcess
<1>4. /\ DOMAIN g = DOMAIN f /\ g[t] = p /\ \A x \in DOMAIN f : x # t => g[x] = f[x]
      /\ DOMAIN h = DOMAIN f /\ h[t] = q /\ \A x \in DOMAIN f : x # t => h[x] = f[x]
  BY <1>2 DEF Put
<1>5. \A u, fd : /\ Has(g, u, fd) <=> IF u = t THEN fd \in DOMAIN fds ELSE Has(f, u, fd)
                 /\ Has(h, u, fd) <=> Has(f, u, fd)
  BY <1>1, <1>4 DEF Has
<1>6. \A u : /\ CallIn(g, u) = CallIn(f, u)
             /\ CallIn(h, u) = IF u = t THEN sys ELSE CallIn(f, u)
  BY <1>1, <1>4 DEF CallIn
<1> QED BY <1>3, <1>4, <1>5, <1>6 DEF g, h, FdsSet, CallSet

LEMMA CallSetGiven ==
    ASSUME NEW f, IsTable(f), NEW t \in DOMAIN f, NEW sys,
           NEW g, g = [f EXCEPT ![t].sys = sys]
    PROVE  CallSet(g, f, t, sys)
<1>1. CallSet([f EXCEPT ![t].sys = sys], f, t, sys)
  BY ExceptProcess
<1> QED BY <1>1

\* Every Process of f is known, with no other descriptor.
Follows(g, f) ==
    /\ IsTable(g) /\ DOMAIN f \subseteq DOMAIN g
    /\ \A u, fd : Has(g, u, fd) => Has(f, u, fd)

SameCalls(g, f) == \A u : CallIn(g, u) = CallIn(f, u)

LEMMA FixContextParts ==
    ASSUME NEW f, IsTable(f), NEW t \in DOMAIN f, NEW pid \in Tids \cup {None}
    PROVE  /\ Follows(FixContext(f, t, pid), f)
           /\ pid \in {None, t} => SameCalls(FixContext(f, t, pid), f)
           /\ \A u : CallIn(FixContext(f, t, pid), u) \in {CallIn(f, u), None}
<1> DEFINE g == FixContext(f, t, pid)
<1>0. t \in Tids /\ IsProcess(f[t])
  BY DEF IsTable
<1>1. CASE pid = None \/ f[t].pid # None
  <2>1. g = f
    BY <1>1 DEF FixContext
  <2> QED BY <2>1 DEF Follows, SameCalls
<1>2. CASE ~(pid = None \/ f[t].pid # None)
  <2> PICK p : p = [f[t] EXCEPT !.pid = pid]
    OBVIOUS
  <2> PICK new : new = Process(pid)
    OBVIOUS
  <2> PICK h : h = [f EXCEPT ![t].pid = pid]
    OBVIOUS
  <2>0. g = IF pid = t THEN h ELSE Put(h, pid, new)
    BY <1>2 DEF FixContext
  <2>1. pid \in Tids
    BY <1>2
  <2>2. /\ IsProcess(p) /\ p.pid = pid /\ p.fds = f[t].fds /\ p.sys = f[t].sys
        /\ IsProcess(new) /\ new.pid = pid /\ new.sys = None /\ DOMAIN new.fds = {}
    <3> PICK r : r = f[t]
      OBVIOUS
    <3>1. IsProcess(r) /\ p = [r EXCEPT !.pid = pid]
      BY <1>0
    <3> QED BY <2>1, <3>1, NewProcess DEF IsProcess
  <2>3. h = [x \in DOMAIN f |-> IF x = t THEN p ELSE f[x]]
    BY DEF IsTable
  <2> HIDE DEF g
  <2>4. /\ g = [x \in DOMAIN g |-> g[x]] /\ DOMAIN g = DOMAIN f \cup {pid} /\ g[t] = p
        /\ pid # t => g[pid] = new
        /\ \A x \in DOMAIN f : x # t /\ x # pid => g[x] = f[x]
    BY <2>0, <2>3 DEF Put
  <2>5. IsTable(g)
    <3>1. DOMAIN g \subseteq Tids
      BY <2>1, <2>4 DEF IsTable
    <3>2. ASSUME NEW x \in DOMAIN g
          PROVE  IsProcess(g[x]) /\ (g[x].pid # None => g[x].pid \in DOMAIN g)
      BY <2>2, <2>4 DEF IsTable
    <3> QED BY <2>4, <3>1, <3>2 DEF IsTable
  <2>6. ASSUME NEW u, NEW fd, Has(g, u, fd)
        PROVE  Has(f, u, fd)
    <3>0. u \in DOMAIN g /\ fd \in DOMAIN g[u].fds
      BY <2>6 DEF Has
    <3>1. CASE u = t
      BY <2>2, <2>4, <3>0, <3>1 DEF Has
    <3>2. CASE u # t /\ u = pid
      BY <2>2, <2>4, <3>0, <3>2
    <3>3. CASE u # t /\ u # pid
      BY <2>4, <3>0, <3>3 DEF Has
    <3> QED BY <3>1, <3>2, <3>3
  <2>7. \A u : CallIn(g, u) \in {CallIn(f, u), None} /\ (pid = t => CallIn(g, u) = CallIn(f, u))
    <3> TAKE u
    <3>1. CASE u = t
      BY <2>2, <2>4, <3>1 DEF CallIn
    <3>2. CASE u # t /\ u = pid
      BY <2>2, <2>4, <3>2 DEF CallIn
    <3>3. CASE u # t /\ u # pid
      BY <2>4, <3>3 DEF CallIn
    <3> QED BY <3>1, <3>2, <3>3
  <2> QED BY <1>2, <2>4, <2>5, <2>6, <2>7 DEF Follows, SameCalls, g
<1> QED BY <1>1, <1>2

\* The table of which the leader is looked up on the entry of a call.
Named(t, call, pid) == IF call.op \in IoOps THEN FixContext(procs, t, pid) ELSE procs

\* The operations of the calls.
Ops == {"open", "other", "fcntl", "dup", "dup2", "close", "read"}

LEMMA CallParts ==
    ASSUME NEW call \in Calls
    PROVE  /\ call.op \in Ops
           /\ call.op \in {"close", "read"} => call.fd \in Fds
           /\ call.op = "dup2" => call.new \in Fds
<1>1. CASE call \in OpenCalls
  <2> DEFINE C(n, x) == [NoArgs EXCEPT !.op = "open", !.file = n, !.cloexec = x]
  <2>1. OpenCalls = {C(n, x) : n \in Files, x \in BOOLEAN}
    BY DEF OpenCalls
  <2>2. \A n \in Files, x \in BOOLEAN :
           C(n, x).op = "open"
    BY DEF NoArgs
  <2> HIDE DEF C
  <2> QED BY <1>1, <2>1, <2>2 DEF Ops
<1>2. CASE call \in DupCalls
  <2> DEFINE C(fd) == [NoArgs EXCEPT !.op = "dup", !.fd = fd]
  <2>1. DupCalls = {C(fd) : fd \in Fds}
    BY DEF DupCalls
  <2>2. \A fd \in Fds :
           C(fd).op = "dup"
    BY DEF NoArgs
  <2> HIDE DEF C
  <2> QED BY <1>2, <2>1, <2>2 DEF Ops
<1>3. CASE call \in Dup2Calls
  <2> DEFINE C(fd, n, x) == [NoArgs EXCEPT !.op = "dup2", !.fd = fd, !.new = n, !.cloexec = x]
  <2>1. Dup2Calls = {C(fd, n, x) : fd \in Fds, n \in Fds, x \in BOOLEAN}
    BY DEF Dup2Calls
  <2>2. \A fd \in Fds, n \in Fds, x \in BOOLEAN :
           C(fd, n, x).op = "dup2" /\ C(fd, n, x).new = n
    BY DEF NoArgs
  <2> HIDE DEF C
  <2> QED BY <1>3, <2>1, <2>2 DEF Ops
<1>4. CASE call \in FdCalls
  <2> DEFINE C(o, fd) == [NoArgs EXCEPT !.op = o, !.fd = fd]
  <2>1. FdCalls = {C(o, fd) : o \in {"close", "read"}, fd \in Fds}
    BY DEF FdCalls
  <2>2. \A o \in {"close", "read"}, fd \in Fds :
           C(o, fd).op = o /\ C(o, fd).fd = fd
    BY DEF NoArgs
  <2> HIDE DEF C
  <2> QED BY <1>4, <2>1, <2>2 DEF Ops
<1>5. CASE call \in QuietCalls
  <2> DEFINE C(o, n, x) == [NoArgs EXCEPT !.op = o, !.file = n, !.cloexec = x]
  <2>1. QuietCalls = {C(o, n, x) : o \in {"other", "fcntl"}, n \in Files, x \in BOOLEAN}
    BY DEF QuietCalls
  <2>2. \A o \in {"other", "fcntl"}, n \in Files, x \in BOOLEAN :
           C(o, n, x).op = o
    BY DEF NoArgs
  <2> HIDE DEF C
  <2> QED BY <1>5, <2>1, <2>2 DEF Ops
<1> QED BY <1>1, <1>2, <1>3, <1>4, <1>5 DEF Calls

LEMMA EntryProcs ==
    ASSUME ProcsOK, NEW c \in Cpus, NEW call \in Calls, NEW pid \in Tids \cup {None},
           Entry(c, call, pid)
    PROVE  LET t == cpus[c]
               l == Leader(Named(t, call, pid), t)
           IN /\ ProcsOK'
              /\ t \in DOMAIN procs /\ l \in Tids /\ Follows(Named(t, call, pid), procs)
              /\ \A u, fd : Has(procs', u, fd) =>
                    Has(procs, u, fd) /\ ~(call.op = "dup2" /\ u = l /\ fd = call.new)
              /\ \E fds : CallIn(procs', t) = Request(fds, call)
              /\ \A u : u # t => CallIn(procs', u) \in {CallIn(procs, u), None}
              /\ pid \in {None, t} =>
                    \A u : u # t => CallIn(procs', u) = CallIn(procs, u)
<1> PICK t : t = cpus[c]
  OBVIOUS
<1> PICK g : g = Named(t, call, pid)
  OBVIOUS
<1> PICK l : l = Leader(g, t)
  OBVIOUS
<1> DEFINE fds == IF call.op = "dup2" THEN Drop(g[l].fds, {call.new}) ELSE g[l].fds
           sys == Request(fds, call)
           h == [g EXCEPT ![l].fds = fds]
<1>0. t \in DOMAIN procs /\ IsTable(procs)
  BY DEF Entry, ProcsOK
<1>1. /\ Follows(g, procs) /\ (pid \in {None, t} => SameCalls(g, procs))
      /\ \A u : CallIn(g, u) \in {CallIn(procs, u), None}
  <2>1. Follows(procs, procs) /\ SameCalls(procs, procs)
    BY <1>0 DEF Follows, SameCalls
  <2> QED BY <1>0, <2>1, FixContextParts DEF Named
<1>2. t \in DOMAIN g /\ l \in DOMAIN g /\ IsTable(g) /\ l \in Tids /\ IsProcess(g[l])
  BY <1>0, <1>1 DEF Follows, IsTable, Leader
<1>3. DOMAIN fds \subseteq DOMAIN g[l].fds /\ (call.op = "dup2" => call.new \notin DOMAIN fds)
  BY DEF Drop
<1>5. procs' = [h EXCEPT ![t].sys = sys] /\ cpus' = cpus
  BY DEF Entry, Entered, Named
<1> PICK fds0 : fds0 = fds
  OBVIOUS
<1> PICK sys0 : sys0 = Request(fds0, call)
  OBVIOUS
<1> PICK h0 : h0 = h
  OBVIOUS
<1> HIDE DEF fds, sys, h
<1>6. FdsSet(h0, g, l, fds0)
  <2>1. h0 = [g EXCEPT ![l].fds = fds0]
    BY DEF h
  <2>2. FdsSet([g EXCEPT ![l].fds = fds0], g, l, fds0)
    BY <1>2, ExceptProcess
  <2> QED BY <2>1, <2>2
<1>7. CallSet(procs', h0, t, sys0)
  <2>1. procs' = [h0 EXCEPT ![t].sys = sys0]
    BY <1>5 DEF sys
  <2>2. IsTable(h0) /\ t \in DOMAIN h0
    BY <1>2, <1>6 DEF FdsSet
  <2>3. CallSet([h0 EXCEPT ![t].sys = sys0], h0, t, sys0)
    BY <2>2, ExceptProcess
  <2> QED BY <2>1, <2>3
<1>8. ProcsOK'
  BY <1>1, <1>5, <1>6, <1>7 DEF ProcsOK, Follows, FdsSet, CallSet
<1>9. \A u, fd : Has(procs', u, fd) =>
         Has(procs, u, fd) /\ ~(call.op = "dup2" /\ u = l /\ fd = call.new)
  BY <1>1, <1>2, <1>3, <1>6, <1>7 DEF Follows, Has, FdsSet, CallSet
<1>10. pid \in {None, t} => \A u : u # t => CallIn(procs', u) = CallIn(procs, u)
  BY <1>1, <1>6, <1>7 DEF SameCalls, FdsSet, CallSet
<1>11. CallIn(procs', t) = Request(fds0, call)
  BY <1>7 DEF CallSet
<1>12. \A u : u # t => CallIn(procs', u) \in {CallIn(procs, u), None}
  BY <1>1, <1>6, <1>7 DEF FdsSet, CallSet
<1> QED BY <1>0, <1>1, <1>2, <1>8, <1>9, <1>10, <1>11, <1>12

LEMMA ExitProcs ==
    ASSUME ProcsOK, NEW c \in Cpus, NEW ret, Exit(c, ret)
    PROVE  LET t   == cpus[c]
               sys == procs[t].sys
               l   == Leader(procs, t)
               fd  == ResultFd(sys, ret)
           IN /\ ProcsOK'
              /\ t \in DOMAIN procs /\ l \in DOMAIN procs
              /\ \A u, x : Has(procs', u, x) =>
                    /\ Has(procs, u, x) \/ (Creates(l, sys, ret) /\ u = l /\ x = fd)
                    /\ ~(Closes(sys, ret) /\ u = l /\ x = fd)
              /\ \A u : CallIn(procs', u) = IF u = t THEN None ELSE CallIn(procs, u)
<1> PICK t : t = cpus[c]
  OBVIOUS
<1> PICK sys : sys = procs[t].sys
  OBVIOUS
<1> PICK l : l = Leader(procs, t)
  OBVIOUS
<1> PICK fd : fd = ResultFd(sys, ret)
  OBVIOUS
<1> PICK new : new = IF Creates(l, sys, ret)
                       THEN Put(procs[l].fds, fd, CreatedFd(sys)) ELSE procs[l].fds
  OBVIOUS
<1>8. PICK fds : fds = IF Closes(sys, ret) THEN Drop(new, {fd}) ELSE new
  OBVIOUS
<1>9. PICK h : h = [procs EXCEPT ![l].fds = fds]
  OBVIOUS
<1>0. t \in DOMAIN procs /\ l \in DOMAIN procs /\ IsTable(procs)
  BY DEF Exit, ProcsOK, IsTable, Leader
<1>1. procs' = [h EXCEPT ![t].sys = None] /\ cpus' = cpus
  BY <1>8, <1>9 DEF Exit, Exited
<1>2. \A x \in DOMAIN fds : /\ x \in DOMAIN procs[l].fds \/ (Creates(l, sys, ret) /\ x = fd)
                            /\ ~(Closes(sys, ret) /\ x = fd)
  BY <1>8 DEF Put, Drop
<1>3. FdsSet(h, procs, l, fds)
  BY <1>0, <1>9, ExceptProcess
<1>4. CallSet(procs', h, t, None)
  <2>1. IsTable(h) /\ t \in DOMAIN h
    BY <1>0, <1>3 DEF FdsSet
  <2>2. procs' = [h EXCEPT ![t].sys = None]
    BY <1>1
  <2> QED BY <2>1, <2>2, CallSetGiven
<1>5. ProcsOK'
  BY <1>1, <1>3, <1>4 DEF ProcsOK, FdsSet, CallSet
<1>6. \A u, x : Has(procs', u, x) =>
         /\ Has(procs, u, x) \/ (Creates(l, sys, ret) /\ u = l /\ x = fd)
         /\ ~(Closes(sys, ret) /\ u = l /\ x = fd)
  BY <1>0, <1>2, <1>3, <1>4 DEF FdsSet, CallSet, Has
<1>7. \A u : CallIn(procs', u) = IF u = t THEN None ELSE CallIn(procs, u)
  BY <1>3, <1>4 DEF FdsSet, CallSet
<1> QED BY <1>0, <1>5, <1>6, <1>7

\* A Process is there, perhaps a new one.
Ensured(g, f, t) ==
    /\ IsTable(g) /\ DOMAIN g = DOMAIN f \cup {t}
    /\ \A u, fd : Has(g, u, fd) <=> Has(f, u, fd)
    /\ \A u : CallIn(g, u) = CallIn(f, u)

LEMMA EnsureParts ==
    ASSUME NEW f, IsTable(f), NEW t \in Tids, NEW pid \in {None, t}
    PROVE  Ensured(Ensure(f, t, Process(pid)), f, t)
<1> PICK p : p = Process(pid)
  OBVIOUS
<1> PICK g : g = Ensure(f, t, p)
  OBVIOUS
<1>1. IsProcess(p) /\ p.pid = pid /\ p.sys = None /\ DOMAIN p.fds = {}
  BY NewProcess
<1>2. CASE t \in DOMAIN f
  <2>1. g = f
    BY <1>2 DEF Ensure
  <2> QED BY <1>2, <2>1 DEF Ensured
<1>3. CASE t \notin DOMAIN f
  <2>1. g = Put(f, t, p)
    BY <1>3 DEF Ensure
  <2>2. /\ DOMAIN g = DOMAIN f \cup {t} /\ g[t] = p
        /\ \A x \in DOMAIN f : g[x] = f[x]
    BY <1>3, <2>1 DEF Put
  <2>3. IsTable(g)
    BY <1>1, <2>1, PutProcess
  <2>4. \A u, fd : Has(g, u, fd) <=> Has(f, u, fd)
    BY <1>1, <1>3, <2>2 DEF Has
  <2>5. \A u : CallIn(g, u) = CallIn(f, u)
    <3> TAKE u
    <3>1. CASE u = t
      BY <1>1, <1>3, <2>2, <3>1 DEF CallIn
    <3>2. CASE u # t
      BY <2>2, <3>2 DEF CallIn
    <3> QED BY <3>1, <3>2
  <2> QED BY <2>2, <2>3, <2>4, <2>5 DEF Ensured
<1> QED BY <1>2, <1>3

\* A switch makes Process objects.
LEMMA SwitchProcs ==
    ASSUME ProcsOK, NEW c \in Cpus, NEW prev \in Tids \cup {None},
           NEW next \in Tids \cup {None}, Switch(c, prev, next)
    PROVE  /\ ProcsOK'
           /\ \A u, fd : Has(procs', u, fd) <=> Has(procs, u, fd)
           /\ \A u : CallIn(procs', u) = CallIn(procs, u)
<1> PICK p : p = Process(None)
  OBVIOUS
<1>1. IsProcess(p) /\ p.pid = None /\ p.sys = None /\ DOMAIN p.fds = {}
  BY NewProcess
<1>2. /\ procs' = [t \in DOMAIN procs \cup ({prev, next} \ {None}) |->
                     IF t \in DOMAIN procs THEN procs[t] ELSE p]
      /\ cpus' = [cpus EXCEPT ![c] = next]
  BY DEF Switch
<1>3. /\ DOMAIN procs' = DOMAIN procs \cup ({prev, next} \ {None})
      /\ procs' = [t \in DOMAIN procs' |-> procs'[t]]
      /\ \A t \in DOMAIN procs' :
            procs'[t] = IF t \in DOMAIN procs THEN procs[t] ELSE p
  BY <1>2
<1>4. IsTable(procs')
  <2>1. DOMAIN procs' \subseteq Tids
    BY <1>3 DEF ProcsOK, IsTable
  <2>2. ASSUME NEW t \in DOMAIN procs'
        PROVE  IsProcess(procs'[t]) /\ (procs'[t].pid # None => procs'[t].pid \in DOMAIN procs')
    <3>1. CASE t \in DOMAIN procs
      BY <1>3, <3>1 DEF ProcsOK, IsTable
    <3>2. CASE t \notin DOMAIN procs
      BY <1>1, <1>3, <3>2
    <3> QED BY <3>1, <3>2
  <2> QED BY <1>3, <2>1, <2>2 DEF IsTable
<1>5. cpus' = [x \in Cpus |-> cpus'[x]]
      /\ \A x \in Cpus : cpus'[x] # None => cpus'[x] \in DOMAIN procs'
  BY <1>2, <1>3 DEF ProcsOK
<1>6. \A u, fd : Has(procs', u, fd) <=> Has(procs, u, fd)
  BY <1>1, <1>3 DEF Has
<1>7. \A u : CallIn(procs', u) = CallIn(procs, u)
  <2> TAKE u
  <2>1. CASE u \in DOMAIN procs
    BY <1>3, <2>1 DEF CallIn
  <2>2. CASE u \notin DOMAIN procs
    BY <1>1, <1>3, <2>2 DEF CallIn
  <2> QED BY <2>1, <2>2
<1> QED BY <1>4, <1>5, <1>6, <1>7 DEF ProcsOK

\* The leader of a thread is set.
PidSet(g, f) ==
    /\ IsTable(g) /\ DOMAIN g = DOMAIN f
    /\ \A u, fd : Has(g, u, fd) <=> Has(f, u, fd)
    /\ \A u : CallIn(g, u) = CallIn(f, u)

LEMMA ExceptPid ==
    ASSUME NEW f, IsTable(f), NEW t \in DOMAIN f, NEW pid \in DOMAIN f
    PROVE  PidSet([f EXCEPT ![t].pid = pid], f)
<1> PICK r : r = f[t]
  OBVIOUS
<1> PICK p : p = [r EXCEPT !.pid = pid]
  OBVIOUS
<1> PICK g : g = [f EXCEPT ![t].pid = pid]
  OBVIOUS
<1>1. IsProcess(p) /\ p.pid = pid /\ p.fds = r.fds /\ p.sys = r.sys
  <2>1. IsProcess(r) /\ pid \in Tids
    BY DEF IsTable
  <2> QED BY <2>1 DEF IsProcess
<1>2. g = Put(f, t, p) /\ t \in Tids
  BY DEF Put, IsTable
<1>3. IsTable(g)
  <2>1. IsTable(Put(f, t, p))
    BY <1>1, <1>2, PutProcess
  <2> QED BY <1>2, <2>1
<1>4. DOMAIN g = DOMAIN f /\ g[t] = p /\ \A x \in DOMAIN f : x # t => g[x] = f[x]
  BY <1>2 DEF Put
<1>5. \A u, fd : Has(g, u, fd) <=> Has(f, u, fd)
  BY <1>1, <1>4 DEF Has
<1>6. \A u : CallIn(g, u) = CallIn(f, u)
  BY <1>1, <1>4 DEF CallIn
<1> QED BY <1>3, <1>4, <1>5, <1>6 DEF PidSet

\* The child has the descriptors of the process, and is in no call.
LEMMA ForkProcs ==
    ASSUME ProcsOK, NEW child \in Tids, NEW parent \in Tids, NEW pid \in {child, parent},
           Fork(child, pid, parent)
    PROVE  /\ ProcsOK' /\ child \in DOMAIN procs'
           /\ \A u, fd : Has(procs', u, fd) <=>
                 IF u = child THEN Has(procs, parent, fd) ELSE Has(procs, u, fd)
           /\ \A u : CallIn(procs', u) = IF u = child THEN None ELSE CallIn(procs, u)
<1> PICK e : e = Ensure(procs, parent, Process(parent))
  OBVIOUS
<1> PICK g : g = [e EXCEPT ![parent].pid = parent]
  OBVIOUS
<1> PICK p : p = [Process(pid) EXCEPT !.fds = g[parent].fds]
  OBVIOUS
<1>1. procs' = Put(g, child, p) /\ cpus' = cpus
  BY DEF Fork, Forked
<1>2. Ensured(e, procs, parent)
  BY EnsureParts DEF ProcsOK
<1>3. PidSet(g, e)
  BY <1>2, ExceptPid DEF Ensured
<1>4. IsProcess(p) /\ p.pid = pid /\ p.sys = None /\ p.fds = g[parent].fds
  <2> PICK q : q = Process(pid)
    OBVIOUS
  <2>1. IsProcess(q) /\ q.pid = pid /\ q.sys = None
    BY NewProcess
  <2>2. p = [q EXCEPT !.fds = g[parent].fds]
    OBVIOUS
  <2> QED BY <2>1, <2>2 DEF IsProcess
<1>5. /\ DOMAIN procs' = DOMAIN procs \cup {parent, child} /\ procs'[child] = p
      /\ parent \in DOMAIN g /\ IsTable(procs')
      /\ \A x \in DOMAIN g : x # child => procs'[x] = g[x]
  <2>1. parent \in DOMAIN g /\ IsTable(g) /\ DOMAIN g = DOMAIN procs \cup {parent}
    BY <1>2, <1>3 DEF Ensured, PidSet
  <2>2. /\ DOMAIN procs' = DOMAIN g \cup {child} /\ procs'[child] = p
        /\ \A x \in DOMAIN g : x # child => procs'[x] = g[x]
    BY <1>1 DEF Put
  <2>3. IsTable(Put(g, child, p))
    BY <1>4, <2>1, PutProcess
  <2> QED BY <1>1, <2>1, <2>2, <2>3
<1>6. ProcsOK'
  BY <1>1, <1>5 DEF ProcsOK
<1>7. DOMAIN procs' = DOMAIN g \cup {child}
  BY <1>2, <1>3, <1>5 DEF Ensured, PidSet
<1>8. \A u, fd : Has(procs', u, fd) <=> IF u = child THEN Has(g, parent, fd) ELSE Has(g, u, fd)
  BY <1>4, <1>5, <1>7 DEF Has
<1>9. \A u : CallIn(procs', u) = IF u = child THEN None ELSE CallIn(g, u)
  BY <1>4, <1>5, <1>7 DEF CallIn
<1> QED BY <1>2, <1>3, <1>6, <1>7, <1>8, <1>9 DEF Ensured, PidSet

LEMMA ExecProcs ==
    ASSUME ProcsOK, NEW t \in Tids, Exec(t)
    PROVE  /\ ProcsOK'
           /\ \A u, fd : Has(procs', u, fd) =>
                 Has(procs, u, fd) /\ ~(u = t /\ fd \in CloseOnExec(t))
           /\ \A u : CallIn(procs', u) = CallIn(procs, u)
<1> PICK e : e = Ensure(procs, t, Process(None))
  OBVIOUS
<1> PICK fds : fds = Drop(e[t].fds, CloseOnExec(t))
  OBVIOUS
<1>1. Ensured(e, procs, t)
  BY EnsureParts DEF ProcsOK
<1>2. FdsSet(procs', e, t, fds) /\ cpus' = cpus
  <2>1. procs' = [e EXCEPT ![t].fds = fds] /\ cpus' = cpus
    BY DEF Exec
  <2>2. t \in DOMAIN e /\ IsTable(e)
    BY <1>1 DEF Ensured
  <2>3. FdsSet([e EXCEPT ![t].fds = fds], e, t, fds)
    BY <2>2, ExceptProcess
  <2> QED BY <2>1, <2>3
<1>3. DOMAIN fds = DOMAIN e[t].fds \ CloseOnExec(t)
  BY DEF Drop
<1>4. \A u, fd : Has(procs', u, fd) => Has(e, u, fd) /\ ~(u = t /\ fd \in CloseOnExec(t))
  BY <1>1, <1>2, <1>3 DEF FdsSet, Ensured, Has
<1>5. ProcsOK'
  BY <1>1, <1>2 DEF ProcsOK, FdsSet, Ensured
<1> QED BY <1>1, <1>2, <1>4, <1>5 DEF FdsSet, Ensured

LEMMA StatedumpFdProcs ==
    ASSUME ProcsOK, NEW t \in Tids, NEW fd, NEW name, NEW cloexec,
           StatedumpFd(t, fd, name, cloexec)
    PROVE  /\ ProcsOK'
           /\ \A u, x : Has(procs', u, x) <=> Has(procs, u, x) \/ (u = t /\ x = fd)
           /\ \A u : CallIn(procs', u) = CallIn(procs, u)
<1> PICK e : e = Ensure(procs, t, Process(t))
  OBVIOUS
<1> PICK new : new = FD(name, IF fd \in DOMAIN e[t].fds THEN e[t].fds[fd].cloexec ELSE cloexec)
  OBVIOUS
<1> PICK fds : fds = Put(e[t].fds, fd, new)
  OBVIOUS
<1>1. Ensured(e, procs, t)
  BY EnsureParts DEF ProcsOK
<1>2. FdsSet(procs', e, t, fds) /\ cpus' = cpus
  <2>1. procs' = [e EXCEPT ![t].fds = fds] /\ cpus' = cpus
    BY DEF StatedumpFd
  <2>2. t \in DOMAIN e /\ IsTable(e)
    BY <1>1 DEF Ensured
  <2>3. FdsSet([e EXCEPT ![t].fds = fds], e, t, fds)
    BY <2>2, ExceptProcess
  <2> QED BY <2>1, <2>3
<1>3. DOMAIN fds = DOMAIN e[t].fds \cup {fd}
  BY DEF Put
<1>4. \A u, x : Has(procs', u, x) <=> Has(e, u, x) \/ (u = t /\ x = fd)
  <2>1. t \in DOMAIN e
    BY <1>1 DEF Ensured
  <2> QED BY <1>2, <1>3, <2>1 DEF FdsSet, Has
<1>5. ProcsOK'
  BY <1>1, <1>2 DEF ProcsOK, FdsSet, Ensured
<1> QED BY <1>1, <1>2, <1>4, <1>5 DEF FdsSet, Ensured

LEMMA ConnectProcs ==
    ASSUME ProcsOK, NEW c \in Cpus, NEW fd, NEW address, Connect(c, fd, address)
    PROVE  /\ ProcsOK' /\ cpus[c] \in DOMAIN procs
           /\ \A u, x : Has(procs', u, x) <=> Has(procs, u, x)
           /\ \A u : CallIn(procs', u) = IF u = cpus[c] THEN Request(NoFds, NoArgs)
                                                        ELSE CallIn(procs, u)
<1> PICK t : t = cpus[c]
  OBVIOUS
<1> PICK l : l = Leader(procs, t)
  OBVIOUS
<1> PICK old : old = procs[l].fds
  OBVIOUS
<1> PICK fds : fds = Put(old, fd, FD(address, old[fd].cloexec))
  OBVIOUS
<1> PICK sys : sys = Request(NoFds, NoArgs)
  OBVIOUS
<1> PICK h : h = IF fd \in DOMAIN old THEN [procs EXCEPT ![l].fds = fds] ELSE procs
  OBVIOUS
<1>1. t \in DOMAIN procs /\ l \in DOMAIN procs /\ IsTable(procs)
  BY DEF Connect, ProcsOK, IsTable, Leader
<1>2. procs' = [h EXCEPT ![t].sys = sys] /\ cpus' = cpus
  BY DEF Connect, Connected
<1>3. /\ IsTable(h) /\ DOMAIN h = DOMAIN procs
      /\ \A u, x : Has(h, u, x) <=> Has(procs, u, x)
      /\ \A u : CallIn(h, u) = CallIn(procs, u)
  <2>1. CASE fd \in DOMAIN old
    <3>1. FdsSet([procs EXCEPT ![l].fds = fds], procs, l, fds)
      BY <1>1, ExceptProcess
    <3>2. FdsSet(h, procs, l, fds) /\ DOMAIN fds = DOMAIN old
      BY <2>1, <3>1 DEF Put
    <3> QED BY <1>1, <3>2 DEF FdsSet, Has
  <2>2. CASE fd \notin DOMAIN old
    BY <1>1, <2>2
  <2> QED BY <2>1, <2>2
<1>4. CallSet(procs', h, t, sys)
  <2>1. CallSet([h EXCEPT ![t].sys = sys], h, t, sys)
    BY <1>1, <1>3, ExceptProcess
  <2> QED BY <1>2, <2>1
<1>5. ProcsOK'
  BY <1>2, <1>3, <1>4 DEF ProcsOK, CallSet
<1> QED BY <1>1, <1>3, <1>4, <1>5 DEF CallSet

\* The descriptors of a thread go to its leader.
LEMMA DumpProcs ==
    ASSUME ProcsOK, NEW t \in Tids, NEW pid \in Tids, StatedumpProcess(t, pid)
    PROVE  /\ ProcsOK'
           /\ \A u, fd : Has(procs', u, fd) <=>
                 IF pid # t /\ u = t THEN FALSE
                 ELSE Has(procs, u, fd) \/ (u = pid /\ Has(procs, t, fd))
           /\ \A u : CallIn(procs', u) = CallIn(procs, u)
<1> PICK e : e = Ensure(procs, t, Process(None))
  OBVIOUS
<1> PICK d : d = Ensure(e, pid, Process(pid))
  OBVIOUS
<1> PICK g : g = [d EXCEPT ![t].pid = pid]
  OBVIOUS
<1>1. Ensured(e, procs, t)
  BY EnsureParts DEF ProcsOK
<1>2. Ensured(d, e, pid)
  BY <1>1, EnsureParts DEF Ensured
<1>3. t \in DOMAIN d /\ pid \in DOMAIN d /\ IsTable(d)
  BY <1>1, <1>2 DEF Ensured
<1>4. PidSet(g, d)
  BY <1>3, ExceptPid
<1>5. g = Ensure([e EXCEPT ![t].pid = pid], pid, Process(pid))
  <2>1. t \in DOMAIN e /\ e = [x \in DOMAIN e |-> e[x]]
    BY <1>1 DEF Ensured, IsTable
  <2>2. CASE pid \in DOMAIN e
    BY <2>1, <2>2 DEF Ensure
  <2>3. CASE pid \notin DOMAIN e
    <3> PICK p : p = Process(pid)
      OBVIOUS
    <3>1. d = Put(e, pid, p)
      BY <2>3 DEF Ensure
    <3>2. [Put(e, pid, p) EXCEPT ![t].pid = pid] = Put([e EXCEPT ![t].pid = pid], pid, p)
      BY <2>1, <2>3 DEF Put
    <3> QED BY <2>3, <3>1, <3>2 DEF Ensure
  <2> QED BY <2>2, <2>3
<1>6. /\ IsTable(g) /\ t \in DOMAIN g /\ pid \in DOMAIN g
      /\ DOMAIN procs \subseteq DOMAIN g
      /\ \A u, fd : Has(g, u, fd) <=> Has(procs, u, fd)
      /\ \A u : CallIn(g, u) = CallIn(procs, u)
  BY <1>1, <1>2, <1>3, <1>4 DEF Ensured, PidSet
<1>7. cpus' = cpus
  BY DEF StatedumpProcess
<1>8. CASE pid = t
  <2>1. procs' = g
    BY <1>5, <1>8 DEF StatedumpProcess, Dumped
  <2>2. ProcsOK'
    BY <1>6, <1>7, <2>1 DEF ProcsOK
  <2> QED BY <1>6, <1>8, <2>1, <2>2
<1>9. CASE pid # t
  <2>10. PICK own : own = g[t].fds
    OBVIOUS
  <2>11. PICK lead : lead = g[pid].fds
    OBVIOUS
  <2>12. PICK fds : fds = [fd \in DOMAIN lead \cup DOMAIN own |->
                          IF fd \in DOMAIN lead THEN lead[fd] ELSE own[fd]]
    OBVIOUS
  <2>13. PICK h : h = [g EXCEPT ![pid].fds = fds]
    OBVIOUS
  <2>1. procs' = [h EXCEPT ![t].fds = NoFds]
    BY <1>5, <1>9, <2>10, <2>11, <2>12, <2>13 DEF StatedumpProcess, Dumped
  <2>2. FdsSet(h, g, pid, fds)
    <3>1. FdsSet([g EXCEPT ![pid].fds = fds], g, pid, fds)
      BY <1>6, ExceptProcess
    <3> QED BY <2>13, <3>1
  <2>14. PICK none : none = NoFds
    OBVIOUS
  <2>3. FdsSet(procs', h, t, none)
    <3>1. IsTable(h) /\ t \in DOMAIN h
      BY <1>6, <2>2 DEF FdsSet
    <3>2. FdsSet([h EXCEPT ![t].fds = none], h, t, none)
      BY <3>1, ExceptProcess
    <3> QED BY <2>1, <2>14, <3>2
  <2>4. DOMAIN fds = DOMAIN lead \cup DOMAIN own /\ DOMAIN none = {}
    BY <2>12, <2>14 DEF NoFds
  <2>5. \A u, fd : Has(h, u, fd) <=> Has(g, u, fd) \/ (u = pid /\ Has(g, t, fd))
    <3>1. \A fd : (fd \in DOMAIN lead <=> Has(g, pid, fd)) /\ (fd \in DOMAIN own <=> Has(g, t, fd))
      BY <1>6, <2>10, <2>11 DEF Has
    <3> TAKE u, fd
    <3>2. Has(h, u, fd) <=> IF u = pid THEN fd \in DOMAIN fds ELSE Has(g, u, fd)
      BY <2>2 DEF FdsSet
    <3>3. fd \in DOMAIN fds <=> Has(g, pid, fd) \/ Has(g, t, fd)
      BY <2>4, <3>1
    <3> QED BY <3>2, <3>3
  <2>6. \A u, fd : Has(procs', u, fd) <=> IF u = t THEN FALSE ELSE Has(h, u, fd)
    BY <2>3, <2>4 DEF FdsSet
  <2>7. ProcsOK'
    BY <1>6, <1>7, <2>2, <2>3 DEF ProcsOK, FdsSet
  <2> QED BY <1>6, <1>9, <2>2, <2>3, <2>5, <2>6, <2>7 DEF FdsSet
<1> QED BY <1>8, <1>9

-----------------------------------------------------------------------------
(* The statistics of the descriptors.                                      *)

FdSpan == [open : Nat, close : Nat \cup {None}, bytes : Nat]

\* A set of its own: the axioms of Seq in the context make the provers miss the
\* sums.
FdLists == Seq(FdSpan)

IsProcStats(r) ==
    /\ r = [bytes |-> r.bytes, fds |-> r.fds] /\ r.bytes \in Nat
    /\ r.fds = [fd \in DOMAIN r.fds |-> r.fds[fd]] /\ DOMAIN r.fds \subseteq Fds
    /\ \A fd \in DOMAIN r.fds : r.fds[fd] \in FdLists

IsStats(s) ==
    /\ s = [t \in DOMAIN s |-> s[t]] /\ DOMAIN s \subseteq Tids /\ IsFiniteSet(DOMAIN s)
    /\ \A t \in DOMAIN s : IsProcStats(s[t])

\* The bytes of a thread that did not go through its own descriptors, and of
\* all threads.
InFds(fds) == SumFunction([fd \in DOMAIN fds |-> Bytes(fds[fd])])
Excess(r)  == r.bytes - InFds(r.fds)
Balance(s) == SumFunction([t \in DOMAIN s |-> Excess(s[t])])

LEMMA BytesParts ==
    ASSUME NEW list \in FdLists
    PROVE  Bytes(list) \in Nat /\ Bytes(<< >>) = 0
<1> DEFINE f == [i \in DOMAIN list |-> list[i].bytes]
<1>1. DOMAIN list = 1 .. Len(list) /\ Len(list) \in Nat /\ \A i \in DOMAIN list : list[i] \in FdSpan
  BY DEF FdLists
<1>2. IsFiniteSet(DOMAIN list)
  BY <1>1, FS_Interval
<1>3. \A i \in DOMAIN list : f[i] \in Nat
  BY <1>1 DEF FdSpan
<1>4. SumFunctionOnSet(f, DOMAIN list) \in Nat
  BY <1>2, <1>3, SumNat
<1>5. Bytes(<< >>) = 0
  <2> DEFINE e == [i \in DOMAIN << >> |-> << >>[i].bytes]
  <2>1. DOMAIN e = {}
    OBVIOUS
  <2> HIDE DEF e
  <2>2. SumFunction(e) = 0
    BY <2>1, SumEmpty DEF SumFunction
  <2> QED BY <2>2 DEF Bytes, e
<1> QED BY <1>4, <1>5 DEF Bytes, SumFunction

LEMMA BytesNone == Bytes(<< >>) = 0
<1>1. << >> \in FdLists
  BY DEF FdLists
<1> QED BY <1>1, BytesParts

\* One more, opened now.
LEMMA BytesAppend ==
    ASSUME NEW list \in FdLists, NEW ts \in Nat
    PROVE  /\ Append(list, FDStats(ts)) \in FdLists
           /\ Bytes(Append(list, FDStats(ts))) = Bytes(list)
           /\ IsOpen(Append(list, FDStats(ts)))
<1>1. PICK x : x = FDStats(ts)
  OBVIOUS
<1>2. x \in FdSpan /\ x.bytes = 0 /\ x.close = None
  BY <1>1 DEF FDStats, FdSpan
<1>3. PICK r : r = Append(list, x)
  OBVIOUS
<1>4. /\ r \in Seq(FdSpan) /\ Len(list) \in Nat /\ DOMAIN list = 1 .. Len(list)
      /\ DOMAIN r = 1 .. Len(list) + 1 /\ Len(r) = Len(list) + 1 /\ r[Len(list) + 1] = x
      /\ \A i \in 1 .. Len(list) : r[i] = list[i] /\ list[i] \in FdSpan
  BY <1>2, <1>3 DEF FdLists
<1> DEFINE f == [i \in DOMAIN list |-> list[i].bytes]
           g == [i \in DOMAIN r |-> r[i].bytes]
           n == Len(list) + 1
<1>5. SumFunction(g) = SumFunction(f)
  <2>1. /\ DOMAIN f = 1 .. Len(list) /\ DOMAIN g = DOMAIN f \cup {n} /\ n \notin DOMAIN f
        /\ g[n] = 0
    BY <1>2, <1>4
  <2>2. \A i \in DOMAIN f : f[i] \in Int /\ g[i] = f[i]
    BY <1>4 DEF FdSpan
  <2>3. IsFiniteSet(DOMAIN f)
    BY <1>4, <2>1, FS_Interval
  <2> HIDE DEF f, g, n
  <2>4. SumFunction(g) = SumFunction(f) + g[n]
    BY <2>1, <2>2, <2>3, SumMore
  <2>5. SumFunctionOnSet(f, DOMAIN f) \in Int
    BY <2>2, <2>3, SumInt
  <2> QED BY <2>1, <2>4, <2>5 DEF SumFunction
<1>6. IsOpen(r)
  BY <1>2, <1>4 DEF IsOpen
<1> QED BY <1>1, <1>3, <1>4, <1>5, <1>6 DEF Bytes, FdLists

\* The last one is closed, or more bytes go through it.
LEMMA BytesLast ==
    ASSUME NEW list \in FdLists, list # << >>, NEW ts \in Nat, NEW ret \in Nat
    PROVE  /\ [list EXCEPT ![Len(list)].close = ts] \in FdLists
           /\ Bytes([list EXCEPT ![Len(list)].close = ts]) = Bytes(list)
           /\ [list EXCEPT ![Len(list)].bytes = @ + ret] \in FdLists
           /\ Bytes([list EXCEPT ![Len(list)].bytes = @ + ret]) = Bytes(list) + ret
           /\ IsOpen([list EXCEPT ![Len(list)].bytes = @ + ret]) <=> IsOpen(list)
<1>1. PICK n : n = Len(list)
  OBVIOUS
<1>2. PICK x : x = list[n]
  OBVIOUS
<1>3. PICK y : y = [x EXCEPT !.close = ts]
  OBVIOUS
<1>4. PICK z : z = [x EXCEPT !.bytes = @ + ret]
  OBVIOUS
<1>5. n \in Nat /\ n \in 1 .. n /\ DOMAIN list = 1 .. n /\ \A i \in 1 .. n : list[i] \in FdSpan
  BY <1>1 DEF FdLists
<1>6. /\ x \in FdSpan /\ y \in FdSpan /\ z \in FdSpan
      /\ y.bytes = x.bytes /\ z.bytes = x.bytes + ret /\ z.close = x.close
  BY <1>2, <1>3, <1>4, <1>5 DEF FdSpan
<1>7. PICK r : r = [list EXCEPT ![n].close = ts]
  OBVIOUS
<1>8. PICK s : s = [list EXCEPT ![n].bytes = @ + ret]
  OBVIOUS
<1>9. /\ r \in Seq(FdSpan) /\ DOMAIN r = 1 .. n /\ Len(r) = n
      /\ s \in Seq(FdSpan) /\ DOMAIN s = 1 .. n /\ Len(s) = n
      /\ \A i \in 1 .. n : /\ r[i] = IF i = n THEN y ELSE list[i]
                           /\ s[i] = IF i = n THEN z ELSE list[i]
  <2>1. /\ r = [i \in 1 .. n |-> IF i = n THEN y ELSE list[i]]
        /\ s = [i \in 1 .. n |-> IF i = n THEN z ELSE list[i]]
    BY <1>2, <1>3, <1>4, <1>5, <1>7, <1>8
  <2>2. r \in [1 .. n -> FdSpan] /\ s \in [1 .. n -> FdSpan]
    BY <1>5, <1>6, <2>1
  <2> QED BY <1>5, <2>1, <2>2
<1> DEFINE e == [i \in DOMAIN list |-> list[i].bytes]
           f == [i \in DOMAIN r |-> r[i].bytes]
           g == [i \in DOMAIN s |-> s[i].bytes]
<1>10. SumFunction(f) = SumFunction(e) /\ SumFunction(g) = SumFunction(e) + ret
  <2>1. DOMAIN e = 1 .. n /\ DOMAIN f = 1 .. n /\ DOMAIN g = 1 .. n
    BY <1>5, <1>9
  <2>2. \A i \in 1 .. n : e[i] \in Int
    BY <1>5 DEF FdSpan
  <2>3. \A i \in 1 .. n : /\ f[i] = e[i]
                          /\ g[i] = IF i = n THEN e[i] + ret ELSE e[i]
    BY <1>2, <1>5, <1>6, <1>9
  <2>4. IsFiniteSet(1 .. n)
    BY <1>5, FS_Interval
  <2> HIDE DEF e, f, g
  <2>5. SumFunctionOnSet(f, 1 .. n) = SumFunctionOnSet(e, 1 .. n)
    BY <2>3, <2>4, SumSame
  <2>6. SumFunctionOnSet(g, 1 .. n) = SumFunctionOnSet(e, 1 .. n) + (g[n] - e[n])
    <3>1. /\ \A i \in 1 .. n : e[i] \in Int /\ g[i] \in Int
          /\ \A i \in (1 .. n) \ {n} : g[i] = e[i]
      BY <2>2, <2>3
    <3> QED BY <1>5, <2>4, <3>1, SumChange
  <2>7. g[n] - e[n] = ret
    BY <1>5, <2>2, <2>3
  <2> QED BY <2>1, <2>5, <2>6, <2>7 DEF SumFunction
<1>11. IsOpen(s) <=> IsOpen(list)
  <2>1. s # << >> /\ s[Len(s)].close = list[Len(list)].close
    BY <1>1, <1>2, <1>5, <1>6, <1>9
  <2> QED BY <2>1 DEF IsOpen
<1> HIDE DEF e, f, g
<1>12. Bytes(r) = Bytes(list) /\ Bytes(s) = Bytes(list) + ret
  BY <1>10 DEF Bytes, e, f, g
<1> QED BY <1>1, <1>7, <1>8, <1>9, <1>11, <1>12 DEF FdLists

\* The sums are numbers.
LEMMA ExcessInt ==
    ASSUME NEW r, IsProcStats(r)
    PROVE  InFds(r.fds) \in Int /\ Excess(r) \in Int
<1> DEFINE f == [fd \in DOMAIN r.fds |-> Bytes(r.fds[fd])]
<1>1. IsFiniteSet(DOMAIN r.fds)
  <2>1. IsFiniteSet(Fds)
    BY MaxFdAssumption, FS_Interval DEF Fds
  <2> QED BY <2>1, FS_Subset DEF IsProcStats
<1>2. \A fd \in DOMAIN r.fds : f[fd] \in Int
  BY BytesParts DEF IsProcStats
<1>3. SumFunctionOnSet(f, DOMAIN r.fds) \in Int
  BY <1>1, <1>2, SumInt
<1>4. InFds(r.fds) \in Int
  BY <1>3 DEF InFds, SumFunction
<1> QED BY <1>4 DEF Excess, IsProcStats

LEMMA BalanceInt ==
    ASSUME NEW s, IsStats(s) PROVE Balance(s) \in Int
<1> DEFINE f == [t \in DOMAIN s |-> Excess(s[t])]
<1>1. \A t \in DOMAIN s : f[t] \in Int
  BY ExcessInt DEF IsStats
<1>2. SumFunctionOnSet(f, DOMAIN s) \in Int
  BY <1>1, SumInt DEF IsStats
<1> QED BY <1>2 DEF Balance, SumFunction

\* The statistics of one thread are replaced.
StatsPut(g, s, t, r) ==
    /\ IsStats(g) /\ DOMAIN g = DOMAIN s \cup {t} /\ g[t] = r
    /\ \A u \in DOMAIN s : u # t => g[u] = s[u]
    /\ Balance(g) = Balance(s) + Excess(r) - (IF t \in DOMAIN s THEN Excess(s[t]) ELSE 0)

LEMMA PutStats ==
    ASSUME NEW s, IsStats(s), NEW t \in Tids, NEW r, IsProcStats(r)
    PROVE  StatsPut(Put(s, t, r), s, t, r)
<1>0. PICK g : g = Put(s, t, r)
  OBVIOUS
<1>1. /\ DOMAIN g = DOMAIN s \cup {t} /\ g[t] = r /\ g = [u \in DOMAIN g |-> g[u]]
      /\ \A u \in DOMAIN s : u # t => g[u] = s[u]
  BY <1>0 DEF Put
<1>2. IsStats(g)
  <2>1. IsFiniteSet(DOMAIN g)
    BY <1>1, FS_AddElement DEF IsStats
  <2> QED BY <1>1, <2>1 DEF IsStats
<1> DEFINE e == [u \in DOMAIN s |-> Excess(s[u])]
           f == [u \in DOMAIN g |-> Excess(g[u])]
<1>3. SumFunction(f) = SumFunction(e) + f[t] - (IF t \in DOMAIN e THEN e[t] ELSE 0)
  <2>1. /\ DOMAIN e = DOMAIN s /\ DOMAIN f = DOMAIN e \cup {t} /\ IsFiniteSet(DOMAIN e)
        /\ \A u \in DOMAIN e : e[u] \in Int
        /\ f[t] \in Int
        /\ \A u \in DOMAIN e \ {t} : f[u] = e[u]
    BY <1>1, ExcessInt DEF IsStats
  <2> HIDE DEF e, f
  <2> QED BY <2>1, SumPut
<1>4. Balance(g) = Balance(s) + Excess(r) - (IF t \in DOMAIN s THEN Excess(s[t]) ELSE 0)
  BY <1>1, <1>3 DEF Balance
<1> QED BY <1>0, <1>1, <1>2, <1>4 DEF StatsPut

\* A thread without statistics gets empty ones.
LEMMA NewStatsParts ==
    /\ IsProcStats(NewStats) /\ Excess(NewStats) = 0
    /\ DOMAIN NewStats.fds = {} /\ InFds(NewStats.fds) = 0
<1> DEFINE f == [fd \in DOMAIN NewStats.fds |-> Bytes(NewStats.fds[fd])]
<1>1. IsProcStats(NewStats) /\ DOMAIN NewStats.fds = {} /\ NewStats.bytes = 0
  BY DEF NewStats, IsProcStats
<1>2. SumFunction(f) = 0
  <2>1. DOMAIN f = {}
    BY <1>1
  <2> HIDE DEF f
  <2> QED BY <2>1, SumEmpty DEF SumFunction
<1>3. InFds(NewStats.fds) = 0
  BY <1>2 DEF InFds
<1> QED BY <1>1, <1>3 DEF Excess

\* At most empty statistics are added.
Grown(g, s) ==
    /\ IsStats(g) /\ DOMAIN s \subseteq DOMAIN g
    /\ Balance(g) = Balance(s)
    /\ \A u, fd : ListOf(g, u, fd) = ListOf(s, u, fd)

LEMMA EnsureStats ==
    ASSUME NEW s, IsStats(s), NEW t \in Tids
    PROVE  /\ Grown(Ensure(s, t, NewStats), s)
           /\ DOMAIN Ensure(s, t, NewStats) = DOMAIN s \cup {t}
           /\ \A u \in DOMAIN s : Ensure(s, t, NewStats)[u] = s[u]
           /\ t \notin DOMAIN s => Ensure(s, t, NewStats)[t] = NewStats
<1>0. PICK new : new = NewStats
  OBVIOUS
<1>1. PICK g : g = Ensure(s, t, new)
  OBVIOUS
<1>2. CASE t \in DOMAIN s
  <2>1. g = s
    BY <1>1, <1>2 DEF Ensure
  <2>2. Grown(s, s)
    BY DEF Grown
  <2> QED BY <1>0, <1>1, <1>2, <2>1, <2>2
<1>3. CASE t \notin DOMAIN s
  <2>1. g = Put(s, t, new)
    BY <1>1, <1>3 DEF Ensure
  <2>2. IsProcStats(new) /\ Excess(new) = 0 /\ DOMAIN new.fds = {}
    BY <1>0, NewStatsParts
  <2>3. StatsPut(g, s, t, new)
    BY <2>1, <2>2, PutStats
  <2>4. \A u, fd : ListOf(g, u, fd) = ListOf(s, u, fd)
    <3> TAKE u, fd
    <3>1. CASE u = t
      BY <1>3, <2>2, <2>3, <3>1 DEF StatsPut, ListOf
    <3>2. CASE u # t
      BY <2>3, <3>2 DEF StatsPut, ListOf
    <3> QED BY <3>1, <3>2
  <2>5. Balance(g) = Balance(s)
    BY <1>3, <2>2, <2>3, BalanceInt DEF StatsPut
  <2> QED BY <1>0, <1>1, <1>3, <2>3, <2>4, <2>5 DEF StatsPut, Grown
<1> QED BY <1>2, <1>3

\* One list of a thread is replaced.
ListPut(g, s, t, fd, list) ==
    /\ IsStats(g) /\ DOMAIN g = DOMAIN s \cup {t}
    /\ fd \in DOMAIN g[t].fds /\ g[t].fds[fd] = list
    /\ \A u, x : ListOf(g, u, x) = IF u = t /\ x = fd THEN list ELSE ListOf(s, u, x)
    /\ Balance(g) = Balance(s) + Bytes(ListOf(s, t, fd)) - Bytes(list)

LEMMA ListIn ==
    ASSUME NEW s, IsStats(s), NEW t, NEW fd
    PROVE  ListOf(s, t, fd) \in FdLists /\ (HasFd(s, t, fd) <=> IsOpen(ListOf(s, t, fd)))
<1>1. << >> \in FdLists /\ ~IsOpen(<< >>)
  BY DEF IsOpen, FdLists
<1>2. CASE t \in DOMAIN s /\ fd \in DOMAIN s[t].fds
  <2>1. ListOf(s, t, fd) = s[t].fds[fd] /\ s[t].fds[fd] \in FdLists
    BY <1>2 DEF IsStats, IsProcStats, ListOf
  <2> QED BY <1>2, <2>1 DEF HasFd
<1>3. CASE ~(t \in DOMAIN s /\ fd \in DOMAIN s[t].fds)
  <2>1. ListOf(s, t, fd) = << >>
    BY <1>3 DEF ListOf
  <2> QED BY <1>1, <1>3, <2>1 DEF HasFd
<1> QED BY <1>2, <1>3

\* One list of some descriptors is replaced.
LEMMA BytesPut ==
    ASSUME NEW g, DOMAIN g \subseteq Fds, \A x \in DOMAIN g : g[x] \in FdLists,
           NEW fd \in Fds, NEW list \in FdLists,
           NEW h, DOMAIN h = DOMAIN g \cup {fd}, h[fd] = list,
           \A x \in DOMAIN g : x # fd => h[x] = g[x]
    PROVE  InFds(h) = InFds(g) + Bytes(list) - (IF fd \in DOMAIN g THEN Bytes(g[fd]) ELSE 0)
<1>0. PICK e : e = [x \in DOMAIN g |-> Bytes(g[x])]
  OBVIOUS
<1>1. PICK f : f = [x \in DOMAIN h |-> Bytes(h[x])]
  OBVIOUS
<1>2. IsFiniteSet(DOMAIN g)
  <2>1. IsFiniteSet(Fds)
    BY MaxFdAssumption, FS_Interval DEF Fds
  <2> QED BY <2>1, FS_Subset
<1>3. /\ DOMAIN e = DOMAIN g /\ DOMAIN f = DOMAIN e \cup {fd} /\ IsFiniteSet(DOMAIN e)
      /\ \A x \in DOMAIN e : e[x] \in Int
      /\ f[fd] \in Int /\ f[fd] = Bytes(list)
      /\ \A x \in DOMAIN e \ {fd} : f[x] = e[x]
      /\ fd \in DOMAIN g => e[fd] = Bytes(g[fd])
  BY <1>0, <1>1, <1>2, BytesParts
<1>4. SumFunction(f) = SumFunction(e) + f[fd] - (IF fd \in DOMAIN e THEN e[fd] ELSE 0)
  BY <1>3, SumPut
<1>5. SumFunction(f) = SumFunction(e) + Bytes(list)
                         - (IF fd \in DOMAIN g THEN Bytes(g[fd]) ELSE 0)
  BY <1>3, <1>4
<1> QED BY <1>0, <1>1, <1>5 DEF InFds

LEMMA SetListParts ==
    ASSUME NEW s, IsStats(s), NEW t \in Tids, NEW fd \in Fds, NEW list \in FdLists
    PROVE  ListPut(SetList(s, t, fd, list), s, t, fd, list)
<1>1. PICK old : old = Ensure(s, t, NewStats)[t]
  OBVIOUS
<1>2. PICK fds : fds = Put(old.fds, fd, list)
  OBVIOUS
<1>3. PICK new : new = [old EXCEPT !.fds = fds]
  OBVIOUS
<1>4. PICK g : g = Put(s, t, new)
  OBVIOUS
<1>5. SetList(s, t, fd, list) = g
  BY <1>1, <1>2, <1>3, <1>4 DEF SetList
<1>6. /\ IsProcStats(old)
      /\ t \in DOMAIN s => old = s[t]
      /\ t \notin DOMAIN s => Excess(old) = 0 /\ DOMAIN old.fds = {}
  <2>1. /\ Grown(Ensure(s, t, NewStats), s) /\ t \in DOMAIN Ensure(s, t, NewStats)
        /\ t \in DOMAIN s => Ensure(s, t, NewStats)[t] = s[t]
        /\ t \notin DOMAIN s => Ensure(s, t, NewStats)[t] = NewStats
    BY EnsureStats
  <2> QED BY <1>1, <2>1, NewStatsParts DEF IsStats, Grown
<1>7. /\ DOMAIN fds = DOMAIN old.fds \cup {fd} /\ fds[fd] = list
      /\ fds = [x \in DOMAIN fds |-> fds[x]]
      /\ \A x \in DOMAIN old.fds : x # fd => fds[x] = old.fds[x]
  BY <1>2 DEF Put
<1>8. new.fds = fds /\ new.bytes = old.bytes /\ IsProcStats(new)
  BY <1>3, <1>6, <1>7 DEF IsProcStats
<1>9. PICK was : was = IF fd \in DOMAIN old.fds THEN old.fds[fd] ELSE << >>
  OBVIOUS
<1>10. was = ListOf(s, t, fd)
  BY <1>6, <1>9 DEF ListOf
<1>11. InFds(new.fds) = InFds(old.fds) + Bytes(list) - Bytes(was)
  <2>1. PICK own : own = old.fds
    OBVIOUS
  <2>2. /\ DOMAIN own \subseteq Fds /\ \A x \in DOMAIN own : own[x] \in FdLists
        /\ DOMAIN fds = DOMAIN own \cup {fd} /\ fds[fd] = list
        /\ \A x \in DOMAIN own : x # fd => fds[x] = own[x]
    BY <1>6, <1>7, <2>1 DEF IsProcStats
  <2>3. InFds(fds) = InFds(own) + Bytes(list) - (IF fd \in DOMAIN own THEN Bytes(own[fd]) ELSE 0)
    BY <2>2, BytesPut
  <2>4. Bytes(was) = IF fd \in DOMAIN own THEN Bytes(own[fd]) ELSE 0
    BY <1>9, <2>1, BytesParts
  <2> QED BY <1>8, <2>1, <2>3, <2>4
<1>12. Excess(new) = Excess(old) + Bytes(was) - Bytes(list)
  <2>2. /\ InFds(old.fds) \in Int /\ Bytes(list) \in Int /\ Bytes(was) \in Int
        /\ old.bytes \in Int
    BY <1>6, <1>10, ListIn, ExcessInt, BytesParts DEF IsProcStats
  <2> QED BY <1>8, <1>11, <2>2 DEF Excess
<1>13. StatsPut(g, s, t, new)
  BY <1>4, <1>8, PutStats
<1>14. Balance(g) = Balance(s) + Bytes(was) - Bytes(list)
  <2>1. /\ Balance(s) \in Int /\ Excess(old) \in Int /\ Bytes(list) \in Int /\ Bytes(was) \in Int
    BY <1>6, <1>10, ListIn, ExcessInt, BytesParts, BalanceInt
  <2>2. (IF t \in DOMAIN s THEN Excess(s[t]) ELSE 0) = Excess(old)
    BY <1>6
  <2> QED BY <1>12, <1>13, <2>1, <2>2 DEF StatsPut
<1>15. \A u, x : ListOf(g, u, x) = IF u = t /\ x = fd THEN list ELSE ListOf(s, u, x)
  <2> TAKE u, x
  <2>1. CASE u # t
    BY <1>13, <2>1 DEF StatsPut, ListOf
  <2>2. CASE u = t
    BY <1>6, <1>7, <1>8, <1>13, <2>2 DEF StatsPut, ListOf
  <2> QED BY <2>1, <2>2
<1>16. fd \in DOMAIN g[t].fds /\ g[t].fds[fd] = list
  BY <1>7, <1>8, <1>13 DEF StatsPut
<1> QED BY <1>5, <1>10, <1>13, <1>14, <1>15, <1>16 DEF ListPut, StatsPut

\* The threads keep their statistics, and the bytes balance as before.
Stepped(g, s) ==
    /\ IsStats(g) /\ DOMAIN s \subseteq DOMAIN g
    /\ Balance(g) = Balance(s)

LEMMA CreateParts ==
    ASSUME NEW s, IsStats(s), NEW t \in Tids, NEW fd \in Fds, NEW ts \in Nat
    PROVE  /\ Stepped(CreateFd(s, t, fd, ts), s)
           /\ \A u, x : HasFd(CreateFd(s, t, fd, ts), u, x)
                          <=> HasFd(s, u, x) \/ (u = t /\ x = fd)
<1>1. PICK old : old = ListOf(s, t, fd)
  OBVIOUS
<1>2. PICK list : list = Append(old, FDStats(ts))
  OBVIOUS
<1>3. PICK g : g = CreateFd(s, t, fd, ts)
  OBVIOUS
<1>4. old \in FdLists
  BY <1>1, ListIn
<1>5. list \in FdLists /\ Bytes(list) = Bytes(old) /\ IsOpen(list)
  BY <1>2, <1>4, BytesAppend
<1>6. ListPut(g, s, t, fd, list)
  <2>1. g = SetList(s, t, fd, list)
    BY <1>1, <1>2, <1>3 DEF CreateFd
  <2> QED BY <1>5, <2>1, SetListParts
<1>7. Balance(g) = Balance(s)
  <2>1. Bytes(old) \in Nat /\ Balance(s) \in Int
    BY <1>4, BytesParts, BalanceInt
  <2> QED BY <1>1, <1>5, <1>6, <2>1 DEF ListPut
<1>8. \A u, x : HasFd(g, u, x) <=> HasFd(s, u, x) \/ (u = t /\ x = fd)
  <2> TAKE u, x
  <2>1. HasFd(g, u, x) <=> IsOpen(ListOf(g, u, x))
    BY <1>6, ListIn DEF ListPut
  <2>2. HasFd(s, u, x) <=> IsOpen(ListOf(s, u, x))
    BY ListIn
  <2>3. ListOf(g, u, x) = IF u = t /\ x = fd THEN list ELSE ListOf(s, u, x)
    BY <1>6 DEF ListPut
  <2> QED BY <1>5, <2>1, <2>2, <2>3
<1> QED BY <1>3, <1>6, <1>7, <1>8 DEF ListPut, Stepped

LEMMA CloseParts ==
    ASSUME NEW s, IsStats(s), NEW t \in Tids, NEW fd, NEW ts \in Nat
    PROVE  /\ Stepped(CloseFd(s, t, fd, ts), s)
           /\ \A u, x : HasFd(s, u, x) => HasFd(CloseFd(s, t, fd, ts), u, x) \/ (u = t /\ x = fd)
           /\ t \in DOMAIN s /\ fd \in DOMAIN s[t].fds
                => /\ CloseFd(s, t, fd, ts)[t].fds[fd] \in FdLists
                   /\ Bytes(CloseFd(s, t, fd, ts)[t].fds[fd]) = Bytes(s[t].fds[fd])
<1>1. CASE ~HasFd(s, t, fd)
  BY <1>1 DEF CloseFd, Stepped, IsStats, IsProcStats
<1>2. CASE HasFd(s, t, fd)
  <2>1. PICK old : old = ListOf(s, t, fd)
    OBVIOUS
  <2>2. PICK list : list = [old EXCEPT ![Len(old)].close = ts]
    OBVIOUS
  <2>3. PICK g : g = CloseFd(s, t, fd, ts)
    OBVIOUS
  <2>4. old \in FdLists /\ old = s[t].fds[fd] /\ old # << >> /\ fd \in Fds
    BY <1>2, <2>1, ListIn DEF HasFd, ListOf, IsOpen, IsStats, IsProcStats
  <2>5. list \in FdLists /\ Bytes(list) = Bytes(old)
    <3>1. 0 \in Nat
      OBVIOUS
    <3> QED BY <2>2, <2>4, <3>1, BytesLast
  <2>6. ListPut(g, s, t, fd, list)
    <3>1. g = SetList(s, t, fd, list)
      BY <1>2, <2>2, <2>3, <2>4 DEF CloseFd
    <3> QED BY <2>4, <2>5, <3>1, SetListParts
  <2>7. Balance(g) = Balance(s)
    <3>1. Bytes(old) \in Nat /\ Balance(s) \in Int
      BY <2>4, BytesParts, BalanceInt
    <3> QED BY <2>1, <2>5, <2>6, <3>1 DEF ListPut
  <2>8. \A u, x : HasFd(s, u, x) => HasFd(g, u, x) \/ (u = t /\ x = fd)
    <3> TAKE u, x
    <3>1. HasFd(g, u, x) <=> IsOpen(ListOf(g, u, x))
      BY <2>6, ListIn DEF ListPut
    <3>2. HasFd(s, u, x) <=> IsOpen(ListOf(s, u, x))
      BY ListIn
    <3>3. ListOf(g, u, x) = IF u = t /\ x = fd THEN list ELSE ListOf(s, u, x)
      BY <2>6 DEF ListPut
    <3> QED BY <3>1, <3>2, <3>3
  <2> QED BY <2>3, <2>4, <2>5, <2>6, <2>7, <2>8 DEF ListPut, Stepped
<1> QED BY <1>1, <1>2

\* More bytes are read by a thread.
HasRead(s, t, ret) == [s EXCEPT ![t].bytes = @ + ret]

LEMMA MoreBytes ==
    ASSUME NEW s, IsStats(s), NEW t \in DOMAIN s, NEW ret \in Nat
    PROVE  /\ IsStats(HasRead(s, t, ret))
           /\ DOMAIN HasRead(s, t, ret) = DOMAIN s
           /\ Balance(HasRead(s, t, ret)) = Balance(s) + ret
           /\ \A u, x : ListOf(HasRead(s, t, ret), u, x) = ListOf(s, u, x)
<1>1. PICK old : old = s[t]
  OBVIOUS
<1>2. PICK new : new = [old EXCEPT !.bytes = @ + ret]
  OBVIOUS
<1>3. PICK g : g = [s EXCEPT ![t].bytes = @ + ret]
  OBVIOUS
<1>4. t \in Tids /\ IsProcStats(old)
  BY <1>1 DEF IsStats
<1>5. new.fds = old.fds /\ new.bytes = old.bytes + ret /\ IsProcStats(new)
  BY <1>2, <1>4 DEF IsProcStats
<1>6. g = Put(s, t, new)
  BY <1>1, <1>2, <1>3 DEF Put, IsStats
<1>7. StatsPut(g, s, t, new)
  BY <1>4, <1>5, <1>6, PutStats
<1>8. Excess(new) = Excess(old) + ret
  <2>1. InFds(old.fds) \in Int /\ old.bytes \in Int
    BY <1>4, ExcessInt DEF IsProcStats
  <2> QED BY <1>5, <2>1 DEF Excess
<1>9. Balance(g) = Balance(s) + ret
  <2>1. Balance(s) \in Int /\ Excess(old) \in Int
    BY <1>4, ExcessInt, BalanceInt
  <2> QED BY <1>1, <1>7, <1>8, <2>1 DEF StatsPut
<1>10. \A u, x : ListOf(g, u, x) = ListOf(s, u, x)
  <2> TAKE u, x
  <2>1. CASE u = t
    BY <1>1, <1>5, <1>7, <2>1 DEF StatsPut, ListOf
  <2>2. CASE u # t
    BY <1>7, <2>2 DEF StatsPut, ListOf
  <2> QED BY <2>1, <2>2
<1> QED BY <1>3, <1>7, <1>9, <1>10 DEF StatsPut, HasRead

LEMMA IoRqParts ==
    ASSUME NEW s, IsStats(s), NEW t \in Tids, NEW l \in Tids, NEW sys, NEW ret \in Int
    PROVE  /\ Stepped(IoRqExit(s, t, l, sys, ret), s)
           /\ \A u, x : HasFd(IoRqExit(s, t, l, sys, ret), u, x) <=> HasFd(s, u, x)
<1>1. PICK mid : mid = Ensure(s, t, NewStats)
  OBVIOUS
<1>2. PICK known : known = Ensure(mid, l, NewStats)
  OBVIOUS
<1>3. PICK g : g = IoRqExit(s, t, l, sys, ret)
  OBVIOUS
<1>4. Grown(mid, s) /\ t \in DOMAIN mid
  BY <1>1, EnsureStats
<1>5. Grown(known, mid) /\ l \in DOMAIN known
  <2>1. IsStats(mid)
    BY <1>4 DEF Grown
  <2> QED BY <1>2, <2>1, EnsureStats
<1>6. /\ IsStats(known) /\ DOMAIN s \subseteq DOMAIN known /\ t \in DOMAIN known
      /\ Balance(known) = Balance(s)
      /\ \A u, fd : ListOf(known, u, fd) = ListOf(s, u, fd)
  BY <1>4, <1>5 DEF Grown
<1>7. \A u, x : HasFd(known, u, x) <=> HasFd(s, u, x)
  BY <1>6, ListIn
<1>8. PICK fd : fd = sys.fd
  OBVIOUS
<1>9. CASE ~(sys.op = "read" /\ ret >= 0 /\ HasFd(known, l, fd))
  <2>1. g = known
    BY <1>1, <1>2, <1>3, <1>8, <1>9 DEF IoRqExit
  <2> QED BY <1>3, <1>6, <1>7, <2>1 DEF Stepped
<1>10. CASE sys.op = "read" /\ ret >= 0 /\ HasFd(known, l, fd)
  <2>1. PICK old : old = ListOf(known, l, fd)
    OBVIOUS
  <2>2. PICK list : list = [old EXCEPT ![Len(old)].bytes = @ + ret]
    OBVIOUS
  <2>3. PICK all : all = [known EXCEPT ![t].bytes = @ + ret]
    OBVIOUS
  <2>4. ret \in Nat
    BY <1>10
  <2>5. old \in FdLists /\ old # << >> /\ fd \in Fds /\ IsOpen(old)
    <3>1. old \in FdLists /\ IsOpen(old)
      BY <1>6, <1>10, <2>1, ListIn
    <3>2. old # << >>
      BY <3>1 DEF IsOpen
    <3>3. fd \in Fds
      BY <1>6, <1>10 DEF HasFd, IsStats, IsProcStats
    <3> QED BY <3>1, <3>2, <3>3
  <2>6. list \in FdLists /\ Bytes(list) = Bytes(old) + ret /\ (IsOpen(list) <=> IsOpen(old))
    <3>1. 0 \in Nat
      OBVIOUS
    <3> QED BY <2>2, <2>4, <2>5, <3>1, BytesLast
  <2>7. /\ IsStats(all) /\ DOMAIN all = DOMAIN known /\ Balance(all) = Balance(known) + ret
        /\ \A u, x : ListOf(all, u, x) = ListOf(known, u, x)
    <3>1. all = HasRead(known, t, ret)
      BY <2>3 DEF HasRead
    <3> QED BY <1>6, <2>4, <3>1, MoreBytes
  <2>8. ListPut(g, all, l, fd, list)
    <3>1. g = SetList(all, l, fd, list)
      BY <1>1, <1>2, <1>3, <1>8, <1>10, <2>1, <2>2, <2>3 DEF IoRqExit
    <3> QED BY <2>5, <2>6, <2>7, <3>1, SetListParts
  <2>9. Balance(g) = Balance(s)
    <3>1. Bytes(old) \in Int /\ Balance(s) \in Int
      BY <2>5, BytesParts, BalanceInt
    <3> QED BY <1>6, <2>1, <2>4, <2>6, <2>7, <2>8, <3>1 DEF ListPut
  <2>10. \A u, x : HasFd(g, u, x) <=> HasFd(known, u, x)
    <3> TAKE u, x
    <3>1. HasFd(g, u, x) <=> IsOpen(ListOf(g, u, x))
      BY <2>8, ListIn DEF ListPut
    <3>2. HasFd(known, u, x) <=> IsOpen(ListOf(known, u, x))
      BY <1>6, ListIn
    <3>3. ListOf(g, u, x) = IF u = l /\ x = fd THEN list ELSE ListOf(known, u, x)
      BY <2>7, <2>8 DEF ListPut
    <3> QED BY <2>1, <2>5, <2>6, <3>1, <3>2, <3>3
  <2> QED BY <1>3, <1>6, <1>7, <2>7, <2>8, <2>9, <2>10 DEF ListPut, Stepped
<1> QED BY <1>8, <1>9, <1>10

-----------------------------------------------------------------------------
(* Many descriptors of a thread at once: fork, exec, and a thread that     *)
(* finds its leader.                                                       *)

\* More descriptors, without bytes.
LEMMA BytesSame ==
    ASSUME NEW g, DOMAIN g \subseteq Fds, \A x \in DOMAIN g : g[x] \in FdLists,
           NEW N \in SUBSET Fds, NEW h, DOMAIN h = DOMAIN g \cup N,
           \A x \in DOMAIN g : Bytes(h[x]) = Bytes(g[x]),
           \A x \in N : x \notin DOMAIN g => Bytes(h[x]) = 0
    PROVE  InFds(h) = InFds(g)
<1>1. PICK e : e = [x \in DOMAIN g |-> Bytes(g[x])]
  OBVIOUS
<1>2. PICK f : f = [x \in DOMAIN h |-> Bytes(h[x])]
  OBVIOUS
<1>3. PICK A : A = DOMAIN g
  OBVIOUS
<1>4. PICK S : S = N \ A
  OBVIOUS
<1>5. IsFiniteSet(A) /\ IsFiniteSet(S) /\ A \cap S = {} /\ DOMAIN f = A \cup S
  <2>1. IsFiniteSet(Fds)
    BY MaxFdAssumption, FS_Interval DEF Fds
  <2>2. A \subseteq Fds /\ S \subseteq Fds
    BY <1>3, <1>4
  <2>3. IsFiniteSet(A) /\ IsFiniteSet(S)
    BY <2>1, <2>2, FS_Subset
  <2> QED BY <1>2, <1>3, <1>4, <2>3
<1>6. (\A x \in A : e[x] \in Int /\ f[x] = e[x]) /\ (\A x \in S : f[x] = 0)
  BY <1>1, <1>2, <1>3, <1>4, BytesParts
<1>7. SumFunctionOnSet(f, A) = SumFunctionOnSet(e, A) /\ SumFunctionOnSet(e, A) \in Int
  BY <1>5, <1>6, SumSame, SumInt
<1>8. SumFunctionOnSet(f, S) = 0
  BY <1>5, <1>6, SumZero
<1>9. SumFunctionOnSet(f, A \cup S) = SumFunctionOnSet(f, A) + SumFunctionOnSet(f, S)
  <2>1. \A x \in A \cup S : f[x] \in Int
    BY <1>6
  <2> QED BY <1>5, <2>1, SumUnion
<1>10. SumFunction(f) = SumFunction(e)
  BY <1>1, <1>3, <1>5, <1>7, <1>8, <1>9 DEF SumFunction
<1> QED BY <1>1, <1>2, <1>10 DEF InFds

\* The descriptors of a thread are replaced by some with the same bytes.
LEMMA FdsPut ==
    ASSUME NEW s, IsStats(s), NEW t \in Tids, NEW old, old = Ensure(s, t, NewStats)[t],
           NEW r, IsProcStats(r), r.bytes = old.bytes, InFds(r.fds) = InFds(old.fds)
    PROVE  /\ Stepped(Put(s, t, r), s)
           /\ \A u, x : HasFd(Put(s, t, r), u, x)
                          <=> IF u = t THEN x \in DOMAIN r.fds /\ IsOpen(r.fds[x])
                                       ELSE HasFd(s, u, x)
<1>1. PICK g : g = Put(s, t, r)
  OBVIOUS
<1>2. /\ t \in DOMAIN s => old = s[t]
      /\ t \notin DOMAIN s => Excess(old) = 0
  <2>1. /\ t \in DOMAIN s => Ensure(s, t, NewStats)[t] = s[t]
        /\ t \notin DOMAIN s => Ensure(s, t, NewStats)[t] = NewStats
    BY EnsureStats
  <2> QED BY <2>1, NewStatsParts
<1>3. Excess(r) = Excess(old)
  BY DEF Excess
<1>4. StatsPut(g, s, t, r)
  BY <1>1, PutStats
<1>5. Balance(g) = Balance(s)
  <2>1. Balance(s) \in Int /\ Excess(r) \in Int
    BY ExcessInt, BalanceInt
  <2>2. (IF t \in DOMAIN s THEN Excess(s[t]) ELSE 0) = Excess(r)
    BY <1>2, <1>3
  <2> QED BY <1>4, <2>1, <2>2 DEF StatsPut
<1>6. \A u, x : HasFd(g, u, x) <=> IF u = t THEN x \in DOMAIN r.fds /\ IsOpen(r.fds[x])
                                            ELSE HasFd(s, u, x)
  <2> TAKE u, x
  <2>1. CASE u = t
    BY <1>4, <2>1 DEF StatsPut, HasFd
  <2>2. CASE u # t
    BY <1>4, <2>2 DEF StatsPut, HasFd
  <2> QED BY <2>1, <2>2
<1> QED BY <1>1, <1>4, <1>5, <1>6 DEF StatsPut, Stepped

LEMMA EnsureIsStats ==
    ASSUME NEW s, IsStats(s), NEW t \in Tids
    PROVE  IsProcStats(Ensure(s, t, NewStats)[t])
<1>1. /\ t \in DOMAIN s => Ensure(s, t, NewStats)[t] = s[t]
      /\ t \notin DOMAIN s => Ensure(s, t, NewStats)[t] = NewStats
  BY EnsureStats
<1> QED BY <1>1, NewStatsParts DEF IsStats

\* The descriptors that a child inherits.
ForkStats(s, t, N, ts) ==
    LET old == Ensure(s, t, NewStats)[t]
    IN Put(s, t, [old EXCEPT !.fds =
         [fd \in DOMAIN old.fds \cup N |->
            IF fd \in N THEN Append(ListOf(s, t, fd), FDStats(ts)) ELSE old.fds[fd]]])

LEMMA ForkParts ==
    ASSUME NEW s, IsStats(s), NEW t \in Tids, NEW N \in SUBSET Fds, NEW ts \in Nat
    PROVE  /\ Stepped(ForkStats(s, t, N, ts), s)
           /\ \A u, x : HasFd(ForkStats(s, t, N, ts), u, x)
                          <=> HasFd(s, u, x) \/ (u = t /\ x \in N)
<1>1. PICK old : old = Ensure(s, t, NewStats)[t]
  OBVIOUS
<1>2. PICK more : more = [fd \in N |-> Append(ListOf(s, t, fd), FDStats(ts))]
  OBVIOUS
<1>3. PICK fds : fds = [fd \in DOMAIN old.fds \cup N |-> IF fd \in N THEN more[fd] ELSE old.fds[fd]]
  OBVIOUS
<1>4. PICK r : r = [old EXCEPT !.fds = fds]
  OBVIOUS
<1>5. ForkStats(s, t, N, ts) = Put(s, t, r)
  <2>1. fds = [fd \in DOMAIN old.fds \cup N |->
                 IF fd \in N THEN Append(ListOf(s, t, fd), FDStats(ts)) ELSE old.fds[fd]]
    BY <1>2, <1>3
  <2> QED BY <1>1, <1>4, <2>1 DEF ForkStats
<1>6. \A fd \in N : more[fd] \in FdLists /\ Bytes(more[fd]) = Bytes(ListOf(s, t, fd)) /\ IsOpen(more[fd])
  <2> TAKE fd \in N
  <2>1. ListOf(s, t, fd) \in FdLists
    BY ListIn
  <2>2. PICK list : list = ListOf(s, t, fd)
    OBVIOUS
  <2>3. /\ Append(list, FDStats(ts)) \in FdLists
        /\ Bytes(Append(list, FDStats(ts))) = Bytes(list)
        /\ IsOpen(Append(list, FDStats(ts)))
    BY <2>1, <2>2, BytesAppend
  <2> QED BY <1>2, <2>2, <2>3
<1>7. IsProcStats(old) /\ (t \in DOMAIN s => old = s[t]) /\ (t \notin DOMAIN s => old = NewStats)
  BY <1>1, EnsureIsStats, EnsureStats
<1>8. \A fd : ListOf(s, t, fd) = IF fd \in DOMAIN old.fds THEN old.fds[fd] ELSE << >>
  <2>1. DOMAIN NewStats.fds = {}
    BY NewStatsParts
  <2> QED BY <1>7, <2>1 DEF ListOf
<1>9. /\ r.fds = fds /\ r.bytes = old.bytes /\ IsProcStats(r)
  <2>1. \A fd \in DOMAIN fds : fds[fd] \in FdLists
    BY <1>3, <1>6, <1>7 DEF IsProcStats
  <2>2. DOMAIN fds \subseteq Fds /\ fds = [fd \in DOMAIN fds |-> fds[fd]]
    BY <1>3, <1>7 DEF IsProcStats
  <2> QED BY <1>4, <1>7, <2>1, <2>2 DEF IsProcStats
<1>10. InFds(fds) = InFds(old.fds)
  <2>1. PICK own : own = old.fds
    OBVIOUS
  <2>2. DOMAIN own \subseteq Fds /\ \A x \in DOMAIN own : own[x] \in FdLists
    BY <1>7, <2>1 DEF IsProcStats
  <2>3. DOMAIN fds = DOMAIN own \cup N
    BY <1>3, <2>1
  <2>4. \A x \in DOMAIN own : Bytes(fds[x]) = Bytes(own[x])
    BY <1>3, <1>6, <1>8, <2>1
  <2>5. \A x \in N : x \notin DOMAIN own => Bytes(fds[x]) = 0
    <3>1. Bytes(<< >>) = 0
      BY BytesNone
    <3> QED BY <1>3, <1>6, <1>8, <2>1, <3>1
  <2> QED BY <2>1, <2>2, <2>3, <2>4, <2>5, BytesSame
<1>11. /\ Stepped(Put(s, t, r), s)
       /\ \A u, x : HasFd(Put(s, t, r), u, x)
                      <=> IF u = t THEN x \in DOMAIN r.fds /\ IsOpen(r.fds[x]) ELSE HasFd(s, u, x)
  BY <1>1, <1>9, <1>10, FdsPut
<1>12. \A x : HasFd(s, t, x) <=> x \in DOMAIN old.fds /\ IsOpen(old.fds[x])
  <2>1. DOMAIN NewStats.fds = {}
    BY NewStatsParts
  <2> QED BY <1>7, <2>1 DEF HasFd
<1>13. \A x : x \in DOMAIN fds /\ IsOpen(fds[x])
                <=> (x \in DOMAIN old.fds /\ IsOpen(old.fds[x])) \/ x \in N
  BY <1>3, <1>6
<1> QED BY <1>5, <1>9, <1>11, <1>12, <1>13

\* The descriptors that exec closes.
ExecStats(s, t, S, ts) ==
    [s EXCEPT ![t].fds = [fd \in DOMAIN s[t].fds |->
       IF fd \in S THEN CloseFd(s, t, fd, ts)[t].fds[fd] ELSE s[t].fds[fd]]]

LEMMA ExecParts ==
    ASSUME NEW s, IsStats(s), NEW t \in DOMAIN s, NEW S, NEW ts \in Nat
    PROVE  /\ Stepped(ExecStats(s, t, S, ts), s)
           /\ \A u, x : HasFd(s, u, x) => HasFd(ExecStats(s, t, S, ts), u, x) \/ (u = t /\ x \in S)
<1>1. PICK old : old = s[t]
  OBVIOUS
<1>2. PICK cut : cut = [fd \in DOMAIN old.fds |-> CloseFd(s, t, fd, ts)[t].fds[fd]]
  OBVIOUS
<1>3. PICK fds : fds = [fd \in DOMAIN old.fds |-> IF fd \in S THEN cut[fd] ELSE old.fds[fd]]
  OBVIOUS
<1>4. PICK r : r = [old EXCEPT !.fds = fds]
  OBVIOUS
<1>5. t \in Tids /\ IsProcStats(old) /\ old = Ensure(s, t, NewStats)[t]
  BY <1>1 DEF IsStats, Ensure
<1>6. ExecStats(s, t, S, ts) = Put(s, t, r)
  <2>1. fds = [fd \in DOMAIN s[t].fds |->
                 IF fd \in S THEN CloseFd(s, t, fd, ts)[t].fds[fd] ELSE s[t].fds[fd]]
    BY <1>1, <1>2, <1>3
  <2>2. ExecStats(s, t, S, ts) = [s EXCEPT ![t].fds = fds]
    BY <2>1 DEF ExecStats
  <2> QED BY <1>1, <1>4, <2>2 DEF Put, IsStats
<1>7. \A fd \in DOMAIN old.fds : cut[fd] \in FdLists /\ Bytes(cut[fd]) = Bytes(old.fds[fd])
  <2> TAKE fd \in DOMAIN old.fds
  <2>1. /\ CloseFd(s, t, fd, ts)[t].fds[fd] \in FdLists
        /\ Bytes(CloseFd(s, t, fd, ts)[t].fds[fd]) = Bytes(s[t].fds[fd])
    <3>1. fd \in DOMAIN s[t].fds
      BY <1>1
    <3> QED BY <1>5, <3>1, CloseParts
  <2> QED BY <1>1, <1>2, <2>1
<1>8. r.fds = fds /\ r.bytes = old.bytes /\ IsProcStats(r)
  <2>1. \A fd \in DOMAIN fds : fds[fd] \in FdLists
    BY <1>3, <1>5, <1>7 DEF IsProcStats
  <2>2. DOMAIN fds = DOMAIN old.fds /\ fds = [fd \in DOMAIN fds |-> fds[fd]]
    BY <1>3
  <2>3. DOMAIN fds \subseteq Fds
    BY <1>5, <2>2 DEF IsProcStats
  <2> QED BY <1>4, <1>5, <2>1, <2>2, <2>3 DEF IsProcStats
<1>9. InFds(fds) = InFds(old.fds)
  <2>1. PICK own : own = old.fds
    OBVIOUS
  <2>2. DOMAIN own \subseteq Fds /\ \A x \in DOMAIN own : own[x] \in FdLists
    BY <1>5, <2>1 DEF IsProcStats
  <2>3. DOMAIN fds = DOMAIN own \cup {} /\ {} \in SUBSET Fds
    BY <1>3, <2>1
  <2>4. \A x \in DOMAIN own : Bytes(fds[x]) = Bytes(own[x])
    BY <1>3, <1>7, <2>1
  <2> QED BY <2>1, <2>2, <2>3, <2>4, BytesSame
<1>10. /\ Stepped(Put(s, t, r), s)
       /\ \A u, x : HasFd(Put(s, t, r), u, x)
                      <=> IF u = t THEN x \in DOMAIN r.fds /\ IsOpen(r.fds[x]) ELSE HasFd(s, u, x)
  BY <1>5, <1>8, <1>9, FdsPut
<1>11. \A x : HasFd(s, t, x) <=> x \in DOMAIN old.fds /\ IsOpen(old.fds[x])
  BY <1>1 DEF HasFd
<1>12. \A x : x \in DOMAIN old.fds /\ IsOpen(old.fds[x]) => (x \in DOMAIN fds /\ IsOpen(fds[x])) \/ x \in S
  BY <1>3
<1> QED BY <1>6, <1>8, <1>10, <1>11, <1>12

\* The descriptors of a thread go to its leader, who keeps its own.
Common(lead, own) == SumFunction([fd \in DOMAIN own \cap DOMAIN lead |-> Bytes(own[fd])])

LEMMA BytesMerge ==
    ASSUME NEW lead, DOMAIN lead \subseteq Fds, \A x \in DOMAIN lead : lead[x] \in FdLists,
           NEW own, DOMAIN own \subseteq Fds, \A x \in DOMAIN own : own[x] \in FdLists,
           NEW m, DOMAIN m = DOMAIN lead \cup DOMAIN own,
           \A x \in DOMAIN lead : m[x] = lead[x],
           \A x \in DOMAIN own : x \notin DOMAIN lead => m[x] = own[x]
    PROVE  /\ InFds(m) = InFds(lead) + InFds(own) - Common(lead, own)
           /\ InFds(lead) \in Nat /\ InFds(own) \in Nat /\ Common(lead, own) \in Nat
<1>1. PICK f : f = [x \in DOMAIN m |-> Bytes(m[x])]
  OBVIOUS
<1>2. PICK g : g = [x \in DOMAIN lead |-> Bytes(lead[x])]
  OBVIOUS
<1>3. PICK h : h = [x \in DOMAIN own |-> Bytes(own[x])]
  OBVIOUS
<1>4. PICK c : c = [x \in DOMAIN own \cap DOMAIN lead |-> Bytes(own[x])]
  OBVIOUS
<1>5. PICK A : A = DOMAIN lead
  OBVIOUS
<1>6. PICK S : S = DOMAIN own \ DOMAIN lead
  OBVIOUS
<1>7. PICK C : C = DOMAIN own \cap DOMAIN lead
  OBVIOUS
<1>8. /\ IsFiniteSet(A) /\ IsFiniteSet(S) /\ IsFiniteSet(C) /\ A \cap S = {} /\ C \cap S = {}
      /\ DOMAIN f = A \cup S /\ DOMAIN g = A /\ DOMAIN h = C \cup S /\ DOMAIN c = C
      /\ IsFiniteSet(DOMAIN h)
  <2>1. IsFiniteSet(Fds)
    BY MaxFdAssumption, FS_Interval DEF Fds
  <2>2. A \subseteq Fds /\ S \subseteq Fds /\ C \subseteq Fds /\ DOMAIN h \subseteq Fds
    BY <1>3, <1>5, <1>6, <1>7
  <2>3. IsFiniteSet(A) /\ IsFiniteSet(S) /\ IsFiniteSet(C) /\ IsFiniteSet(DOMAIN h)
    BY <2>1, <2>2, FS_Subset
  <2> QED BY <1>1, <1>2, <1>3, <1>4, <1>5, <1>6, <1>7, <2>3
<1>9. /\ \A x \in A : f[x] = g[x] /\ g[x] \in Nat
      /\ \A x \in S : f[x] = h[x]
      /\ \A x \in C : c[x] = h[x]
      /\ \A x \in C \cup S : h[x] \in Nat
  BY <1>1, <1>2, <1>3, <1>4, <1>5, <1>6, <1>7, BytesParts
<1>10. /\ SumFunctionOnSet(f, A) = SumFunctionOnSet(g, A)
       /\ SumFunctionOnSet(f, S) = SumFunctionOnSet(h, S)
       /\ SumFunctionOnSet(c, C) = SumFunctionOnSet(h, C)
  BY <1>8, <1>9, SumSame
<1>11. SumFunctionOnSet(f, A \cup S) = SumFunctionOnSet(f, A) + SumFunctionOnSet(f, S)
  <2>1. \A x \in A \cup S : f[x] \in Int
    BY <1>9
  <2> QED BY <1>8, <2>1, SumUnion
<1>12. SumFunctionOnSet(h, C \cup S) = SumFunctionOnSet(h, C) + SumFunctionOnSet(h, S)
  <2>1. \A x \in C \cup S : h[x] \in Int
    BY <1>9
  <2> QED BY <1>8, <2>1, SumUnion
<1>13. SumFunctionOnSet(g, A) \in Nat /\ SumFunctionOnSet(h, C) \in Nat /\ SumFunctionOnSet(h, S) \in Nat
  BY <1>8, <1>9, SumNat
<1>14. SumFunctionOnSet(h, C \cup S) \in Nat
  BY <1>12, <1>13
<1>15. /\ InFds(m) = SumFunctionOnSet(f, A \cup S) /\ InFds(lead) = SumFunctionOnSet(g, A)
       /\ InFds(own) = SumFunctionOnSet(h, C \cup S) /\ Common(lead, own) = SumFunctionOnSet(c, C)
  BY <1>1, <1>2, <1>3, <1>4, <1>8 DEF InFds, Common, SumFunction
<1> QED BY <1>10, <1>11, <1>12, <1>13, <1>14, <1>15

Merged(lead, own) ==
    [fd \in DOMAIN lead \cup DOMAIN own |-> IF fd \in DOMAIN lead THEN lead[fd] ELSE own[fd]]

MergedStats(s, t, l) ==
    [[s EXCEPT ![t].fds = NewStats.fds] EXCEPT ![l].fds = Merged(s[l].fds, s[t].fds)]

\* What the leader has not of the thread is dropped.
LEMMA MergeParts ==
    ASSUME NEW s, IsStats(s), NEW t \in DOMAIN s, NEW l \in DOMAIN s, l # t,
           \A fd \in DOMAIN s[t].fds \cap DOMAIN s[l].fds : IsOpen(s[l].fds[fd]),
           NEW g, g = MergedStats(s, t, l)
    PROVE  /\ IsStats(g) /\ Common(s[l].fds, s[t].fds) \in Nat
           /\ Balance(g) = Balance(s) + Common(s[l].fds, s[t].fds)
           /\ \A u, x : (HasFd(s, u, x) /\ u # t) \/ (u = l /\ HasFd(s, t, x)) => HasFd(g, u, x)
<1>1. PICK lead : lead = s[l].fds
  OBVIOUS
<1>2. PICK own : own = s[t].fds
  OBVIOUS
<1>3. PICK m : m = Merged(lead, own)
  OBVIOUS
<1>4. PICK a : a = [s[t] EXCEPT !.fds = NewStats.fds]
  OBVIOUS
<1>5. PICK b : b = [s[l] EXCEPT !.fds = m]
  OBVIOUS
<1>6. PICK h : h = Put(s, t, a)
  OBVIOUS
<1>7. /\ t \in Tids /\ l \in Tids /\ IsProcStats(s[t]) /\ IsProcStats(s[l])
      /\ s = [u \in DOMAIN s |-> s[u]]
  BY DEF IsStats
<1>8. g = Put(h, l, b)
  <2>1. h = [s EXCEPT ![t].fds = NewStats.fds]
    BY <1>4, <1>6, <1>7 DEF Put
  <2>2. g = [h EXCEPT ![l].fds = m]
    BY <1>1, <1>2, <1>3, <2>1 DEF MergedStats
  <2>3. h[l] = s[l] /\ h = [u \in DOMAIN h |-> h[u]] /\ l \in DOMAIN h
    BY <1>6 DEF Put
  <2>4. g = [h EXCEPT ![l] = b]
    BY <1>5, <2>2, <2>3
  <2>5. [h EXCEPT ![l] = b] = Put(h, l, b)
    BY <2>3, ExceptIsPut
  <2> QED BY <2>4, <2>5
<1>9. /\ DOMAIN lead \subseteq Fds /\ \A x \in DOMAIN lead : lead[x] \in FdLists
      /\ DOMAIN own \subseteq Fds /\ \A x \in DOMAIN own : own[x] \in FdLists
  BY <1>1, <1>2, <1>7 DEF IsProcStats
<1>10. /\ DOMAIN m = DOMAIN lead \cup DOMAIN own
       /\ \A x \in DOMAIN lead : m[x] = lead[x]
       /\ \A x \in DOMAIN own : x \notin DOMAIN lead => m[x] = own[x]
       /\ m = [x \in DOMAIN m |-> m[x]]
  BY <1>3 DEF Merged
<1>11. /\ InFds(m) = InFds(lead) + InFds(own) - Common(lead, own)
       /\ InFds(lead) \in Nat /\ InFds(own) \in Nat /\ Common(lead, own) \in Nat
  BY <1>9, <1>10, BytesMerge
<1>12. IsProcStats(a) /\ a.bytes = s[t].bytes /\ a.fds = NewStats.fds
  BY <1>4, <1>7, NewStatsParts DEF IsProcStats
<1>13. IsProcStats(b) /\ b.bytes = s[l].bytes /\ b.fds = m
  <2>1. \A x \in DOMAIN m : m[x] \in FdLists
    BY <1>9, <1>10
  <2> QED BY <1>5, <1>7, <1>9, <1>10, <2>1 DEF IsProcStats
<1>14. Excess(a) = Excess(s[t]) + InFds(own)
  <2>1. s[t].bytes \in Nat
    BY <1>7 DEF IsProcStats
  <2> QED BY <1>2, <1>11, <1>12, <2>1, NewStatsParts DEF Excess
<1>15. Excess(b) = Excess(s[l]) - InFds(own) + Common(lead, own)
  <2>1. s[l].bytes \in Nat
    BY <1>7 DEF IsProcStats
  <2> QED BY <1>1, <1>11, <1>13, <2>1 DEF Excess
<1>16. StatsPut(h, s, t, a)
  BY <1>6, <1>7, <1>12, PutStats
<1>17. IsStats(h) /\ h[l] = s[l] /\ l \in DOMAIN h
  BY <1>16 DEF StatsPut
<1>18. StatsPut(g, h, l, b)
  BY <1>7, <1>8, <1>13, <1>17, PutStats
<1>19. Balance(g) = Balance(s) + Common(lead, own)
  <2>1. Balance(h) = Balance(s) + Excess(a) - Excess(s[t])
    BY <1>16 DEF StatsPut
  <2>2. Balance(g) = Balance(h) + Excess(b) - Excess(s[l])
    BY <1>17, <1>18 DEF StatsPut
  <2>3. Balance(s) \in Int /\ Excess(s[t]) \in Int /\ Excess(s[l]) \in Int
    BY <1>7, ExcessInt, BalanceInt
  <2> QED BY <1>11, <1>14, <1>15, <2>1, <2>2, <2>3
<1>20. \A u, x : (HasFd(s, u, x) /\ u # t) \/ (u = l /\ HasFd(s, t, x)) => HasFd(g, u, x)
  <2> TAKE u, x
  <2>1. CASE u = l
    <3>1. HasFd(g, l, x) <=> x \in DOMAIN m /\ IsOpen(m[x])
      BY <1>13, <1>18 DEF StatsPut, HasFd
    <3>2. HasFd(s, l, x) <=> x \in DOMAIN lead /\ IsOpen(lead[x])
      BY <1>1 DEF HasFd
    <3>3. HasFd(s, t, x) <=> x \in DOMAIN own /\ IsOpen(own[x])
      BY <1>2 DEF HasFd
    <3>4. x \in DOMAIN own /\ x \in DOMAIN lead => IsOpen(lead[x])
      BY <1>1, <1>2
    <3> QED BY <1>10, <2>1, <3>1, <3>2, <3>3, <3>4
  <2>2. CASE u # l /\ u # t
    <3>1. u \in DOMAIN s => u \in DOMAIN g /\ g[u] = s[u]
      BY <1>16, <1>18, <2>2 DEF StatsPut
    <3> QED BY <2>2, <3>1 DEF HasFd
  <2> QED BY <2>1, <2>2
<1> QED BY <1>1, <1>2, <1>11, <1>18, <1>19, <1>20 DEF StatsPut

-----------------------------------------------------------------------------
(* The descriptors of the automaton and the statistics.                    *)

\* A request on a descriptor that is given to the call has a descriptor.
CallsHaveFds ==
    \A u : CallIn(procs, u) # None =>
       (CallIn(procs, u).op \in {"close", "read"} => CallIn(procs, u).fd \in Fds)

ProcsInv ==
    /\ ProcsOK
    /\ \A u, fd : Has(procs, u, fd) => fd \in Fds
    /\ CallsHaveFds

StatsInv ==
    /\ setting \in Settings /\ now \in Nat /\ dropped \in Nat
    /\ IsStats(stats) /\ Balance(stats) = dropped

\* What the threads have is open in the statistics.
Opened(p, s) == \A u, fd : Has(p, u, fd) => HasFd(s, u, fd)

OpenInv ==
    first => fault # "KeyError" /\ (fault = "none" => Opened(procs, stats))

\* The inductive invariant.
AnalysisInv == ProcsInv /\ StatsInv /\ OpenInv

\* The statistics of the event are these.
LEMMA NotifiedStep ==
    ASSUME AnalysisInv, NEW ts \in Nat, At(ts), NEW s, Notified(s), Stepped(s, stats),
           ProcsInv', Opened(procs, stats) => Opened(procs', s)
    PROVE  AnalysisInv'
<1>1. /\ fault = "none" /\ now' = ts /\ setting' = setting
      /\ stats' = s /\ first' = first /\ dropped' = dropped /\ fault' = fault
  BY DEF At, Notified
<1>2. StatsInv'
  BY <1>1 DEF AnalysisInv, StatsInv, Stepped
<1>3. OpenInv'
  BY <1>1 DEF AnalysisInv, OpenInv
<1> QED BY <1>2, <1>3 DEF AnalysisInv

LEMMA SteppedNot ==
    ASSUME NEW s, IsStats(s) PROVE Stepped(s, s)
BY DEF Stepped

LEMMA SameProcs ==
    ASSUME ProcsInv, ProcsOK', NEW t,
           \A u, fd : Has(procs', u, fd) => Has(procs, u, fd),
           \A u : CallIn(procs', u) \in {CallIn(procs, u), None}
    PROVE  ProcsInv' /\ \A s : Opened(procs, s) => Opened(procs', s)
<1>1. CallsHaveFds'
  BY DEF ProcsInv, CallsHaveFds
<1>2. \A s : Opened(procs, s) => Opened(procs', s)
  BY DEF Opened
<1>3. \A u, fd : Has(procs', u, fd) => fd \in Fds
  BY DEF ProcsInv
<1> QED BY <1>1, <1>2, <1>3 DEF ProcsInv

LEMMA SwitchStep ==
    ASSUME AnalysisInv, NEW ts \in Nat, At(ts), NEW c \in Cpus,
           NEW prev \in Tids \cup {None}, NEW next \in Tids \cup {None},
           Switch(c, prev, next), NotNotified
    PROVE  AnalysisInv'
<1>1. /\ ProcsOK' /\ \A u, fd : Has(procs', u, fd) => Has(procs, u, fd)
      /\ \A u : CallIn(procs', u) \in {CallIn(procs, u), None}
  BY SwitchProcs DEF AnalysisInv, ProcsInv
<1>2. ProcsInv' /\ (Opened(procs, stats) => Opened(procs', stats))
  BY <1>1, SameProcs DEF AnalysisInv
<1>3. Stepped(stats, stats)
  BY SteppedNot DEF AnalysisInv, StatsInv
<1> QED BY <1>2, <1>3, NotifiedStep DEF NotNotified

LEMMA IgnoredStep ==
    ASSUME AnalysisInv, NEW ts \in Nat, At(ts), NEW c \in Cpus, Ignored(c), NotNotified
    PROVE  AnalysisInv'
<1>1. UNCHANGED <<cpus, procs>>
  BY DEF Ignored, ioVars
<1>2. ProcsInv' /\ (Opened(procs, stats) => Opened(procs', stats))
  BY <1>1 DEF AnalysisInv, ProcsInv, ProcsOK, CallsHaveFds
<1>3. Stepped(stats, stats)
  BY SteppedNot DEF AnalysisInv, StatsInv
<1> QED BY <1>2, <1>3, NotifiedStep DEF NotNotified

LEMMA EntryStep ==
    ASSUME AnalysisInv, NEW ts \in Nat, At(ts), NEW c \in Cpus, NEW call \in Calls,
           NEW pid \in Tids \cup {None},
           Entry(c, call, pid), EntryNotified(ts, cpus[c], call, pid)
    PROVE  AnalysisInv'
<1>1. PICK t : t = cpus[c]
  OBVIOUS
<1>2. PICK g : g = Named(t, call, pid)
  OBVIOUS
<1>3. PICK l : l = Leader(g, t)
  OBVIOUS
<1>4. /\ ProcsOK' /\ t \in DOMAIN procs /\ l \in Tids
      /\ \A u, fd : Has(procs', u, fd) =>
            Has(procs, u, fd) /\ ~(call.op = "dup2" /\ u = l /\ fd = call.new)
      /\ \A u : u # t => CallIn(procs', u) \in {CallIn(procs, u), None}
      /\ \E fds : CallIn(procs', t) = Request(fds, call)
  BY <1>1, <1>2, <1>3, EntryProcs DEF AnalysisInv, ProcsInv
<1>5. CallsHaveFds'
  <2>1. ASSUME NEW u, CallIn(procs', u) # None, CallIn(procs', u).op \in {"close", "read"}
        PROVE  CallIn(procs', u).fd \in Fds
    <3>1. CASE u = t
      <4>1. PICK fds : CallIn(procs', t) = Request(fds, call)
        BY <1>4
      <4>2. PICK r : r = Request(fds, call)
        OBVIOUS
      <4>3. r.op = call.op /\ (call.op \in {"close", "read"} => r.fd = call.fd)
        BY <4>2 DEF Request, OpenOps
      <4> QED BY <2>1, <3>1, <4>1, <4>2, <4>3, CallParts
    <3>2. CASE u # t
      BY <1>4, <2>1, <3>2 DEF AnalysisInv, ProcsInv, CallsHaveFds
    <3> QED BY <3>1, <3>2
  <2> QED BY <2>1 DEF CallsHaveFds
<1>6. ProcsInv'
  BY <1>4, <1>5 DEF AnalysisInv, ProcsInv
<1>7. PICK s : s = IF call.op = "dup2" /\ call.new \in DOMAIN g[l].fds
                     THEN CloseFd(stats, l, call.new, ts) ELSE stats
  OBVIOUS
<1>8. Notified(s)
  BY <1>1, <1>2, <1>3, <1>7 DEF EntryNotified, Named
<1>9. IsStats(stats)
  BY DEF AnalysisInv, StatsInv
<1>10. /\ Stepped(s, stats)
       /\ \A u, x : HasFd(stats, u, x) => HasFd(s, u, x) \/ (call.op = "dup2" /\ u = l /\ x = call.new)
  <2>1. CASE call.op = "dup2" /\ call.new \in DOMAIN g[l].fds
    <3>1. s = CloseFd(stats, l, call.new, ts)
      BY <1>7, <2>1
    <3> QED BY <1>4, <1>9, <2>1, <3>1, CloseParts
  <2>2. CASE ~(call.op = "dup2" /\ call.new \in DOMAIN g[l].fds)
    <3>1. s = stats
      BY <1>7, <2>2
    <3> QED BY <1>9, <3>1, SteppedNot
  <2> QED BY <2>1, <2>2
<1>11. Opened(procs, stats) => Opened(procs', s)
  BY <1>4, <1>10 DEF Opened
<1> QED BY <1>6, <1>8, <1>10, <1>11, NotifiedStep

LEMMA ExitStep ==
    ASSUME AnalysisInv, NEW ts \in Nat, At(ts), NEW c \in Cpus, cpus[c] # None,
           NEW ret \in Results(procs[cpus[c]].sys),
           Exit(c, ret), ExitNotified(ts, cpus[c], ret)
    PROVE  AnalysisInv'
<1>1. PICK t : t = cpus[c]
  OBVIOUS
<1>2. PICK sys : sys = procs[t].sys
  OBVIOUS
<1>3. PICK l : l = Leader(procs, t)
  OBVIOUS
<1>4. PICK fd : fd = ResultFd(sys, ret)
  OBVIOUS
<1>5. /\ ProcsOK' /\ t \in DOMAIN procs /\ l \in DOMAIN procs
      /\ \A u, x : Has(procs', u, x) =>
            /\ Has(procs, u, x) \/ (Creates(l, sys, ret) /\ u = l /\ x = fd)
            /\ ~(Closes(sys, ret) /\ u = l /\ x = fd)
      /\ \A u : CallIn(procs', u) = IF u = t THEN None ELSE CallIn(procs, u)
  BY <1>1, <1>2, <1>3, <1>4, ExitProcs DEF AnalysisInv, ProcsInv
<1>6. t \in Tids /\ l \in Tids /\ sys # None
  BY <1>1, <1>2, <1>5, <1>5 DEF AnalysisInv, ProcsInv, ProcsOK, IsTable, Exit
<1>7. ret \in Int /\ (sys.op # "read" /\ ret >= 0 => ret \in Fds)
  <2>1. MaxFd \in Nat /\ setting.maxBytes \in Nat
    BY MaxFdAssumption, SettingsAssumption DEF AnalysisInv, StatsInv
  <2>2. ret \in IF sys # None /\ sys.op = "read" THEN -1 .. setting.maxBytes ELSE -1 .. MaxFd
    BY <1>1, <1>2 DEF Results
  <2> QED BY <2>1, <2>2 DEF Fds
<1>8. Creates(l, sys, ret) => fd \in Fds
  <2>1. CallIn(procs, t) = sys
    BY <1>2, <1>5 DEF CallIn
  <2>2. sys.op \in {"close", "read"} => sys.fd \in Fds
    BY <1>6, <2>1 DEF AnalysisInv, ProcsInv, CallsHaveFds
  <2> QED BY <1>4, <1>7, <2>2 DEF Creates, ResultFd, RqOps, OpenOps
<1>9. CallsHaveFds'
  BY <1>5 DEF AnalysisInv, ProcsInv, CallsHaveFds
<1>10. ProcsInv'
  BY <1>5, <1>8, <1>9 DEF AnalysisInv, ProcsInv
<1>11. PICK a : a = IF Creates(l, sys, ret) THEN CreateFd(stats, l, fd, ts) ELSE stats
  OBVIOUS
<1>12. PICK b : b = IF sys.op \in RqOps THEN IoRqExit(a, t, l, sys, ret) ELSE a
  OBVIOUS
<1>13. PICK s : s = IF Closes(sys, ret) THEN CloseFd(b, l, fd, ts) ELSE b
  OBVIOUS
<1>14. Notified(s)
  BY <1>1, <1>2, <1>3, <1>4, <1>11, <1>12, <1>13 DEF ExitNotified
<1>15. IsStats(stats)
  BY DEF AnalysisInv, StatsInv
<1>16. /\ Stepped(a, stats)
       /\ \A u, x : HasFd(stats, u, x) \/ (Creates(l, sys, ret) /\ u = l /\ x = fd) => HasFd(a, u, x)
  <2>1. CASE Creates(l, sys, ret)
    <3>1. a = CreateFd(stats, l, fd, ts)
      BY <1>11, <2>1
    <3> QED BY <1>6, <1>8, <1>15, <2>1, <3>1, CreateParts
  <2>2. CASE ~Creates(l, sys, ret)
    <3>1. a = stats
      BY <1>11, <2>2
    <3> QED BY <1>15, <2>2, <3>1, SteppedNot
  <2> QED BY <2>1, <2>2
<1>17. Stepped(b, a) /\ \A u, x : HasFd(b, u, x) <=> HasFd(a, u, x)
  <2>0. IsStats(a)
    BY <1>16 DEF Stepped
  <2>1. CASE sys.op \in RqOps
    <3>1. b = IoRqExit(a, t, l, sys, ret)
      BY <1>12, <2>1
    <3> QED BY <1>6, <1>7, <2>0, <3>1, IoRqParts
  <2>2. CASE sys.op \notin RqOps
    <3>1. b = a
      BY <1>12, <2>2
    <3> QED BY <2>0, <3>1, SteppedNot
  <2> QED BY <2>1, <2>2
<1>18. /\ Stepped(s, b)
       /\ \A u, x : HasFd(b, u, x) => HasFd(s, u, x) \/ (Closes(sys, ret) /\ u = l /\ x = fd)
  <2>0. IsStats(b)
    BY <1>17 DEF Stepped
  <2>1. CASE Closes(sys, ret)
    <3>1. s = CloseFd(b, l, fd, ts)
      BY <1>13, <2>1
    <3> QED BY <1>6, <2>0, <2>1, <3>1, CloseParts
  <2>2. CASE ~Closes(sys, ret)
    <3>1. s = b
      BY <1>13, <2>2
    <3> QED BY <2>0, <3>1, SteppedNot
  <2> QED BY <2>1, <2>2
<1>19. Stepped(s, stats)
  BY <1>16, <1>17, <1>18 DEF Stepped
<1>20. Opened(procs, stats) => Opened(procs', s)
  BY <1>5, <1>16, <1>17, <1>18 DEF Opened
<1> QED BY <1>10, <1>14, <1>19, <1>20, NotifiedStep

\* _process_update_fd(), of a descriptor that the thread has.
LEMMA UpdateStep ==
    ASSUME AnalysisInv, NEW ts \in Nat, At(ts), NEW t \in Tids, NEW fd,
           Has(procs, t, fd), UpdateFd(ts, t, fd),
           ProcsInv', \A u, x : Has(procs', u, x) => Has(procs, u, x)
    PROVE  AnalysisInv'
<1>1. CASE t \notin DOMAIN stats
  <2>1. /\ fault = "none" /\ fault' = "KeyError" /\ now' = ts /\ setting' = setting
        /\ stats' = stats /\ first' = first /\ dropped' = dropped
    BY <1>1 DEF UpdateFd, Fails, At
  <2>2. ~first
    BY <1>1, <2>1 DEF AnalysisInv, OpenInv, Opened, HasFd
  <2> QED BY <2>1, <2>2 DEF AnalysisInv, StatsInv, OpenInv
<1>2. CASE t \in DOMAIN stats
  <2>1. PICK s : s = IF ListOf(stats, t, fd) = << >> THEN CreateFd(stats, t, fd, ts) ELSE stats
    OBVIOUS
  <2>2. Notified(s)
    BY <1>2, <2>1 DEF UpdateFd
  <2>3. IsStats(stats) /\ fd \in Fds
    BY DEF AnalysisInv, StatsInv, ProcsInv
  <2>4. Stepped(s, stats) /\ \A u, x : HasFd(stats, u, x) => HasFd(s, u, x)
    <3>1. CASE ListOf(stats, t, fd) = << >>
      <4>1. s = CreateFd(stats, t, fd, ts)
        BY <2>1, <3>1
      <4> QED BY <2>3, <4>1, CreateParts
    <3>2. CASE ListOf(stats, t, fd) # << >>
      <4>1. s = stats
        BY <2>1, <3>2
      <4> QED BY <2>3, <4>1, SteppedNot
    <3> QED BY <3>1, <3>2
  <2>5. Opened(procs, stats) => Opened(procs', s)
    BY <2>4 DEF Opened
  <2> QED BY <2>2, <2>4, <2>5, NotifiedStep
<1> QED BY <1>1, <1>2

LEMMA ConnectStep ==
    ASSUME AnalysisInv, NEW ts \in Nat, At(ts), NEW c \in Cpus, NEW fd \in Fds, NEW n,
           Connect(c, fd, n), ConnectNotified(ts, cpus[c], fd)
    PROVE  AnalysisInv'
<1>1. PICK t : t = cpus[c]
  OBVIOUS
<1>2. /\ ProcsOK' /\ t \in DOMAIN procs
      /\ \A u, x : Has(procs', u, x) <=> Has(procs, u, x)
      /\ \A u : CallIn(procs', u) = IF u = t THEN Request(NoFds, NoArgs) ELSE CallIn(procs, u)
  BY <1>1, ConnectProcs DEF AnalysisInv, ProcsInv
<1>3. CallsHaveFds'
  <2>1. PICK r : r = Request(NoFds, NoArgs)
    OBVIOUS
  <2>2. r.op = "other"
    BY <2>1 DEF Request, NoArgs
  <2> QED BY <1>2, <2>1, <2>2 DEF AnalysisInv, ProcsInv, CallsHaveFds
<1>4. ProcsInv'
  BY <1>2, <1>3 DEF AnalysisInv, ProcsInv
<1>5. t \in Tids /\ t \in DOMAIN procs'
  <2>1. t \in Tids
    BY <1>2 DEF AnalysisInv, ProcsInv, ProcsOK, IsTable
  <2>2. cpus' = cpus
    BY DEF Connect
  <2>3. cpus'[c] # None
    BY <2>2 DEF Connect
  <2>4. cpus'[c] \in DOMAIN procs'
    BY <1>2, <2>3 DEF ProcsOK
  <2> QED BY <1>1, <2>1, <2>2, <2>4
<1>6. CASE fd \in DOMAIN procs'[t].fds
  <2>1. Has(procs, t, fd)
    BY <1>2, <1>5, <1>6 DEF Has
  <2>2. UpdateFd(ts, t, fd)
    BY <1>1, <1>6 DEF ConnectNotified
  <2> QED BY <1>2, <1>4, <1>5, <2>1, <2>2, UpdateStep
<1>7. CASE fd \notin DOMAIN procs'[t].fds
  <2>1. Notified(stats)
    BY <1>1, <1>7 DEF ConnectNotified, NotNotified
  <2>2. Stepped(stats, stats)
    BY SteppedNot DEF AnalysisInv, StatsInv
  <2>3. Opened(procs, stats) => Opened(procs', stats)
    BY <1>2 DEF Opened
  <2> QED BY <1>4, <2>1, <2>2, <2>3, NotifiedStep
<1> QED BY <1>6, <1>7

LEMMA ForkStep ==
    ASSUME AnalysisInv, NEW ts \in Nat, At(ts), NEW child \in Tids, NEW parent \in Tids,
           NEW pid \in {child, parent}, Fork(child, pid, parent), ForkNotified(ts, child)
    PROVE  AnalysisInv'
<1>1. /\ ProcsOK' /\ child \in DOMAIN procs'
      /\ \A u, fd : Has(procs', u, fd) <=>
            IF u = child THEN Has(procs, parent, fd) ELSE Has(procs, u, fd)
      /\ \A u : CallIn(procs', u) = IF u = child THEN None ELSE CallIn(procs, u)
  BY ForkProcs DEF AnalysisInv, ProcsInv
<1>2. ProcsInv'
  <2>1. CallsHaveFds'
    BY <1>1 DEF AnalysisInv, ProcsInv, CallsHaveFds
  <2> QED BY <1>1, <2>1 DEF AnalysisInv, ProcsInv
<1>3. PICK N : N = DOMAIN procs'[child].fds
  OBVIOUS
<1>4. \A x : x \in N <=> Has(procs', child, x)
  BY <1>1, <1>3 DEF Has
<1>5. N \in SUBSET Fds /\ IsStats(stats)
  BY <1>2, <1>4 DEF ProcsInv, AnalysisInv, StatsInv
<1>6. CASE N = {}
  <2>1. Notified(stats)
    BY <1>3, <1>6 DEF ForkNotified, NotNotified
  <2>2. Opened(procs, stats) => Opened(procs', stats)
    BY <1>1, <1>4, <1>6 DEF Opened
  <2> QED BY <1>2, <1>5, <2>1, <2>2, SteppedNot, NotifiedStep
<1>7. CASE N # {}
  <2>1. PICK s : s = ForkStats(stats, child, N, ts)
    OBVIOUS
  <2>2. Notified(s)
    BY <1>3, <1>7, <2>1 DEF ForkNotified, ForkStats
  <2>3. /\ Stepped(s, stats)
        /\ \A u, x : HasFd(s, u, x) <=> HasFd(stats, u, x) \/ (u = child /\ x \in N)
    BY <1>5, <2>1, ForkParts
  <2>4. Opened(procs, stats) => Opened(procs', s)
    BY <1>1, <1>4, <2>3 DEF Opened
  <2> QED BY <1>2, <2>2, <2>3, <2>4, NotifiedStep
<1> QED BY <1>6, <1>7

LEMMA ExecStep ==
    ASSUME AnalysisInv, NEW ts \in Nat, At(ts), NEW t \in Tids, Exec(t), ExecNotified(ts, t)
    PROVE  AnalysisInv'
<1>1. PICK S : S = CloseOnExec(t)
  OBVIOUS
<1>2. /\ ProcsOK'
      /\ \A u, fd : Has(procs', u, fd) => Has(procs, u, fd) /\ ~(u = t /\ fd \in S)
      /\ \A u : CallIn(procs', u) \in {CallIn(procs, u), None}
  BY <1>1, ExecProcs DEF AnalysisInv, ProcsInv
<1>3. ProcsInv'
  BY <1>2, SameProcs DEF AnalysisInv
<1>4. IsStats(stats)
  BY DEF AnalysisInv, StatsInv
<1>5. CASE t \notin DOMAIN stats
  <2>1. Notified(stats)
    BY <1>5 DEF ExecNotified, NotNotified
  <2>2. Opened(procs, stats) => Opened(procs', stats)
    BY <1>2 DEF Opened
  <2> QED BY <1>3, <1>4, <2>1, <2>2, SteppedNot, NotifiedStep
<1>6. CASE t \in DOMAIN stats
  <2>1. PICK s : s = ExecStats(stats, t, S, ts)
    OBVIOUS
  <2>2. Notified(s)
    BY <1>1, <1>6, <2>1 DEF ExecNotified, ExecStats
  <2>3. /\ Stepped(s, stats)
        /\ \A u, x : HasFd(stats, u, x) => HasFd(s, u, x) \/ (u = t /\ x \in S)
    BY <1>4, <1>6, <2>1, ExecParts
  <2>4. Opened(procs, stats) => Opened(procs', s)
    BY <1>2, <2>3 DEF Opened
  <2> QED BY <1>3, <2>2, <2>3, <2>4, NotifiedStep
<1> QED BY <1>5, <1>6

LEMMA DumpStep ==
    ASSUME AnalysisInv, NEW ts \in Nat, At(ts), NEW t \in Tids, NEW pid \in Tids,
           StatedumpProcess(t, pid), ParentNotified(t, pid)
    PROVE  AnalysisInv'
<1>1. /\ ProcsOK'
      /\ \A u, fd : Has(procs', u, fd) <=>
            IF pid # t /\ u = t THEN FALSE
            ELSE Has(procs, u, fd) \/ (u = pid /\ Has(procs, t, fd))
      /\ \A u : CallIn(procs', u) = CallIn(procs, u)
  BY DumpProcs DEF AnalysisInv, ProcsInv
<1>2. ProcsInv'
  <2>1. CallsHaveFds'
    BY <1>1 DEF AnalysisInv, ProcsInv, CallsHaveFds
  <2> QED BY <1>1, <2>1 DEF AnalysisInv, ProcsInv
<1>3. IsStats(stats) /\ fault = "none" /\ now' = ts /\ setting' = setting
  BY DEF AnalysisInv, StatsInv, At
<1>4. CASE pid = t
  <2>1. Notified(stats)
    BY <1>4 DEF ParentNotified, NotNotified
  <2>2. Opened(procs, stats) => Opened(procs', stats)
    BY <1>1, <1>4 DEF Opened
  <2> QED BY <1>2, <1>3, <2>1, <2>2, SteppedNot, NotifiedStep
<1>5. CASE pid # t
  <2>1. PICK mid : mid = Ensure(stats, t, NewStats)
    OBVIOUS
  <2>2. PICK known : known = Ensure(mid, pid, NewStats)
    OBVIOUS
  <2>3. PICK own : own = known[t].fds
    OBVIOUS
  <2>4. PICK lead : lead = known[pid].fds
    OBVIOUS
  <2>5. Grown(mid, stats) /\ t \in DOMAIN mid
    BY <1>3, <2>1, EnsureStats
  <2>6. Grown(known, mid) /\ pid \in DOMAIN known
    <3>1. IsStats(mid)
      BY <2>5 DEF Grown
    <3> QED BY <2>2, <3>1, EnsureStats
  <2>7. /\ IsStats(known) /\ t \in DOMAIN known /\ Balance(known) = Balance(stats)
        /\ \A u, fd : ListOf(known, u, fd) = ListOf(stats, u, fd)
    BY <2>5, <2>6 DEF Grown
  <2>8. \A u, x : HasFd(known, u, x) <=> HasFd(stats, u, x)
    BY <1>3, <2>7, ListIn
  <2>9. CASE \E fd \in DOMAIN own \cap DOMAIN lead : ~IsOpen(lead[fd])
    <3>1. Fails("AttributeError")
      BY <1>5, <2>1, <2>2, <2>3, <2>4, <2>9 DEF ParentNotified
    <3>2. /\ fault' = "AttributeError"
          /\ stats' = stats /\ first' = first /\ dropped' = dropped
      BY <3>1 DEF Fails
    <3> QED BY <1>2, <1>3, <3>2 DEF AnalysisInv, StatsInv, OpenInv
  <2>10. CASE \A fd \in DOMAIN own \cap DOMAIN lead : IsOpen(lead[fd])
    <3>1. /\ stats' = MergedStats(known, t, pid)
          /\ dropped' = dropped + Common(lead, own)
          /\ first' = first /\ fault' = fault
      BY <1>5, <2>1, <2>2, <2>3, <2>4, <2>10
      DEF ParentNotified, MergedStats, Merged, Common
    <3>2. PICK s : s = MergedStats(known, t, pid)
      OBVIOUS
    <3>3. /\ IsStats(s) /\ Common(lead, own) \in Nat
          /\ Balance(s) = Balance(known) + Common(lead, own)
          /\ \A u, x : (HasFd(known, u, x) /\ u # t) \/ (u = pid /\ HasFd(known, t, x))
                         => HasFd(s, u, x)
      BY <1>5, <2>3, <2>4, <2>6, <2>7, <2>10, <3>2, MergeParts
    <3>4. StatsInv'
      <4>1. dropped \in Nat /\ Balance(stats) = dropped /\ setting \in Settings
        BY DEF AnalysisInv, StatsInv
      <4>2. dropped' \in Nat /\ Balance(s) = dropped'
        BY <2>7, <3>1, <3>3, <4>1
      <4> QED BY <1>3, <3>1, <3>2, <3>3, <4>1, <4>2 DEF StatsInv
    <3>5. Opened(procs, stats) => Opened(procs', s)
      BY <1>1, <1>5, <2>8, <3>3 DEF Opened
    <3>6. OpenInv'
      BY <1>3, <3>1, <3>2, <3>5 DEF AnalysisInv, OpenInv
    <3> QED BY <1>2, <3>4, <3>6 DEF AnalysisInv
  <2> QED BY <2>9, <2>10
<1> QED BY <1>4, <1>5

LEMMA DumpFdStep ==
    ASSUME AnalysisInv, NEW ts \in Nat, At(ts), NEW t \in Tids, NEW fd \in Fds, NEW n,
           NEW cloexec, StatedumpFd(t, fd, n, cloexec), StatedumpFdNotified(ts, t, fd)
    PROVE  AnalysisInv'
<1>1. /\ ProcsOK'
      /\ \A u, x : Has(procs', u, x) <=> Has(procs, u, x) \/ (u = t /\ x = fd)
      /\ \A u : CallIn(procs', u) = CallIn(procs, u)
  BY StatedumpFdProcs DEF AnalysisInv, ProcsInv
<1>2. ProcsInv'
  <2>1. CallsHaveFds'
    BY <1>1 DEF AnalysisInv, ProcsInv, CallsHaveFds
  <2> QED BY <1>1, <2>1 DEF AnalysisInv, ProcsInv
<1>3. CASE Has(procs, t, fd)
  <2>1. UpdateFd(ts, t, fd)
    BY <1>3 DEF StatedumpFdNotified, Has
  <2>2. \A u, x : Has(procs', u, x) => Has(procs, u, x)
    BY <1>1, <1>3
  <2> QED BY <1>2, <1>3, <2>1, <2>2, UpdateStep
<1>4. CASE ~Has(procs, t, fd)
  <2>1. PICK s : s = CreateFd(stats, t, fd, ts)
    OBVIOUS
  <2>2. Notified(s)
    BY <1>4, <2>1 DEF StatedumpFdNotified, Has
  <2>3. IsStats(stats)
    BY DEF AnalysisInv, StatsInv
  <2>4. /\ Stepped(s, stats)
        /\ \A u, x : HasFd(s, u, x) <=> HasFd(stats, u, x) \/ (u = t /\ x = fd)
    BY <2>1, <2>3, CreateParts
  <2>5. Opened(procs, stats) => Opened(procs', s)
    BY <1>1, <2>4 DEF Opened
  <2> QED BY <1>2, <2>2, <2>4, <2>5, NotifiedStep
<1> QED BY <1>3, <1>4

\* A period begins without statistics.
LEMMA NoStats ==
    IsStats([t \in {} |-> NewStats]) /\ Balance([t \in {} |-> NewStats]) = 0
<1>1. PICK s : s = [t \in {} |-> NewStats]
  OBVIOUS
<1>2. DOMAIN s = {} /\ s = [t \in DOMAIN s |-> s[t]] /\ IsFiniteSet({})
  BY <1>1, FS_EmptySet
<1>3. IsStats(s)
  BY <1>2 DEF IsStats
<1>4. Balance(s) = 0
  <2>1. PICK f : f = [t \in DOMAIN s |-> Excess(s[t])]
    OBVIOUS
  <2>2. DOMAIN f = {}
    BY <1>2, <2>1
  <2>3. SumFunction(f) = 0
    BY <2>2, SumEmpty DEF SumFunction
  <2> QED BY <2>1, <2>3 DEF Balance
<1> QED BY <1>1, <1>3, <1>4

LEMMA PeriodStep ==
    ASSUME AnalysisInv, NEW ts \in Nat, NextPeriod(ts)
    PROVE  AnalysisInv'
<1>1. /\ now' = ts /\ setting' = setting /\ cpus' = cpus /\ procs' = procs
      /\ stats' = [t \in {} |-> NewStats] /\ first' = FALSE /\ dropped' = 0
  BY DEF NextPeriod, At, ioVars
<1>2. ProcsInv'
  BY <1>1 DEF AnalysisInv, ProcsInv, ProcsOK, CallsHaveFds
<1>3. StatsInv'
  BY <1>1, NoStats DEF AnalysisInv, StatsInv
<1>4. OpenInv'
  BY <1>1 DEF OpenInv
<1> QED BY <1>2, <1>3, <1>4 DEF AnalysisInv

LEMMA AnalysisStarts == AnalysisInit => AnalysisInv
<1> SUFFICES ASSUME AnalysisInit PROVE AnalysisInv
  OBVIOUS
<1>1. /\ cpus = [c \in Cpus |-> None] /\ procs = [t \in {} |-> Process(None)]
      /\ setting \in Settings /\ now = 0 /\ dropped = 0 /\ fault = "none"
      /\ stats = [t \in {} |-> NewStats]
  BY DEF AnalysisInit, IoInit
<1>2. DOMAIN procs = {} /\ IsTable(procs)
  BY <1>1 DEF IsTable
<1>3. ProcsInv
  BY <1>1, <1>2 DEF ProcsInv, ProcsOK, CallsHaveFds, CallIn, Has
<1>4. StatsInv
  BY <1>1, NoStats DEF StatsInv
<1>5. OpenInv
  BY <1>1, <1>2 DEF OpenInv, Opened, Has
<1> QED BY <1>3, <1>4, <1>5 DEF AnalysisInv

LEMMA AnalysisSteps == AnalysisInv /\ [AnalysisNext]_analysisVars => AnalysisInv'
<1> SUFFICES ASSUME AnalysisInv, [AnalysisNext]_analysisVars PROVE AnalysisInv'
  OBVIOUS
<1>1. CASE UNCHANGED analysisVars
  BY <1>1 DEF analysisVars, ioVars, AnalysisInv, ProcsInv, ProcsOK, CallsHaveFds,
              StatsInv, OpenInv
<1>2. ASSUME NEW ts \in Nat, NextPeriod(ts) PROVE AnalysisInv'
  BY <1>2, PeriodStep
<1>3. ASSUME NEW ts \in Nat, At(ts), AnalysisEvent(ts) PROVE AnalysisInv'
  <2>0. /\ setting.tgid \in [Tids -> Tids] /\ setting.calls \subseteq Calls
        /\ \A c \in Cpus : cpus[c] # None => cpus[c] \in Tids
    BY SettingsAssumption DEF AnalysisInv, StatsInv, ProcsInv, ProcsOK, IsTable
  <2>1. CASE \E c \in Cpus, prev, next \in Tids \cup {None} :
                Switch(c, prev, next) /\ NotNotified
    BY <1>3, <2>1, SwitchStep
  <2>2. CASE \E c \in Cpus, call \in setting.calls :
                LET pid == IF setting.context THEN setting.tgid[cpus[c]] ELSE None
                IN Entry(c, call, pid) /\ EntryNotified(ts, cpus[c], call, pid)
    <3>1. PICK c \in Cpus, call \in setting.calls :
             LET pid == IF setting.context THEN setting.tgid[cpus[c]] ELSE None
             IN Entry(c, call, pid) /\ EntryNotified(ts, cpus[c], call, pid)
      BY <2>2
    <3>2. PICK pid : pid = IF setting.context THEN setting.tgid[cpus[c]] ELSE None
      OBVIOUS
    <3>3. Entry(c, call, pid) /\ EntryNotified(ts, cpus[c], call, pid)
      BY <3>1, <3>2
    <3>4. call \in Calls /\ pid \in Tids \cup {None}
      BY <2>0, <3>2, <3>3 DEF Entry
    <3> QED BY <1>3, <3>3, <3>4, EntryStep
  <2>3. CASE \E c \in Cpus :
                /\ cpus[c] # None
                /\ \E ret \in Results(procs[cpus[c]].sys) :
                     Exit(c, ret) /\ ExitNotified(ts, cpus[c], ret)
    BY <1>3, <2>3, ExitStep
  <2>4. CASE \E c \in Cpus, fd \in Fds, n \in Files :
                Connect(c, fd, n) /\ ConnectNotified(ts, cpus[c], fd)
    BY <1>3, <2>4, ConnectStep
  <2>5. CASE \E c \in Cpus : Ignored(c) /\ NotNotified
    BY <1>3, <2>5, IgnoredStep
  <2>6. CASE \E child, parent \in Tids :
                /\ child # parent
                /\ setting.tgid[child] \in {child, parent}
                /\ setting.tgid[parent] = parent
                /\ Fork(child, setting.tgid[child], parent)
                /\ ForkNotified(ts, child)
    BY <1>3, <2>6, ForkStep
  <2>7. CASE \E t \in Tids : Exec(t) /\ ExecNotified(ts, t)
    BY <1>3, <2>7, ExecStep
  <2>8. CASE \E t \in Tids :
                StatedumpProcess(t, setting.tgid[t]) /\ ParentNotified(t, setting.tgid[t])
    BY <1>3, <2>0, <2>8, DumpStep
  <2>9. CASE \E t \in Tids, fd \in Fds, n \in Files :
                /\ setting.tgid[t] = t
                /\ StatedumpFd(t, fd, n, setting.cloexec)
                /\ StatedumpFdNotified(ts, t, fd)
    BY <1>3, <2>9, DumpFdStep
  <2> QED BY <1>3, <2>1, <2>2, <2>3, <2>4, <2>5, <2>6, <2>7, <2>8, <2>9 DEF AnalysisEvent
<1>4. \A ts \in 0 .. setting.maxTs : ts \in Nat
  OBVIOUS
<1> QED BY <1>1, <1>2, <1>3, <1>4 DEF AnalysisNext

\* In the first period all the descriptors that the automaton knows are open
\* in the statistics, so that no update of one fails (core/io.py:171-185,
\* 232-247, 272).
THEOREM IoOpenFds == AnalysisSpec => []OpenFdsHaveStats
<1>1. AnalysisInv => OpenFdsHaveStats
  BY DEF AnalysisInv, OpenInv, Opened, OpenFdsHaveStats, Has
<1> QED BY <1>1, AnalysisStarts, AnalysisSteps, PTL DEF AnalysisSpec

\* The bytes that the threads read are those of their descriptors and those
\* dropped (core/io.py:155-195, 121-136).
THEOREM IoBytes == AnalysisSpec => []BytesAreConserved
<1>1. AnalysisInv => BytesAreConserved
  <2> SUFFICES ASSUME AnalysisInv PROVE BytesAreConserved
    OBVIOUS
  <2>1. PICK s : s = stats
    OBVIOUS
  <2>2. PICK f : f = [t \in DOMAIN s |-> s[t].bytes]
    OBVIOUS
  <2>3. PICK g : g = [t \in DOMAIN s |-> InFds(s[t].fds)]
    OBVIOUS
  <2>4. PICK h : h = [t \in DOMAIN s |-> Excess(s[t])]
    OBVIOUS
  <2>5. IsStats(s) /\ Balance(s) = dropped
    BY <2>1 DEF AnalysisInv, StatsInv
  <2>6. IsFiniteSet(DOMAIN s) /\ \A t \in DOMAIN s : IsProcStats(s[t])
    BY <2>5 DEF IsStats
  <2>7. \A t \in DOMAIN s : f[t] \in Int /\ g[t] \in Int /\ h[t] = f[t] - g[t]
    <3> TAKE t \in DOMAIN s
    <3>1. s[t].bytes \in Nat /\ InFds(s[t].fds) \in Int
      BY <2>6, ExcessInt DEF IsProcStats
    <3> QED BY <2>2, <2>3, <2>4, <3>1 DEF Excess
  <2>8. SumFunctionOnSet(h, DOMAIN s) = SumFunctionOnSet(f, DOMAIN s) - SumFunctionOnSet(g, DOMAIN s)
    BY <2>6, <2>7, SumMinus
  <2>9. SumFunctionOnSet(f, DOMAIN s) \in Int /\ SumFunctionOnSet(g, DOMAIN s) \in Int
    BY <2>6, <2>7, SumInt
  <2>10. SumFunction(h) = SumFunction(f) - SumFunction(g)
    BY <2>2, <2>3, <2>4, <2>8 DEF SumFunction
  <2>11. SumFunction(f) \in Int /\ SumFunction(g) \in Int /\ SumFunction(h) = dropped
    BY <2>2, <2>3, <2>4, <2>5, <2>9 DEF SumFunction, Balance
  <2>12. SumFunction(f) = dropped + SumFunction(g)
    BY <2>10, <2>11
  <2> QED BY <2>1, <2>2, <2>3, <2>12 DEF BytesAreConserved, InFds
<1> QED BY <1>1, AnalysisStarts, AnalysisSteps, PTL DEF AnalysisSpec

-----------------------------------------------------------------------------
(* The calls of the threads of a kernel.                                   *)

\* What the theorem needs of the configurations: the context `pid`, which makes
\* the provider replace the Process of a leader (io.py:351), is only there when
\* every process has one thread.
ContextOfLeaders == \A f \in Confs : f.context => \A t \in Tids : f.tgid[t] = t

\* None is neither a request nor a call.
NoneIsNoRecord ==
    /\ \A fds, call : Request(fds, call) # None
    /\ \A call, ret, seen : [call |-> call, ret |-> ret, seen |-> seen] # None

\* The call of a thread, and the request that the automaton has of it.
Matches(k, sys) ==
    IF k = None \/ ~k.seen THEN sys = None
    ELSE /\ sys # None
         /\ sys.op = k.call.op
         /\ sys.op \notin OpenOps => sys.fd = k.call.fd

IsCall(k) ==
    k # None => k = [call |-> k.call, ret |-> k.ret, seen |-> k.seen] /\ k.seen \in BOOLEAN

\* A thread runs on one CPU, of which the automaton knows it or nothing; then it
\* has not seen the entry of its call.
CpusInv ==
    /\ running = [c \in Cpus |-> running[c]] /\ alive \subseteq Tids
    /\ \A c \in Cpus : running[c] # None => running[c] \in alive
    /\ \A c, d \in Cpus : running[c] # None /\ running[c] = running[d] => c = d
    /\ \A c \in Cpus : cpus[c] \in {None, running[c]}

CallsInv ==
    /\ calls = [t \in Tids |-> calls[t]] /\ \A t \in Tids : IsCall(calls[t])
    /\ \A t \in Tids \ alive : calls[t] = None
    /\ \A c \in Cpus : cpus[c] = None /\ running[c] # None /\ calls[running[c]] # None
                         => ~calls[running[c]].seen
    /\ \A t \in alive : Matches(calls[t], CallIn(procs, t))

TraceInv == conf \in Confs /\ ProcsOK /\ CpusInv /\ CallsInv

LEMMA TraceStarts ==
    ASSUME NoneIsNoRecord, TraceInit
    PROVE  TraceInv
<1>1. /\ cpus = [c \in Cpus |-> None] /\ procs = [t \in {} |-> Process(None)]
      /\ conf \in Confs /\ alive = conf.alive
      /\ running \in [Cpus -> alive \cup {None}]
      /\ \A c \in Cpus \ conf.cpus : running[c] = None
      /\ \A c, d \in Cpus : running[c] = running[d] => c = d \/ running[c] = None
      /\ calls \in [Tids -> {None} \cup {Call(x, FALSE) : x \in conf.begun}]
      /\ \A t \in Tids \ alive : calls[t] = None
  BY DEF TraceInit, IoInit
<1>2. DOMAIN procs = {} /\ ProcsOK
  BY <1>1 DEF IsTable, ProcsOK
<1>3. CpusInv
  <2>1. alive \subseteq Tids
    BY <1>1, ConfsAssumption
  <2> QED BY <1>1, <2>1 DEF CpusInv
<1>4. ASSUME NEW t \in Tids
      PROVE  IsCall(calls[t]) /\ (calls[t] # None => ~calls[t].seen)
  <2>1. CASE calls[t] = None
    BY <2>1 DEF IsCall
  <2>2. CASE calls[t] # None
    <3>1. PICK x : calls[t] = Call(x, FALSE)
      BY <1>1, <2>2
    <3> QED BY <3>1 DEF IsCall, Call
  <2> QED BY <2>1, <2>2
<1>5. CallsInv
  <2>1. \A t : CallIn(procs, t) = None
    BY <1>2 DEF CallIn
  <2>2. \A t \in alive : Matches(calls[t], CallIn(procs, t))
    BY <1>3, <1>4, <2>1 DEF Matches, CpusInv
  <2> QED BY <1>1, <1>3, <1>4, <2>2 DEF CallsInv, CpusInv
<1> QED BY <1>1, <1>2, <1>3, <1>5 DEF TraceInv

LEMMA EnterStep ==
    ASSUME NoneIsNoRecord, ContextOfLeaders, TraceInv, NEW c \in Cpus,
           NEW call \in conf.calls, KernelEnter(c, call)
    PROVE  TraceInv'
<1>1. PICK t : t = running[c]
  OBVIOUS
<1>2. PICK k : k = Call(call, cpus[c] = t)
  OBVIOUS
<1>3. /\ t # None /\ calls[t] = None /\ calls' = [calls EXCEPT ![t] = k]
      /\ conf' = conf /\ alive' = alive /\ running' = running
  BY <1>1, <1>2 DEF KernelEnter
<1>4. t \in alive /\ t \in Tids /\ call \in Calls /\ cpus[c] \in {None, t}
      /\ CallIn(procs, t) = None
  <2>1. t \in alive /\ t \in Tids /\ cpus[c] \in {None, t}
    BY <1>1, <1>3 DEF TraceInv, CpusInv
  <2>2. CallIn(procs, t) = None
    BY <1>3, <2>1 DEF TraceInv, CallsInv, Matches
  <2> QED BY <2>1, <2>2, ConfsAssumption DEF TraceInv
<1>5. k # None /\ IsCall(k) /\ k.call = call /\ (k.seen <=> cpus[c] = t)
  <2>1. k = [call |-> call, ret |-> None, seen |-> cpus[c] = t]
    BY <1>2 DEF Call
  <2>2. (cpus[c] = t) \in BOOLEAN
    OBVIOUS
  <2> QED BY <2>1, <2>2 DEF IsCall, NoneIsNoRecord
<1>6. /\ ProcsOK' /\ cpus' = cpus
      /\ \A u : u # t => CallIn(procs', u) = CallIn(procs, u)
      /\ Matches(k, CallIn(procs', t))
  <2>1. CASE cpus[c] = None
    <3>1. cpus' = cpus /\ procs' = procs
      BY <2>1 DEF KernelEnter, ioVars
    <3>2. ~k.seen
      BY <1>3, <1>5, <2>1
    <3> QED BY <1>4, <3>1, <3>2 DEF Matches, TraceInv, ProcsOK
  <2>2. CASE cpus[c] # None
    <3>1. PICK pid : pid = IF conf.context THEN conf.tgid[t] ELSE None
      OBVIOUS
    <3>2. cpus[c] = t /\ Entry(c, call, pid)
      BY <1>1, <1>4, <2>2, <3>1 DEF KernelEnter
    <3>3. pid \in {None, t}
      BY <1>4, <3>1 DEF ContextOfLeaders, TraceInv
    <3>4. /\ ProcsOK'
          /\ \E fds : CallIn(procs', t) = Request(fds, call)
          /\ \A u : u # t => CallIn(procs', u) = CallIn(procs, u)
      BY <1>4, <3>2, <3>3, EntryProcs DEF TraceInv
    <3>5. PICK fds : CallIn(procs', t) = Request(fds, call)
      BY <3>4
    <3>6. PICK r : r = Request(fds, call)
      OBVIOUS
    <3>7. r # None
      BY <3>6 DEF NoneIsNoRecord
    <3>8. r.op = call.op /\ (call.op \notin OpenOps => r.fd = call.fd)
      BY <3>6 DEF Request
    <3>9. Matches(k, r)
      BY <1>5, <3>2, <3>7, <3>8 DEF Matches
    <3>10. cpus' = cpus
      BY <3>2 DEF Entry
    <3> QED BY <3>4, <3>5, <3>6, <3>9, <3>10
  <2> QED BY <2>1, <2>2
<1>7. /\ calls' = [u \in Tids |-> calls'[u]]
      /\ \A u \in Tids : calls'[u] = IF u = t THEN k ELSE calls[u]
  BY <1>3, <1>4 DEF TraceInv, CallsInv
<1>8. CpusInv'
  BY <1>3, <1>6 DEF TraceInv, CpusInv
<1>9. CallsInv'
  <2>1. \A u \in Tids : IsCall(calls'[u])
    BY <1>5, <1>7 DEF TraceInv, CallsInv
  <2>2. \A u \in Tids \ alive : calls'[u] = None
    BY <1>4, <1>7 DEF TraceInv, CallsInv
  <2>3. ASSUME NEW d \in Cpus, cpus[d] = None, running[d] # None, calls'[running[d]] # None
        PROVE  ~calls'[running[d]].seen
    <3>1. running[d] \in Tids
      BY <2>3 DEF TraceInv, CpusInv
    <3>2. CASE running[d] = t
      <4>1. d = c
        BY <1>1, <1>3, <3>2 DEF TraceInv, CpusInv
      <4> QED BY <1>3, <1>5, <1>7, <2>3, <3>1, <3>2, <4>1
    <3>3. CASE running[d] # t
      BY <1>7, <2>3, <3>1, <3>3 DEF TraceInv, CallsInv
    <3> QED BY <3>2, <3>3
  <2>4. \A u \in alive : Matches(calls'[u], CallIn(procs', u))
    <3> TAKE u \in alive
    <3>1. u \in Tids
      BY DEF TraceInv, CpusInv
    <3>2. CASE u = t
      BY <1>6, <1>7, <3>1, <3>2
    <3>3. CASE u # t
      BY <1>6, <1>7, <3>1, <3>3 DEF TraceInv, CallsInv
    <3> QED BY <3>2, <3>3
  <2> QED BY <1>3, <1>6, <1>7, <2>1, <2>2, <2>3, <2>4 DEF CallsInv
<1> QED BY <1>3, <1>6, <1>8, <1>9 DEF TraceInv

\* An event of no call.
LEMMA QuietStep ==
    ASSUME TraceInv, ProcsOK', UNCHANGED <<conf, alive, running, calls, cpus>>,
           \A u : CallIn(procs', u) = CallIn(procs, u)
    PROVE  TraceInv'
<1>1. CpusInv'
  BY DEF TraceInv, CpusInv
<1>2. CallsInv'
  BY DEF TraceInv, CallsInv
<1> QED BY <1>1, <1>2 DEF TraceInv

LEMMA DoStep ==
    ASSUME NoneIsNoRecord, TraceInv, NEW t \in Tids, KernelDo(t)
    PROVE  TraceInv'
<1>1. PICK o : calls' = [calls EXCEPT ![t].ret = o.ret]
  BY DEF KernelDo
<1>2. PICK k : k = calls[t]
  OBVIOUS
<1>3. PICK n : n = [k EXCEPT !.ret = o.ret]
  OBVIOUS
<1>4. /\ k # None /\ IsCall(k) /\ conf' = conf /\ alive' = alive /\ running' = running
      /\ cpus' = cpus /\ procs' = procs
  BY <1>2 DEF KernelDo, TraceInv, CallsInv, ioVars
<1>5. n # None /\ IsCall(n) /\ n.call = k.call /\ n.seen = k.seen
  <2>1. n = [call |-> k.call, ret |-> o.ret, seen |-> k.seen] /\ k.seen \in BOOLEAN
    BY <1>3, <1>4 DEF IsCall
  <2> QED BY <2>1 DEF IsCall, NoneIsNoRecord
<1>6. /\ calls' = [u \in Tids |-> calls'[u]]
      /\ \A u \in Tids : calls'[u] = IF u = t THEN n ELSE calls[u]
  BY <1>1, <1>2, <1>3 DEF TraceInv, CallsInv
<1>7. CpusInv' /\ ProcsOK'
  BY <1>4 DEF TraceInv, CpusInv, ProcsOK
<1>8. CallsInv'
  <2>1. \A u \in Tids : IsCall(calls'[u])
    BY <1>5, <1>6 DEF TraceInv, CallsInv
  <2>2. \A u \in Tids \ alive : calls'[u] = None
    BY <1>2, <1>4, <1>6 DEF TraceInv, CallsInv
  <2>3. ASSUME NEW d \in Cpus, cpus[d] = None, running[d] # None, calls'[running[d]] # None
        PROVE  ~calls'[running[d]].seen
    <3>1. running[d] \in Tids
      BY <2>3 DEF TraceInv, CpusInv
    <3> QED BY <1>2, <1>4, <1>5, <1>6, <2>3, <3>1 DEF TraceInv, CallsInv
  <2>4. \A u \in alive : Matches(calls'[u], CallIn(procs', u))
    <3> TAKE u \in alive
    <3>1. u \in Tids /\ Matches(calls[u], CallIn(procs, u))
      BY DEF TraceInv, CpusInv, CallsInv
    <3>2. CASE u = t
      BY <1>2, <1>4, <1>5, <1>6, <3>1, <3>2 DEF Matches
    <3>3. CASE u # t
      BY <1>4, <1>6, <3>1, <3>3
    <3> QED BY <3>2, <3>3
  <2> QED BY <1>4, <1>6, <2>1, <2>2, <2>3, <2>4 DEF CallsInv
<1> QED BY <1>4, <1>7, <1>8 DEF TraceInv

\* A thread has no call any more.
LEMMA NoCallStep ==
    ASSUME TraceInv, NEW t, calls' = [calls EXCEPT ![t] = None],
           conf' = conf, alive' \in {alive, alive \ {t}}, ProcsOK', CpusInv',
           \A c \in Cpus : cpus'[c] = None /\ running'[c] # None
                             => cpus[c] = None /\ running[c] = running'[c],
           \A u : u # t => CallIn(procs', u) = CallIn(procs, u),
           t \in alive' => CallIn(procs', t) = None
    PROVE  TraceInv'
<1>1. /\ calls' = [u \in Tids |-> calls'[u]]
      /\ \A u \in Tids : calls'[u] = IF u = t THEN None ELSE calls[u]
  BY DEF TraceInv, CallsInv
<1>2. \A u \in Tids : IsCall(calls'[u])
  BY <1>1 DEF TraceInv, CallsInv, IsCall
<1>3. \A u \in Tids \ alive' : calls'[u] = None
  BY <1>1 DEF TraceInv, CallsInv
<1>4. ASSUME NEW d \in Cpus, cpus'[d] = None, running'[d] # None, calls'[running'[d]] # None
      PROVE  ~calls'[running'[d]].seen
  <2>1. cpus[d] = None /\ running[d] = running'[d] /\ running[d] \in Tids
    BY <1>4 DEF TraceInv, CpusInv
  <2> QED BY <1>1, <1>4, <2>1 DEF TraceInv, CallsInv
<1>5. \A u \in alive' : Matches(calls'[u], CallIn(procs', u))
  <2> TAKE u \in alive'
  <2>1. u \in Tids /\ u \in alive /\ Matches(calls[u], CallIn(procs, u))
    BY DEF TraceInv, CpusInv, CallsInv
  <2>2. CASE u = t
    BY <1>1, <2>1, <2>2 DEF Matches
  <2>3. CASE u # t
    BY <1>1, <2>1, <2>3
  <2> QED BY <2>2, <2>3
<1> QED BY <1>1, <1>2, <1>3, <1>4, <1>5 DEF TraceInv, CallsInv

LEMMA LeaveStep ==
    ASSUME TraceInv, NEW c \in Cpus, KernelLeave(c)
    PROVE  TraceInv'
<1>1. PICK t : t = running[c]
  OBVIOUS
<1>2. /\ t # None /\ calls[t] # None /\ calls' = [calls EXCEPT ![t] = None]
      /\ conf' = conf /\ alive' = alive /\ running' = running
      /\ Exit(c, calls[t].ret) \/ Ignored(c)
  BY <1>1 DEF KernelLeave
<1>3. t \in alive /\ cpus[c] \in {None, t}
  BY <1>1, <1>2 DEF TraceInv, CpusInv
<1>4. /\ cpus' = cpus /\ ProcsOK'
      /\ \A u : u # t => CallIn(procs', u) = CallIn(procs, u)
      /\ CallIn(procs', t) = None
  <2>1. CASE Exit(c, calls[t].ret)
    <3>1. PICK ret : ret = calls[t].ret
      OBVIOUS
    <3>2. Exit(c, ret) /\ cpus[c] = t /\ cpus' = cpus
      BY <1>3, <2>1, <3>1 DEF Exit
    <3>3. ProcsOK' /\ \A u : CallIn(procs', u) = IF u = t THEN None ELSE CallIn(procs, u)
      BY <3>2, ExitProcs DEF TraceInv
    <3> QED BY <3>2, <3>3
  <2>2. CASE Ignored(c)
    <3>1. cpus' = cpus /\ procs' = procs /\ (cpus[c] # None => procs[cpus[c]].sys = None)
      BY <2>2 DEF Ignored, ioVars
    <3>2. CallIn(procs, t) = None
      <4>1. CASE cpus[c] = None
        <5>1. ~calls[t].seen
          BY <1>1, <1>2, <4>1 DEF TraceInv, CallsInv
        <5> QED BY <1>3, <5>1 DEF TraceInv, CallsInv, Matches
      <4>2. CASE cpus[c] = t
        BY <1>2, <3>1, <4>2 DEF CallIn
      <4> QED BY <1>3, <4>1, <4>2
    <3> QED BY <3>1, <3>2 DEF TraceInv, ProcsOK
  <2> QED BY <1>2, <2>1, <2>2
<1>5. CpusInv'
  BY <1>2, <1>4 DEF TraceInv, CpusInv
<1> QED BY <1>2, <1>4, <1>5, NoCallStep

\* Another thread runs on the CPU.
LEMMA SwitchParts ==
    ASSUME TraceInv, NEW c \in Cpus, NEW next \in Tids \cup {None},
           next = None \/ (next \in alive /\ Idle(next)),
           Switch(c, running[c], next), running' = [running EXCEPT ![c] = next]
    PROVE  /\ ProcsOK' /\ \A u : CallIn(procs', u) = CallIn(procs, u)
           /\ running' = [d \in Cpus |-> running'[d]] /\ running'[c] = next /\ cpus'[c] = next
           /\ \A d \in Cpus : d # c => running'[d] = running[d] /\ cpus'[d] = cpus[d]
           /\ \A d \in Cpus : running'[d] # None => running'[d] \in alive
           /\ \A d, e \in Cpus : running'[d] # None /\ running'[d] = running'[e] => d = e
           /\ \A d \in Cpus : cpus'[d] \in {None, running'[d]}
<1>1. running[c] \in Tids \cup {None}
  BY DEF TraceInv, CpusInv
<1>2. ProcsOK' /\ \A u : CallIn(procs', u) = CallIn(procs, u)
  <2>1. PICK prev : prev = running[c]
    OBVIOUS
  <2>2. prev \in Tids \cup {None} /\ Switch(c, prev, next)
    BY <1>1, <2>1
  <2> QED BY <2>2, SwitchProcs DEF TraceInv
<1>3. cpus' = [cpus EXCEPT ![c] = next]
  BY DEF Switch
<1>4. cpus = [d \in Cpus |-> cpus[d]] /\ running = [d \in Cpus |-> running[d]]
  BY DEF TraceInv, ProcsOK, CpusInv
<1>5. /\ running' = [d \in Cpus |-> running'[d]] /\ running'[c] = next /\ cpus'[c] = next
      /\ \A d \in Cpus : d # c => running'[d] = running[d] /\ cpus'[d] = cpus[d]
  BY <1>3, <1>4
<1>6. \A d \in Cpus : running'[d] # None => running'[d] \in alive
  BY <1>5 DEF TraceInv, CpusInv
<1>7. \A d, e \in Cpus : running'[d] # None /\ running'[d] = running'[e] => d = e
  BY <1>5 DEF TraceInv, CpusInv, Idle
<1>8. \A d \in Cpus : cpus'[d] \in {None, running'[d]}
  BY <1>5 DEF TraceInv, CpusInv
<1> QED BY <1>2, <1>5, <1>6, <1>7, <1>8

LEMMA KernelSwitchStep ==
    ASSUME TraceInv, NEW c \in Cpus, NEW next \in Tids \cup {None}, KernelSwitch(c, next)
    PROVE  TraceInv'
<1>1. /\ conf' = conf /\ alive' = alive /\ calls' = calls
      /\ next = None \/ (next \in alive /\ Idle(next))
      /\ Switch(c, running[c], next) /\ running' = [running EXCEPT ![c] = next]
  BY DEF KernelSwitch
<1>2. /\ ProcsOK' /\ \A u : CallIn(procs', u) = CallIn(procs, u)
      /\ running' = [d \in Cpus |-> running'[d]] /\ running'[c] = next /\ cpus'[c] = next
      /\ \A d \in Cpus : d # c => running'[d] = running[d] /\ cpus'[d] = cpus[d]
      /\ \A d \in Cpus : running'[d] # None => running'[d] \in alive
      /\ \A d, e \in Cpus : running'[d] # None /\ running'[d] = running'[e] => d = e
      /\ \A d \in Cpus : cpus'[d] \in {None, running'[d]}
  BY <1>1, SwitchParts
<1>3. CpusInv'
  BY <1>1, <1>2 DEF TraceInv, CpusInv
<1>4. CallsInv'
  <2>1. ASSUME NEW d \in Cpus, cpus'[d] = None, running'[d] # None, calls[running'[d]] # None
        PROVE  ~calls[running'[d]].seen
    <3>1. d # c
      BY <1>2, <2>1
    <3> QED BY <1>2, <2>1, <3>1 DEF TraceInv, CallsInv
  <2> QED BY <1>1, <1>2, <2>1 DEF TraceInv, CallsInv
<1> QED BY <1>1, <1>2, <1>3, <1>4 DEF TraceInv

LEMMA KernelExitStep ==
    ASSUME TraceInv, NEW c \in Cpus, NEW next \in Tids \cup {None}, KernelExit(c, next)
    PROVE  TraceInv'
<1>1. PICK t : t = running[c]
  OBVIOUS
<1>2. /\ t # None /\ conf' = conf /\ alive' = alive \ {t} /\ calls' = [calls EXCEPT ![t] = None]
      /\ next = None \/ (next \in alive /\ Idle(next))
      /\ Switch(c, running[c], next) /\ running' = [running EXCEPT ![c] = next]
  BY <1>1 DEF KernelExit
<1>3. /\ ProcsOK' /\ \A u : CallIn(procs', u) = CallIn(procs, u)
      /\ running' = [d \in Cpus |-> running'[d]] /\ running'[c] = next /\ cpus'[c] = next
      /\ \A d \in Cpus : d # c => running'[d] = running[d] /\ cpus'[d] = cpus[d]
      /\ \A d \in Cpus : running'[d] # None => running'[d] \in alive
      /\ \A d, e \in Cpus : running'[d] # None /\ running'[d] = running'[e] => d = e
      /\ \A d \in Cpus : cpus'[d] \in {None, running'[d]}
  BY <1>2, SwitchParts
<1>4. \A d \in Cpus : running'[d] # t
  <2> TAKE d \in Cpus
  <2>1. CASE d = c
    BY <1>1, <1>2, <1>3, <2>1 DEF Idle
  <2>2. CASE d # c
    BY <1>1, <1>2, <1>3, <2>2 DEF TraceInv, CpusInv
  <2> QED BY <2>1, <2>2
<1>5. CpusInv'
  BY <1>2, <1>3, <1>4 DEF TraceInv, CpusInv
<1>6. \A d \in Cpus : cpus'[d] = None /\ running'[d] # None => cpus[d] = None /\ running[d] = running'[d]
  BY <1>3
<1>7. t \notin alive'
  BY <1>2
<1> QED BY <1>2, <1>3, <1>5, <1>6, <1>7, NoCallStep

LEMMA KernelForkStep ==
    ASSUME TraceInv, NEW c \in Cpus, NEW child \in Tids, KernelFork(c, child)
    PROVE  TraceInv'
<1>1. PICK parent : parent = conf.tgid[running[c]]
  OBVIOUS
<1>2. PICK p : p = conf.tgid[child]
  OBVIOUS
<1>3. /\ running[c] # None /\ child \notin alive /\ p \in {child, parent}
      /\ Fork(child, p, parent)
      /\ conf' = conf /\ alive' = alive \cup {child} /\ running' = running /\ calls' = calls
      /\ cpus' = cpus
  BY <1>1, <1>2 DEF KernelFork, Fork
<1>4. parent \in Tids
  <2>1. running[c] \in Tids
    BY <1>3 DEF TraceInv, CpusInv
  <2>2. conf.tgid \in [Tids -> Tids]
    BY ConfsAssumption DEF TraceInv
  <2> QED BY <1>1, <2>1, <2>2
<1>5. ProcsOK' /\ \A u : CallIn(procs', u) = IF u = child THEN None ELSE CallIn(procs, u)
  BY <1>3, <1>4, ForkProcs DEF TraceInv
<1>6. CpusInv'
  BY <1>3 DEF TraceInv, CpusInv
<1>7. CallsInv'
  <2>1. calls[child] = None
    BY <1>3 DEF TraceInv, CallsInv
  <2>2. \A u \in alive' : Matches(calls[u], CallIn(procs', u))
    <3> TAKE u \in alive'
    <3>1. CASE u = child
      BY <1>5, <2>1, <3>1 DEF Matches
    <3>2. CASE u # child
      BY <1>3, <1>5, <3>2 DEF TraceInv, CallsInv
    <3> QED BY <3>1, <3>2
  <2> QED BY <1>3, <2>2 DEF TraceInv, CallsInv
<1> QED BY <1>3, <1>5, <1>6, <1>7 DEF TraceInv

LEMMA KernelExecStep ==
    ASSUME TraceInv, NEW c \in Cpus, KernelExec(c)
    PROVE  TraceInv'
<1>1. PICK t : t = running[c]
  OBVIOUS
<1>2. t # None /\ Exec(t) /\ UNCHANGED <<conf, alive, running, calls>> /\ cpus' = cpus
  BY <1>1 DEF KernelExec, Exec
<1>3. t \in Tids
  BY <1>1, <1>2 DEF TraceInv, CpusInv
<1>4. ProcsOK' /\ \A u : CallIn(procs', u) = CallIn(procs, u)
  BY <1>2, <1>3, ExecProcs DEF TraceInv
<1> QED BY <1>2, <1>4, QuietStep

LEMMA KernelDumpStep ==
    ASSUME TraceInv, NEW t \in Tids, KernelDumpProcess(t)
    PROVE  TraceInv'
<1>1. PICK pid : pid = conf.tgid[t]
  OBVIOUS
<1>2. /\ StatedumpProcess(t, pid) /\ UNCHANGED <<conf, alive, running, calls>> /\ cpus' = cpus
  BY <1>1 DEF KernelDumpProcess, kernelVars, StatedumpProcess
<1>3. pid \in Tids
  BY <1>1, ConfsAssumption DEF TraceInv
<1>4. ProcsOK' /\ \A u : CallIn(procs', u) = CallIn(procs, u)
  BY <1>2, <1>3, DumpProcs DEF TraceInv
<1> QED BY <1>2, <1>4, QuietStep

LEMMA KernelDumpFdStep ==
    ASSUME TraceInv, NEW p \in Tids, NEW fd \in Fds, KernelDumpFd(p, fd)
    PROVE  TraceInv'
<1>1. PICK d : d = files[p][fd]
  OBVIOUS
<1>2. /\ StatedumpFd(p, fd, d.name, d.cloexec)
      /\ UNCHANGED <<conf, alive, running, calls>> /\ cpus' = cpus
  BY <1>1 DEF KernelDumpFd, StatedumpFd
<1>3. ProcsOK' /\ \A u : CallIn(procs', u) = CallIn(procs, u)
  BY <1>2, StatedumpFdProcs DEF TraceInv
<1> QED BY <1>2, <1>3, QuietStep

LEMMA TraceSteps ==
    ASSUME NoneIsNoRecord, ContextOfLeaders, TraceInv, [TraceNext]_traceVars
    PROVE  TraceInv'
<1>1. CASE UNCHANGED traceVars
  <2>1. UNCHANGED <<conf, alive, running, calls, cpus, procs>>
    BY <1>1 DEF traceVars, kernelVars, ioVars
  <2>2. ProcsOK'
    BY <2>1 DEF TraceInv, ProcsOK
  <2> QED BY <2>1, <2>2, QuietStep
<1>2. CASE \E c \in Cpus, call \in conf.calls : KernelEnter(c, call)
  BY <1>2, EnterStep
<1>3. CASE \E t \in Tids : KernelDo(t)
  BY <1>3, DoStep
<1>4. CASE \E c \in Cpus : KernelLeave(c)
  BY <1>4, LeaveStep
<1>5. CASE \E c \in conf.cpus, next \in Tids \cup {None} : KernelSwitch(c, next)
  <2>1. conf.cpus \subseteq Cpus
    BY ConfsAssumption DEF TraceInv
  <2> QED BY <1>5, <2>1, KernelSwitchStep
<1>6. CASE \E c \in Cpus, next \in Tids \cup {None} : KernelExit(c, next)
  BY <1>6, KernelExitStep
<1>7. CASE \E c \in Cpus, child \in Tids : KernelFork(c, child)
  BY <1>7, KernelForkStep
<1>8. CASE \E c \in Cpus : KernelExec(c)
  BY <1>8, KernelExecStep
<1>9. CASE \E t \in Tids : KernelDumpProcess(t)
  BY <1>9, KernelDumpStep
<1>10. CASE \E p \in Tids, fd \in Fds : KernelDumpFd(p, fd)
  BY <1>10, KernelDumpFdStep
<1> QED BY <1>1, <1>2, <1>3, <1>4, <1>5, <1>6, <1>7, <1>8, <1>9, <1>10 DEF TraceNext

\* The automaton has of every thread the call that it is in, if it could see
\* its entry, and no other (syscalls.py:45-73, io.py:73-96).
THEOREM IoCalls ==
    ASSUME NoneIsNoRecord, ContextOfLeaders
    PROVE  TraceSpec => []CallsMatch
<1>1. TraceInit => TraceInv
  BY TraceStarts
<1>2. TraceInv /\ [TraceNext]_traceVars => TraceInv'
  BY TraceSteps
<1>3. TraceInv => CallsMatch
  <2> SUFFICES ASSUME TraceInv, NEW t \in alive
               PROVE  LET sys == SysOf(t) IN
                      IF calls[t] = None \/ ~calls[t].seen THEN sys = None
                      ELSE /\ sys # None
                           /\ sys.op = calls[t].call.op
                           /\ sys.op \notin OpenOps => sys.fd = calls[t].call.fd
    BY DEF CallsMatch
  <2>1. PICK k : k = calls[t]
    OBVIOUS
  <2>2. PICK r : r = CallIn(procs, t)
    OBVIOUS
  <2>3. r = SysOf(t)
    BY <2>2 DEF SysOf, CallIn
  <2>4. Matches(k, r)
    BY <2>1, <2>2 DEF TraceInv, CallsInv
  <2> QED BY <2>1, <2>3, <2>4 DEF Matches
<1> QED BY <1>1, <1>2, <1>3, PTL DEF TraceSpec

-----------------------------------------------------------------------------
(* The names of the descriptors of a kernel.                               *)

\* What the automaton has of a thread, also of one that it does not know.
FdsOf(f, t) == IF t \in DOMAIN f THEN f[t].fds ELSE NoFds
PidOf(f, t) == IF t \in DOMAIN f THEN f[t].pid ELSE None

\* The entry of a call was seen; it took effect.
Seen(k)     == k # None /\ k.seen
Returned(k) == Seen(k) /\ k.ret # None

\* Descriptors F that the automaton has, of a process which has K.
NamesOK(F, K) ==
    \A fd \in DOMAIN F : fd \in DOMAIN K /\ F[fd].name \in {Unknown, K[fd].name}

\* The descriptors after the exit of the call.
Final(F, sys, ret) ==
    LET fd  == ResultFd(sys, ret)
        new == IF sys.op \in RqOps /\ ret >= 0 /\ fd \notin DOMAIN F
                 THEN Put(F, fd, CreatedFd(sys)) ELSE F
    IN IF Closes(sys, ret) THEN Drop(new, {fd}) ELSE new

\* A request knows the file that the call will open, or none.
Pending(F, sys, call, K) ==
    /\ call.op = "open" => sys.name = call.file
    /\ call.op \in {"dup", "dup2"} /\ call.fd \in DOMAIN K
         => sys.name \in {Unknown, K[call.fd].name}
    /\ call.op = "dup2" => call.new \notin DOMAIN F

\* Between the effect of a call and its exit, the descriptors that the exit will
\* leave are right.
Right(F, sys, k, K) ==
    /\ ~Returned(k) => NamesOK(F, K)
    /\ Returned(k) => NamesOK(Final(F, sys, k.ret), K)
    /\ Seen(k) /\ ~Returned(k) => Pending(F, sys, k.call, K)

LEMMA MinOfNats ==
    ASSUME NEW S, S \subseteq Nat, S # {}
    PROVE  Min(S) \in S
<1>1. PICK m \in S : \A y \in S : ~(<<y, m>> \in OpToRel(<, Nat))
  BY NatLessThanWellFounded, WFMin
<1>2. \A y \in S : m =< y
  <2> TAKE y \in S
  <2>1. y \in Nat /\ m \in Nat
    OBVIOUS
  <2>2. ~(y < m)
    BY <1>1, <2>1 DEF OpToRel
  <2> QED BY <2>1, <2>2
<1> QED BY <1>1, <1>2 DEF Min

\* What the exit leaves, descriptor by descriptor.
LEMMA FinalParts ==
    ASSUME NEW F, NEW sys, NEW ret
    PROVE  LET fd    == ResultFd(sys, ret)
               makes == sys.op \in RqOps /\ ret >= 0
               R     == Final(F, sys, ret)
           IN /\ \A x : x \in DOMAIN R
                          <=> (x \in DOMAIN F \/ (makes /\ x = fd)) /\ ~(Closes(sys, ret) /\ x = fd)
              /\ \A x \in DOMAIN R : R[x] = IF x \in DOMAIN F THEN F[x] ELSE CreatedFd(sys)
<1> DEFINE fd == ResultFd(sys, ret)
           made == sys.op \in RqOps /\ ret >= 0 /\ fd \notin DOMAIN F
           new == IF made THEN Put(F, fd, CreatedFd(sys)) ELSE F
<1>1. /\ DOMAIN new = DOMAIN F \cup (IF made THEN {fd} ELSE {})
      /\ \A x \in DOMAIN new : new[x] = IF x \in DOMAIN F THEN F[x] ELSE CreatedFd(sys)
  BY DEF Put
<1>2. Final(F, sys, ret) = IF Closes(sys, ret) THEN Drop(new, {fd}) ELSE new
  BY DEF Final
<1> HIDE DEF new
<1>3. DOMAIN Drop(new, {fd}) = DOMAIN new \ {fd} /\ \A x \in DOMAIN new \ {fd} : Drop(new, {fd})[x] = new[x]
  BY DEF Drop
<1>4. CASE Closes(sys, ret)
  BY <1>1, <1>2, <1>3, <1>4
<1>5. CASE ~Closes(sys, ret)
  BY <1>1, <1>2, <1>5
<1> QED BY <1>4, <1>5

LEMMA PutParts ==
    ASSUME NEW f, NEW k, NEW v
    PROVE  /\ DOMAIN Put(f, k, v) = DOMAIN f \cup {k}
           /\ Put(f, k, v)[k] = v
           /\ \A x \in DOMAIN f : x # k => Put(f, k, v)[x] = f[x]
BY DEF Put

LEMMA DropParts ==
    ASSUME NEW f, NEW S
    PROVE  DOMAIN Drop(f, S) = DOMAIN f \ S /\ \A x \in DOMAIN f \ S : Drop(f, S)[x] = f[x]
BY DEF Drop

\* No descriptor of a process is another one after a call that replaced none.
LEMMA NotLost ==
    ASSUME NEW F, NEW K, NEW L, NamesOK(F, K), Lost(K, L) = {}
    PROVE  NamesOK(F, L)
BY DEF NamesOK, Lost

\* What a call that opens a descriptor does.
Opening(fds, file, cloexec) ==
    LET free == Fds \ DOMAIN fds
    IN IF free = {} THEN {}
       ELSE {[fds |-> Put(fds, Min(free), FD(file, cloexec)), ret |-> Min(free)]}

LEMMA OpeningParts ==
    ASSUME NEW K, NEW file, NEW cloexec, NEW o \in Opening(K, file, cloexec)
    PROVE  /\ o.ret \in Nat /\ o.ret \in Fds /\ o.ret \notin DOMAIN K
           /\ DOMAIN o.fds = DOMAIN K \cup {o.ret} /\ o.fds[o.ret].name = file
           /\ \A x \in DOMAIN K : o.fds[x] = K[x]
<1> PICK free : free = Fds \ DOMAIN K
  OBVIOUS
<1> PICK n : n = Min(free)
  OBVIOUS
<1>1. free # {} /\ o = [fds |-> Put(K, n, FD(file, cloexec)), ret |-> n]
  BY DEF Opening
<1>2. free \subseteq Nat
  BY MaxFdAssumption DEF Fds
<1>3. n \in free
  BY <1>1, <1>2, MinOfNats
<1> PICK v : v = FD(file, cloexec)
  OBVIOUS
<1>4. o.ret = n /\ o.fds = Put(K, n, v) /\ v.name = file
  BY <1>1 DEF FD
<1> PICK L : L = Put(K, n, v)
  OBVIOUS
<1>5. DOMAIN L = DOMAIN K \cup {n} /\ L[n] = v /\ \A x \in DOMAIN K : x # n => L[x] = K[x]
  BY DEF Put
<1>6. n \in Nat /\ n \in Fds /\ n \notin DOMAIN K
  BY <1>2, <1>3
<1> QED BY <1>4, <1>5, <1>6

\* The outcomes of each call.
LEMMA OutcomeParts ==
    ASSUME NEW K, NEW call, call.op \in Ops, NEW o \in Outcomes(K, call)
    PROVE  \/ o.fds = K /\ o.ret = -1
           \/ call.op \in {"open", "other", "fcntl"} /\ o \in Opening(K, call.file, call.cloexec)
           \/ /\ call.fd \in DOMAIN K /\ call.op = "dup"
              /\ o \in Opening(K, K[call.fd].name, FALSE)
           \/ /\ call.fd \in DOMAIN K /\ call.op = "dup2" /\ o.ret = call.new
              /\ o.fds = Put(K, call.new, FD(K[call.fd].name, call.cloexec))
           \/ /\ call.fd \in DOMAIN K /\ call.op = "dup2" /\ o.ret = call.new
              /\ o.fds = K /\ call.fd = call.new
           \/ /\ call.fd \in DOMAIN K /\ call.op = "close" /\ o.ret = 0
              /\ o.fds = Drop(K, {call.fd})
           \/ /\ call.fd \in DOMAIN K /\ call.op = "read" /\ o.ret = 0 /\ o.fds = K
<1> DEFINE opens == call.op \in {"open", "other", "fcntl"}
           open  == call.fd \in DOMAIN K
           opened == Opening(K, call.file, call.cloexec)
           dupped == Opening(K, K[call.fd].name, FALSE)
           moved == [fds |-> Put(K, call.new, FD(K[call.fd].name, call.cloexec)), ret |-> call.new]
           same  == [fds |-> K, ret |-> call.new]
           cut   == [fds |-> Drop(K, {call.fd}), ret |-> 0]
           used  == [fds |-> K, ret |-> 0]
           none  == [fds |-> K, ret |-> -1]
           does  == CASE opens -> opened
                      [] ~opens /\ ~open -> {}
                      [] open /\ call.op = "dup" -> dupped
                      [] open /\ call.op = "dup2" /\ call.fd # call.new -> {moved}
                      [] open /\ call.op = "dup2" /\ call.fd = call.new ->
                           IF call.cloexec THEN {} ELSE {same}
                      [] open /\ call.op = "close" -> {cut}
                      [] open /\ call.op = "read" -> {used}
<1>1. o \in {none} \cup does
  BY DEF Outcomes, Opening
<1>2. /\ none.fds = K /\ none.ret = -1 /\ same.fds = K /\ same.ret = call.new
      /\ moved.fds = Put(K, call.new, FD(K[call.fd].name, call.cloexec)) /\ moved.ret = call.new
      /\ cut.fds = Drop(K, {call.fd}) /\ cut.ret = 0 /\ used.fds = K /\ used.ret = 0
  OBVIOUS
<1> HIDE DEF opened, dupped, moved, same, cut, used, none
<1>3. CASE o = none
  BY <1>2, <1>3
<1>4. CASE o \in does /\ opens
  BY <1>4 DEF opened
<1>5. CASE o \in does /\ call.op = "dup"
  BY <1>5 DEF dupped
<1>6. CASE o \in does /\ call.op = "dup2"
  BY <1>2, <1>6
<1>7. CASE o \in does /\ call.op = "close"
  BY <1>2, <1>7
<1>8. CASE o \in does /\ call.op = "read"
  BY <1>2, <1>8
<1>9. opens \/ call.op \in {"dup", "dup2", "close", "read"}
  BY DEF Ops
<1> QED BY <1>1, <1>3, <1>4, <1>5, <1>6, <1>7, <1>8, <1>9

\* A call takes effect: its exit will leave the right descriptors.
LEMMA RightDo ==
    ASSUME NEW F, NEW K, NamesOK(F, K), NEW sys, NEW call, call.op \in Ops,
           call.op = "dup2" => call.new \in Fds,
           sys.op = call.op, sys.op \notin OpenOps => sys.fd = call.fd,
           Pending(F, sys, call, K), NEW o \in Outcomes(K, call)
    PROVE  o.ret \in Int /\ NamesOK(Final(F, sys, o.ret), o.fds)
<1> PICK ret : ret = o.ret
  OBVIOUS
<1> PICK R : R = Final(F, sys, ret)
  OBVIOUS
<1> PICK L : L = o.fds
  OBVIOUS
<1> PICK fd : fd = ResultFd(sys, ret)
  OBVIOUS
<1>1. /\ \A x : x \in DOMAIN R <=> /\ x \in DOMAIN F \/ (sys.op \in RqOps /\ ret >= 0 /\ x = fd)
                                   /\ ~(Closes(sys, ret) /\ x = fd)
      /\ \A x \in DOMAIN R : R[x] = IF x \in DOMAIN F THEN F[x] ELSE CreatedFd(sys)
  BY FinalParts
<1>2. \A x \in DOMAIN F : x \in DOMAIN K /\ F[x].name \in {Unknown, K[x].name}
  BY DEF NamesOK
<1>3. SUFFICES ret \in Int /\ NamesOK(R, L)
  OBVIOUS
<1>4. sys.op \in OpenOps => CreatedFd(sys).name = sys.name
  BY DEF CreatedFd, FD
<1>5. sys.op \notin OpenOps => CreatedFd(sys).name = Unknown
  BY DEF CreatedFd, FD
<1>6. sys.op \in OpenOps /\ ret >= 0 => fd = ret
  BY DEF ResultFd
<1>7. sys.op \notin OpenOps => fd = call.fd
  BY DEF ResultFd
<1>8. Closes(sys, ret) <=> call.op = "close" /\ ret = 0
  BY DEF Closes
<1>9. CASE o.fds = K /\ o.ret = -1
  <2>1. ~(ret >= 0) /\ ret # 0 /\ ret \in Int
    BY <1>9
  <2> QED BY <1>1, <1>2, <1>8, <1>9, <2>1 DEF NamesOK
<1>10. CASE call.op \in {"open", "other", "fcntl"} /\ o \in Opening(K, call.file, call.cloexec)
  <2>1. /\ ret \in Nat /\ ret \notin DOMAIN K /\ DOMAIN L = DOMAIN K \cup {ret}
        /\ L[ret].name = call.file /\ \A x \in DOMAIN K : L[x] = K[x]
    BY <1>10, OpeningParts
  <2>2. CASE call.op = "open"
    <3>1. sys.op \in OpenOps /\ fd = ret /\ sys.name = call.file
      BY <1>6, <2>1, <2>2 DEF OpenOps, Pending
    <3>2. CreatedFd(sys).name = call.file
      BY <1>4, <3>1
    <3> QED BY <1>1, <1>2, <2>1, <3>1, <3>2 DEF NamesOK
  <2>3. CASE call.op \in {"other", "fcntl"}
    <3>1. sys.op \notin RqOps
      BY <2>3 DEF RqOps, OpenOps
    <3> QED BY <1>1, <1>2, <2>1, <3>1 DEF NamesOK
  <2> QED BY <1>10, <2>2, <2>3
<1>11. CASE /\ call.fd \in DOMAIN K /\ call.op = "dup"
            /\ o \in Opening(K, K[call.fd].name, FALSE)
  <2>1. /\ ret \in Nat /\ ret \notin DOMAIN K /\ DOMAIN L = DOMAIN K \cup {ret}
        /\ L[ret].name = K[call.fd].name /\ \A x \in DOMAIN K : L[x] = K[x]
    <3> PICK name : name = K[call.fd].name
      OBVIOUS
    <3> PICK no : no = FALSE
      OBVIOUS
    <3>1. o \in Opening(K, name, no)
      BY <1>11
    <3>2. /\ o.ret \in Nat /\ o.ret \in Fds /\ o.ret \notin DOMAIN K
          /\ DOMAIN o.fds = DOMAIN K \cup {o.ret} /\ o.fds[o.ret].name = name
          /\ \A x \in DOMAIN K : o.fds[x] = K[x]
      BY <3>1, OpeningParts
    <3> QED BY <3>2
  <2>2. sys.op \in OpenOps /\ fd = ret /\ sys.name \in {Unknown, K[call.fd].name}
    BY <1>6, <1>11, <2>1 DEF OpenOps, Pending
  <2>3. CreatedFd(sys).name \in {Unknown, K[call.fd].name}
    BY <1>4, <2>2
  <2> QED BY <1>1, <1>2, <2>1, <2>2, <2>3 DEF NamesOK
<1>12. CASE /\ call.fd \in DOMAIN K /\ call.op = "dup2" /\ o.ret = call.new
            /\ \/ o.fds = Put(K, call.new, FD(K[call.fd].name, call.cloexec))
               \/ o.fds = K /\ call.fd = call.new
  <2>1. ret \in Nat
    BY <1>12, MaxFdAssumption DEF Fds
  <2>2. /\ sys.op \in OpenOps /\ fd = ret /\ sys.name \in {Unknown, K[call.fd].name}
        /\ ret \notin DOMAIN F
    BY <1>6, <1>12, <2>1 DEF OpenOps, Pending
  <2>3. CreatedFd(sys).name \in {Unknown, K[call.fd].name}
    BY <1>4, <2>2
  <2>4. /\ DOMAIN L = DOMAIN K \cup {ret} /\ L[ret].name = K[call.fd].name
        /\ \A x \in DOMAIN K : x # ret => L[x] = K[x]
    <3>1. CASE o.fds = K /\ call.fd = call.new
      BY <1>12, <3>1
    <3>2. CASE o.fds = Put(K, call.new, FD(K[call.fd].name, call.cloexec))
      <4> PICK v : v = FD(K[call.fd].name, call.cloexec)
        OBVIOUS
      <4>1. L = Put(K, ret, v) /\ v.name = K[call.fd].name
        BY <1>12, <3>2 DEF FD
      <4> QED BY <4>1 DEF Put
    <3> QED BY <1>12, <3>1, <3>2
  <2> QED BY <1>1, <1>2, <2>1, <2>2, <2>3, <2>4 DEF NamesOK
<1>13. CASE /\ call.fd \in DOMAIN K /\ call.op = "close" /\ o.ret = 0
            /\ o.fds = Drop(K, {call.fd})
  <2>1. DOMAIN L = DOMAIN K \ {call.fd} /\ \A x \in DOMAIN L : L[x] = K[x]
    BY <1>13 DEF Drop
  <2>2. fd = call.fd /\ Closes(sys, ret)
    BY <1>7, <1>8, <1>13 DEF OpenOps
  <2>3. \A x \in DOMAIN R : x \in DOMAIN F /\ x # call.fd /\ R[x] = F[x]
    BY <1>1, <2>2
  <2>4. NamesOK(R, L)
    BY <1>2, <2>1, <2>3 DEF NamesOK
  <2>5. ret \in Int
    BY <1>13
  <2> QED BY <2>4, <2>5
<1>14. CASE call.fd \in DOMAIN K /\ call.op = "read" /\ o.ret = 0 /\ o.fds = K
  <2>1. fd = call.fd /\ CreatedFd(sys).name = Unknown
    BY <1>5, <1>7, <1>14 DEF OpenOps
  <2> QED BY <1>1, <1>2, <1>14, <2>1 DEF NamesOK
<1>15. \/ o.fds = K /\ o.ret = -1
       \/ call.op \in {"open", "other", "fcntl"} /\ o \in Opening(K, call.file, call.cloexec)
       \/ /\ call.fd \in DOMAIN K /\ call.op = "dup"
          /\ o \in Opening(K, K[call.fd].name, FALSE)
       \/ /\ call.fd \in DOMAIN K /\ call.op = "dup2" /\ o.ret = call.new
          /\ o.fds = Put(K, call.new, FD(K[call.fd].name, call.cloexec))
       \/ /\ call.fd \in DOMAIN K /\ call.op = "dup2" /\ o.ret = call.new
          /\ o.fds = K /\ call.fd = call.new
       \/ /\ call.fd \in DOMAIN K /\ call.op = "close" /\ o.ret = 0
          /\ o.fds = Drop(K, {call.fd})
       \/ /\ call.fd \in DOMAIN K /\ call.op = "read" /\ o.ret = 0 /\ o.fds = K
  BY OutcomeParts
<1> HIDE <1>3
<1>16. ret \in Int /\ NamesOK(R, L)
  BY <1>9, <1>10, <1>11, <1>12, <1>13, <1>14, <1>15
<1> QED BY <1>16

\* The entry of a call.
LEMMA RightEnter ==
    ASSUME NEW F, NEW K, NamesOK(F, K), NEW call, NEW G,
           G = IF call.op = "dup2" THEN Drop(F, {call.new}) ELSE F
    PROVE  NamesOK(G, K) /\ Pending(G, Request(G, call), call, K)
<1>1. /\ DOMAIN G \subseteq DOMAIN F /\ \A x \in DOMAIN G : G[x] = F[x]
      /\ call.op = "dup2" => call.new \notin DOMAIN G
  BY DEF Drop
<1>2. NamesOK(G, K)
  BY <1>1 DEF NamesOK
<1> PICK sys : sys = Request(G, call)
  OBVIOUS
<1>3. sys.name = IF call.op \in {"dup", "dup2"} THEN NameOf(G, call.fd) ELSE call.file
  BY DEF Request
<1>4. call.fd \in DOMAIN K => NameOf(G, call.fd) \in {Unknown, K[call.fd].name}
  BY <1>2 DEF NamesOK, NameOf
<1>5. Pending(G, sys, call, K)
  BY <1>1, <1>3, <1>4 DEF Pending
<1> QED BY <1>2, <1>5

\* The state dump sets the name of a descriptor.
LEMMA RightDump ==
    ASSUME NEW F, NEW K, NEW sys, NEW k, Right(F, sys, k, K), NEW fd \in DOMAIN K,
           NEW v, v.name = K[fd].name,
           ~(Seen(k) /\ ~Returned(k) /\ k.call.op = "dup2" /\ k.call.new = fd)
    PROVE  Right(Put(F, fd, v), sys, k, K)
<1> PICK G : G = Put(F, fd, v)
  OBVIOUS
<1>1. /\ DOMAIN G = DOMAIN F \cup {fd} /\ G[fd] = v
      /\ \A x \in DOMAIN F : x # fd => G[x] = F[x]
  BY DEF Put
<1>2. ~Returned(k) => NamesOK(G, K)
  BY <1>1 DEF Right, NamesOK
<1>3. ASSUME Returned(k)
      PROVE  NamesOK(Final(G, sys, k.ret), K)
  <2> PICK ret : ret = k.ret
    OBVIOUS
  <2> PICK r : r = ResultFd(sys, ret)
    OBVIOUS
  <2> PICK new : new = CreatedFd(sys)
    OBVIOUS
  <2> PICK R : R = Final(F, sys, ret)
    OBVIOUS
  <2> PICK S : S = Final(G, sys, ret)
    OBVIOUS
  <2>1. /\ \A x : x \in DOMAIN R <=> /\ x \in DOMAIN F \/ (sys.op \in RqOps /\ ret >= 0 /\ x = r)
                                     /\ ~(Closes(sys, ret) /\ x = r)
        /\ \A x \in DOMAIN R : R[x] = IF x \in DOMAIN F THEN F[x] ELSE new
    BY FinalParts
  <2>2. /\ \A x : x \in DOMAIN S <=> /\ x \in DOMAIN G \/ (sys.op \in RqOps /\ ret >= 0 /\ x = r)
                                     /\ ~(Closes(sys, ret) /\ x = r)
        /\ \A x \in DOMAIN S : S[x] = IF x \in DOMAIN G THEN G[x] ELSE new
    BY FinalParts
  <2>3. NamesOK(R, K)
    BY <1>3 DEF Right
  <2>4. ASSUME NEW x \in DOMAIN S
        PROVE  x \in DOMAIN K /\ S[x].name \in {Unknown, K[x].name}
    <3>1. CASE x = fd
      BY <1>1, <2>2, <3>1
    <3>2. CASE x # fd
      <4>1. x \in DOMAIN G <=> x \in DOMAIN F
        BY <1>1, <3>2
      <4>2. x \in DOMAIN R /\ R[x] = S[x]
        BY <1>1, <2>1, <2>2, <3>2, <4>1
      <4> QED BY <2>3, <4>2 DEF NamesOK
    <3> QED BY <3>1, <3>2
  <2> QED BY <2>4 DEF NamesOK
<1>4. Seen(k) /\ ~Returned(k) => Pending(G, sys, k.call, K)
  BY <1>1 DEF Right, Pending
<1> QED BY <1>2, <1>3, <1>4 DEF Right

\* The descriptors, or the leader, of no thread change; those of one do.
FdsPut1(g, f, t, fds) == \A u : FdsOf(g, u) = IF u = t THEN fds ELSE FdsOf(f, u)
PidPut1(g, f, t, pid) == \A u : PidOf(g, u) = IF u = t THEN pid ELSE PidOf(f, u)
SameFds(g, f)         == \A u : FdsOf(g, u) = FdsOf(f, u)
SamePids(g, f)        == \A u : PidOf(g, u) = PidOf(f, u)

LEMMA LookPut ==
    ASSUME NEW f, NEW t, NEW p
    PROVE  FdsPut1(Put(f, t, p), f, t, p.fds) /\ PidPut1(Put(f, t, p), f, t, p.pid)
<1> PICK g : g = Put(f, t, p)
  OBVIOUS
<1>1. /\ DOMAIN g = DOMAIN f \cup {t} /\ g[t] = p
      /\ \A x \in DOMAIN f : x # t => g[x] = f[x]
  BY DEF Put
<1>2. FdsPut1(g, f, t, p.fds) /\ PidPut1(g, f, t, p.pid)
  BY <1>1 DEF FdsPut1, PidPut1, FdsOf, PidOf
<1> QED BY <1>2

LEMMA LookSetFds ==
    ASSUME NEW f, IsTable(f), NEW t \in DOMAIN f, NEW fds,
           NEW g, g = [f EXCEPT ![t].fds = fds]
    PROVE  FdsPut1(g, f, t, fds) /\ SamePids(g, f)
<1> PICK r : r = f[t]
  OBVIOUS
<1>1. f = [x \in DOMAIN f |-> f[x]] /\ r = [pid |-> r.pid, fds |-> r.fds, sys |-> r.sys]
  BY DEF IsTable, IsProcess
<1> PICK a : a = [r EXCEPT !.fds = fds]
  OBVIOUS
<1>2. a = [pid |-> r.pid, fds |-> fds, sys |-> r.sys]
  BY <1>1
<1>3. g = [x \in DOMAIN f |-> IF x = t THEN a ELSE f[x]]
  BY <1>1
<1>4. FdsPut1(g, f, t, fds) /\ SamePids(g, f)
  BY <1>2, <1>3 DEF FdsPut1, SamePids, FdsOf, PidOf
<1> QED BY <1>4

LEMMA LookSetCall ==
    ASSUME NEW f, IsTable(f), NEW t \in DOMAIN f, NEW sys,
           NEW g, g = [f EXCEPT ![t].sys = sys]
    PROVE  SameFds(g, f) /\ SamePids(g, f)
<1> PICK r : r = f[t]
  OBVIOUS
<1>1. f = [x \in DOMAIN f |-> f[x]] /\ r = [pid |-> r.pid, fds |-> r.fds, sys |-> r.sys]
  BY DEF IsTable, IsProcess
<1> PICK a : a = [r EXCEPT !.sys = sys]
  OBVIOUS
<1>2. a = [pid |-> r.pid, fds |-> r.fds, sys |-> sys]
  BY <1>1
<1>3. g = [x \in DOMAIN f |-> IF x = t THEN a ELSE f[x]]
  BY <1>1
<1>4. SameFds(g, f) /\ SamePids(g, f)
  BY <1>2, <1>3 DEF SameFds, SamePids, FdsOf, PidOf
<1> QED BY <1>4

LEMMA LookSetPid ==
    ASSUME NEW f, IsTable(f), NEW t \in DOMAIN f, NEW pid,
           NEW g, g = [f EXCEPT ![t].pid = pid]
    PROVE  SameFds(g, f) /\ PidPut1(g, f, t, pid)
<1> PICK r : r = f[t]
  OBVIOUS
<1>1. f = [x \in DOMAIN f |-> f[x]] /\ r = [pid |-> r.pid, fds |-> r.fds, sys |-> r.sys]
  BY DEF IsTable, IsProcess
<1> PICK a : a = [r EXCEPT !.pid = pid]
  OBVIOUS
<1>2. a = [pid |-> pid, fds |-> r.fds, sys |-> r.sys]
  BY <1>1
<1>3. g = [x \in DOMAIN f |-> IF x = t THEN a ELSE f[x]]
  BY <1>1
<1>4. SameFds(g, f) /\ PidPut1(g, f, t, pid)
  BY <1>2, <1>3 DEF SameFds, PidPut1, FdsOf, PidOf
<1> QED BY <1>4

LEMMA LookEnsure ==
    ASSUME NEW f, NEW t, NEW pid
    PROVE  LET g == Ensure(f, t, Process(pid))
           IN /\ SameFds(g, f) /\ t \in DOMAIN g /\ g[t].fds = FdsOf(f, t)
              /\ \A u : PidOf(g, u) = PidOf(f, u) \/ (u = t /\ PidOf(g, u) = pid)
<1> PICK p : p = Process(pid)
  OBVIOUS
<1> PICK g : g = Ensure(f, t, p)
  OBVIOUS
<1>1. p.fds = NoFds /\ p.pid = pid
  BY DEF Process
<1>2. CASE t \in DOMAIN f
  BY <1>2 DEF Ensure, SameFds, FdsOf
<1>3. CASE t \notin DOMAIN f
  <2>1. g = Put(f, t, p)
    BY <1>3 DEF Ensure
  <2>2. DOMAIN g = DOMAIN f \cup {t} /\ g[t] = p /\ \A x \in DOMAIN f : g[x] = f[x]
    BY <1>3, <2>1 DEF Put
  <2> QED BY <1>1, <1>3, <2>2 DEF SameFds, FdsOf, PidOf
<1> QED BY <1>2, <1>3

\* The entry of a call of a thread of the process q.
EntryLooks(t, q, call) ==
    \E l \in {t, q} : \E fds :
       /\ fds = IF call.op = "dup2" THEN Drop(FdsOf(procs, l), {call.new})
                                    ELSE FdsOf(procs, l)
       /\ FdsPut1(procs', procs, l, fds)
       /\ CallIn(procs', t) = Request(fds, call)
       /\ \A u : PidOf(procs', u) = PidOf(procs, u) \/ (u = t /\ PidOf(procs', u) = q)

LEMMA LookEntry ==
    ASSUME ProcsOK, NEW c \in Cpus, NEW call \in Calls, NEW q \in Tids, NEW pid \in {None, q},
           NEW t, t = cpus[c], PidOf(procs, t) \in {None, q}, pid \in {None, t},
           Entry(c, call, pid)
    PROVE  EntryLooks(t, q, call)
<1> PICK g : g = Named(t, call, pid)
  OBVIOUS
<1> PICK l : l = Leader(g, t)
  OBVIOUS
<1> PICK fds : fds = IF call.op = "dup2" THEN Drop(g[l].fds, {call.new}) ELSE g[l].fds
  OBVIOUS
<1> PICK sys : sys = Request(fds, call)
  OBVIOUS
<1> PICK h : h = [g EXCEPT ![l].fds = fds]
  OBVIOUS
<1>0. t \in DOMAIN procs /\ IsTable(procs)
  BY DEF Entry, ProcsOK
<1>1. IsTable(g) /\ t \in DOMAIN g
  <2>1. Follows(procs, procs)
    BY <1>0 DEF Follows
  <2>2. Follows(FixContext(procs, t, pid), procs)
    BY <1>0, FixContextParts
  <2> QED BY <1>0, <2>1, <2>2 DEF Named, Follows
<1>2. /\ SameFds(g, procs)
      /\ \A u : PidOf(g, u) = PidOf(procs, u) \/ (u = t /\ PidOf(g, u) = q)
  <2>1. g = procs \/ (pid = t /\ pid # None /\ g = [procs EXCEPT ![t].pid = pid])
    BY DEF Named, FixContext
  <2>2. CASE g = procs
    BY <2>2 DEF SameFds
  <2>3. CASE pid = t /\ pid # None /\ g = [procs EXCEPT ![t].pid = pid]
    <3>1. SameFds(g, procs) /\ PidPut1(g, procs, t, pid)
      BY <1>0, <2>3, LookSetPid
    <3>2. pid = q
      BY <2>3
    <3> QED BY <3>1, <3>2 DEF PidPut1
  <2> QED BY <2>1, <2>2, <2>3
<1>3. l \in {t, q} /\ l \in DOMAIN g
  <2>1. g[t].pid = PidOf(g, t)
    BY <1>1 DEF PidOf
  <2>2. g[t].pid \in {None, q}
    BY <1>2, <2>1
  <2> QED BY <1>1, <2>2 DEF Leader, IsTable
<1>4. g[l].fds = FdsOf(procs, l)
  BY <1>2, <1>3 DEF SameFds, FdsOf
<1>5. FdsPut1(h, g, l, fds) /\ SamePids(h, g)
  BY <1>1, <1>3, LookSetFds
<1>6. IsTable(h) /\ t \in DOMAIN h
  <2>1. FdsSet([g EXCEPT ![l].fds = fds], g, l, fds)
    BY <1>1, <1>3, ExceptProcess
  <2> QED BY <1>1, <2>1 DEF FdsSet
<1>7. procs' = [h EXCEPT ![t].sys = sys]
  BY DEF Entry, Entered, Named
<1>8. /\ SameFds(procs', h) /\ SamePids(procs', h) /\ CallIn(procs', t) = sys
  <2>1. CallSet([h EXCEPT ![t].sys = sys], h, t, sys)
    BY <1>6, ExceptProcess
  <2>2. SameFds(procs', h) /\ SamePids(procs', h)
    BY <1>6, <1>7, LookSetCall
  <2> QED BY <1>7, <2>1, <2>2 DEF CallSet
<1>9. FdsPut1(procs', procs, l, fds)
  <2>1. ASSUME NEW u
        PROVE  FdsOf(procs', u) = IF u = l THEN fds ELSE FdsOf(procs, u)
    <3>1. FdsOf(procs', u) = FdsOf(h, u)
      BY <1>8 DEF SameFds
    <3>2. FdsOf(h, u) = IF u = l THEN fds ELSE FdsOf(g, u)
      BY <1>5 DEF FdsPut1
    <3>3. FdsOf(g, u) = FdsOf(procs, u)
      BY <1>2 DEF SameFds
    <3> QED BY <3>1, <3>2, <3>3
  <2> QED BY <2>1 DEF FdsPut1
<1>10. \A u : PidOf(procs', u) = PidOf(procs, u) \/ (u = t /\ PidOf(procs', u) = q)
  <2> TAKE u
  <2>1. PidOf(procs', u) = PidOf(g, u)
    BY <1>5, <1>8 DEF SamePids
  <2> QED BY <1>2, <2>1
<1> QED BY <1>3, <1>4, <1>8, <1>9, <1>10 DEF EntryLooks

LEMMA LookExit ==
    ASSUME ProcsOK, NEW c \in Cpus, NEW ret, Exit(c, ret), NEW q, NEW t, t = cpus[c],
           PidOf(procs, t) \in {None, q}
    PROVE  \E l \in {t, q} :
              /\ FdsPut1(procs', procs, l, Final(FdsOf(procs, l), CallIn(procs, t), ret))
              /\ SamePids(procs', procs)
<1> PICK l : l = Leader(procs, t)
  OBVIOUS
<1> PICK sys : sys = procs[t].sys
  OBVIOUS
<1> PICK fd : fd = ResultFd(sys, ret)
  OBVIOUS
<1> PICK old : old = procs[l].fds
  OBVIOUS
<1> PICK new : new = IF Creates(l, sys, ret) THEN Put(old, fd, CreatedFd(sys)) ELSE old
  OBVIOUS
<1> PICK fds : fds = IF Closes(sys, ret) THEN Drop(new, {fd}) ELSE new
  OBVIOUS
<1>9. PICK h : h = [procs EXCEPT ![l].fds = fds]
  OBVIOUS
<1>1. t \in DOMAIN procs /\ IsTable(procs) /\ l \in DOMAIN procs
  BY DEF Exit, ProcsOK, IsTable, Leader
<1>2. l \in {t, q} /\ old = FdsOf(procs, l) /\ sys = CallIn(procs, t)
  BY <1>1 DEF Leader, PidOf, FdsOf, CallIn
<1>3. fds = Final(old, sys, ret)
  BY DEF Final, Creates
<1>4. procs' = [h EXCEPT ![t].sys = None]
  BY <1>9 DEF Exit, Exited
<1>5. FdsPut1(h, procs, l, fds) /\ SamePids(h, procs)
  BY <1>1, <1>9, LookSetFds
<1>6. IsTable(h) /\ t \in DOMAIN h
  <2>1. FdsSet([procs EXCEPT ![l].fds = fds], procs, l, fds)
    BY <1>1, ExceptProcess
  <2> QED BY <1>1, <1>9, <2>1 DEF FdsSet
<1>7. SameFds(procs', h) /\ SamePids(procs', h)
  <2>3. PICK none : none = None
    OBVIOUS
  <2>1. procs' = [h EXCEPT ![t].sys = none]
    BY <1>4, <2>3
  <2>2. SameFds(procs', h) /\ SamePids(procs', h)
    BY <1>6, <2>1, LookSetCall
  <2> QED BY <2>2
<1>8. FdsPut1(procs', procs, l, fds) /\ SamePids(procs', procs)
  BY <1>5, <1>7 DEF FdsPut1, SameFds, SamePids
<1> QED BY <1>2, <1>3, <1>8

LEMMA LookSwitch ==
    ASSUME NEW c, NEW prev, NEW next, Switch(c, prev, next)
    PROVE  SameFds(procs', procs) /\ SamePids(procs', procs)
<1> PICK p : p = Process(None)
  OBVIOUS
<1>1. p.fds = NoFds /\ p.pid = None
  BY DEF Process
<1>2. procs' = [t \in DOMAIN procs \cup ({prev, next} \ {None}) |->
                  IF t \in DOMAIN procs THEN procs[t] ELSE p]
  BY DEF Switch
<1>3. /\ DOMAIN procs' = DOMAIN procs \cup ({prev, next} \ {None})
      /\ \A u \in DOMAIN procs' : procs'[u] = IF u \in DOMAIN procs THEN procs[u] ELSE p
  BY <1>2
<1>4. \A u : FdsOf(procs', u) = FdsOf(procs, u) /\ PidOf(procs', u) = PidOf(procs, u)
  <2> TAKE u
  <2>1. CASE u \in DOMAIN procs
    BY <1>3, <2>1 DEF FdsOf, PidOf
  <2>2. CASE u \notin DOMAIN procs
    BY <1>1, <1>3, <2>2 DEF FdsOf, PidOf
  <2> QED BY <2>1, <2>2
<1> QED BY <1>4 DEF SameFds, SamePids

LEMMA LookFork ==
    ASSUME ProcsOK, NEW child \in Tids, NEW pid, NEW parent \in Tids, Fork(child, pid, parent)
    PROVE  /\ FdsPut1(procs', procs, child, FdsOf(procs, parent))
           /\ \A u : PidOf(procs', u) = IF u = child THEN pid
                                        ELSE IF u = parent THEN parent ELSE PidOf(procs, u)
<1> PICK e : e = Ensure(procs, parent, Process(parent))
  OBVIOUS
<1> PICK g : g = [e EXCEPT ![parent].pid = parent]
  OBVIOUS
<1> PICK fds : fds = g[parent].fds
  OBVIOUS
<1> PICK q : q = Process(pid)
  OBVIOUS
<1> PICK p : p = [q EXCEPT !.fds = fds]
  OBVIOUS
<1>1. p.fds = fds /\ p.pid = pid
  <2>1. q = [pid |-> pid, fds |-> NoFds, sys |-> None]
    BY DEF Process
  <2> QED BY <2>1
<1>2. procs' = Put(g, child, p)
  BY DEF Fork, Forked
<1>3. IsTable(e) /\ DOMAIN e = DOMAIN procs \cup {parent}
  BY EnsureParts DEF ProcsOK, Ensured
<1>4. /\ SameFds(e, procs) /\ parent \in DOMAIN e
      /\ \A u : PidOf(e, u) = PidOf(procs, u) \/ (u = parent /\ PidOf(e, u) = parent)
  BY LookEnsure
<1>5. SameFds(g, e) /\ PidPut1(g, e, parent, parent)
  BY <1>3, <1>4, LookSetPid
<1>6. FdsPut1(procs', g, child, fds) /\ PidPut1(procs', g, child, pid)
  <2>1. FdsPut1(Put(g, child, p), g, child, p.fds) /\ PidPut1(Put(g, child, p), g, child, p.pid)
    BY LookPut
  <2> QED BY <1>1, <1>2, <2>1
<1>7. fds = FdsOf(procs, parent)
  <2>1. parent \in DOMAIN g
    BY <1>4
  <2> QED BY <1>4, <1>5, <2>1 DEF SameFds, FdsOf
<1>8. FdsPut1(procs', procs, child, fds)
  BY <1>4, <1>5, <1>6 DEF FdsPut1, SameFds
<1>9. \A u : PidOf(procs', u) = IF u = child THEN pid
                                ELSE IF u = parent THEN parent ELSE PidOf(procs, u)
  BY <1>4, <1>5, <1>6 DEF PidPut1
<1> QED BY <1>7, <1>8, <1>9

\* The descriptors of one thread are set, that may get its Process for it.
LEMMA LookEnsured ==
    ASSUME ProcsOK, NEW t \in Tids, NEW pid, pid = None \/ pid = t, NEW fds,
           NEW e, e = Ensure(procs, t, Process(pid)), procs' = [e EXCEPT ![t].fds = fds]
    PROVE  /\ FdsPut1(procs', procs, t, fds) /\ e[t].fds = FdsOf(procs, t)
           /\ \A u : PidOf(procs', u) = PidOf(procs, u) \/ (u = t /\ PidOf(procs', u) = pid)
<1>1. IsTable(e)
  BY EnsureParts DEF ProcsOK, Ensured
<1>2. /\ SameFds(e, procs) /\ t \in DOMAIN e /\ e[t].fds = FdsOf(procs, t)
      /\ \A u : PidOf(e, u) = PidOf(procs, u) \/ (u = t /\ PidOf(e, u) = pid)
  BY LookEnsure
<1>3. FdsPut1(procs', e, t, fds) /\ SamePids(procs', e)
  BY <1>1, <1>2, LookSetFds
<1> QED BY <1>2, <1>3 DEF FdsPut1, SameFds, SamePids

LEMMA LookExec ==
    ASSUME ProcsOK, NEW t \in Tids, Exec(t)
    PROVE  /\ FdsPut1(procs', procs, t, Drop(FdsOf(procs, t), CloseOnExec(t)))
           /\ t \in DOMAIN procs' /\ procs'[t].fds = FdsOf(procs', t)
           /\ \A u : PidOf(procs', u) \in {PidOf(procs, u), None}
<1>9. PICK none : none = None
  OBVIOUS
<1>10. PICK e : e = Ensure(procs, t, Process(none))
  OBVIOUS
<1>11. PICK fds : fds = Drop(e[t].fds, CloseOnExec(t))
  OBVIOUS
<1>1. t \in DOMAIN e
  BY <1>10, LookEnsure
<1>2. procs' = [e EXCEPT ![t].fds = fds]
  BY <1>9, <1>10, <1>11 DEF Exec
<1>3. /\ FdsPut1(procs', procs, t, fds) /\ e[t].fds = FdsOf(procs, t)
      /\ \A u : PidOf(procs', u) = PidOf(procs, u) \/ (u = t /\ PidOf(procs', u) = none)
  BY <1>2, <1>9, <1>10, LookEnsured
<1>4. t \in DOMAIN procs'
  BY <1>1, <1>2
<1>5. FdsPut1(procs', procs, t, Drop(FdsOf(procs, t), CloseOnExec(t)))
  BY <1>3, <1>11
<1>6. \A u : PidOf(procs', u) \in {PidOf(procs, u), None}
  BY <1>3, <1>9
<1> QED BY <1>4, <1>5, <1>6 DEF FdsOf

LEMMA LookDumpFd ==
    ASSUME ProcsOK, NEW t \in Tids, NEW fd, NEW name, NEW cloexec,
           StatedumpFd(t, fd, name, cloexec)
    PROVE  /\ \E v : v.name = name /\ FdsPut1(procs', procs, t, Put(FdsOf(procs, t), fd, v))
           /\ \A u : PidOf(procs', u) = PidOf(procs, u) \/ (u = t /\ PidOf(procs', u) = t)
<1> PICK e : e = Ensure(procs, t, Process(t))
  OBVIOUS
<1> PICK old : old = e[t].fds
  OBVIOUS
<1> PICK v : v = FD(name, IF fd \in DOMAIN old THEN old[fd].cloexec ELSE cloexec)
  OBVIOUS
<1> PICK fds : fds = Put(old, fd, v)
  OBVIOUS
<1>1. procs' = [e EXCEPT ![t].fds = fds]
  BY DEF StatedumpFd
<1>2. /\ FdsPut1(procs', procs, t, fds) /\ old = FdsOf(procs, t)
      /\ \A u : PidOf(procs', u) = PidOf(procs, u) \/ (u = t /\ PidOf(procs', u) = t)
  BY <1>1, LookEnsured
<1>3. v.name = name
  BY DEF FD
<1> QED BY <1>2, <1>3

LEMMA LookDump ==
    ASSUME ProcsOK, NEW t \in Tids, NEW pid \in Tids, StatedumpProcess(t, pid)
    PROVE  /\ \A u : u \notin {t, pid} \/ t = pid => FdsOf(procs', u) = FdsOf(procs, u)
           /\ \A u : \/ PidOf(procs', u) = PidOf(procs, u)
                     \/ u \in {t, pid} /\ PidOf(procs', u) = pid
<1> PICK none : none = None
  OBVIOUS
<1> PICK e : e = Ensure(procs, t, Process(none))
  OBVIOUS
<1> PICK d : d = [e EXCEPT ![t].pid = pid]
  OBVIOUS
<1> PICK g : g = Ensure(d, pid, Process(pid))
  OBVIOUS
<1>1. IsTable(e)
  BY EnsureParts DEF ProcsOK, Ensured
<1>2. /\ SameFds(e, procs) /\ t \in DOMAIN e
      /\ \A u : PidOf(e, u) = PidOf(procs, u) \/ (u = t /\ PidOf(e, u) = none)
  BY LookEnsure
<1>3. SameFds(d, e) /\ PidPut1(d, e, t, pid)
  BY <1>1, <1>2, LookSetPid
<1>4. /\ SameFds(g, d) /\ pid \in DOMAIN g
      /\ \A u : PidOf(g, u) = PidOf(d, u) \/ (u = pid /\ PidOf(g, u) = pid)
  BY LookEnsure
<1>5. /\ SameFds(g, procs)
      /\ \A u : \/ PidOf(g, u) = PidOf(procs, u)
                \/ u \in {t, pid} /\ PidOf(g, u) = pid
  <2>1. SameFds(g, procs)
    BY <1>2, <1>3, <1>4 DEF SameFds
  <2>2. ASSUME NEW u
        PROVE  PidOf(g, u) = PidOf(procs, u) \/ (u \in {t, pid} /\ PidOf(g, u) = pid)
    <3>1. PidOf(d, u) = IF u = t THEN pid ELSE PidOf(e, u)
      BY <1>3 DEF PidPut1
    <3>2. u # t => PidOf(e, u) = PidOf(procs, u)
      BY <1>2
    <3>3. PidOf(g, u) = PidOf(d, u) \/ (u = pid /\ PidOf(g, u) = pid)
      BY <1>4
    <3> QED BY <3>1, <3>2, <3>3
  <2> QED BY <2>1, <2>2
<1>6. CASE pid = t
  <2>1. procs' = g
    BY <1>6 DEF StatedumpProcess, Dumped
  <2> QED BY <1>5, <2>1 DEF SameFds
<1>7. CASE pid # t
  <2> PICK lead : lead = g[pid].fds
    OBVIOUS
  <2> PICK own : own = g[t].fds
    OBVIOUS
  <2> PICK fds : fds = [fd \in DOMAIN lead \cup DOMAIN own |->
                          IF fd \in DOMAIN lead THEN lead[fd] ELSE own[fd]]
    OBVIOUS
  <2>8. PICK h : h = [g EXCEPT ![pid].fds = fds]
    OBVIOUS
  <2>1. procs' = [h EXCEPT ![t].fds = NoFds]
    BY <1>7, <2>8 DEF StatedumpProcess, Dumped
  <2>2. IsTable(g) /\ t \in DOMAIN g
    <3> PICK x : x = Ensure(e, pid, Process(pid))
      OBVIOUS
    <3>1. Ensured(x, e, pid) /\ Ensured(e, procs, t)
      BY <1>1, EnsureParts DEF ProcsOK
    <3>2. PidSet([x EXCEPT ![t].pid = pid], x)
      BY <3>1, ExceptPid DEF Ensured
    <3>3. g = [x EXCEPT ![t].pid = pid]
      <4>1. t \in DOMAIN e /\ e = [y \in DOMAIN e |-> e[y]]
        BY <1>1, <1>2 DEF IsTable
      <4>2. CASE pid \in DOMAIN e
        BY <4>1, <4>2 DEF Ensure
      <4>3. CASE pid \notin DOMAIN e
        <5> PICK p : p = Process(pid)
          OBVIOUS
        <5>1. x = Put(e, pid, p)
          BY <4>3 DEF Ensure
        <5>2. [Put(e, pid, p) EXCEPT ![t].pid = pid] = Put([e EXCEPT ![t].pid = pid], pid, p)
          BY <4>1, <4>3 DEF Put
        <5> QED BY <4>3, <5>1, <5>2 DEF Ensure
      <4> QED BY <4>2, <4>3
    <3> QED BY <3>1, <3>2, <3>3 DEF PidSet, Ensured
  <2>3. FdsPut1(h, g, pid, fds) /\ SamePids(h, g)
    BY <1>4, <2>2, <2>8, LookSetFds
  <2>4. IsTable(h) /\ t \in DOMAIN h
    <3>1. FdsSet([g EXCEPT ![pid].fds = fds], g, pid, fds)
      BY <1>4, <2>2, ExceptProcess
    <3> QED BY <2>2, <2>8, <3>1 DEF FdsSet
  <2>5. FdsPut1(procs', h, t, NoFds) /\ SamePids(procs', h)
    <3>3. PICK empty : empty = NoFds
      OBVIOUS
    <3>1. procs' = [h EXCEPT ![t].fds = empty]
      BY <2>1, <3>3
    <3>2. FdsPut1(procs', h, t, empty) /\ SamePids(procs', h)
      BY <2>4, <3>1, LookSetFds
    <3> QED BY <3>2, <3>3
  <2>6. \A u : u \notin {t, pid} => FdsOf(procs', u) = FdsOf(procs, u)
    <3> TAKE u
    <3> HAVE u \notin {t, pid}
    <3>1. FdsOf(procs', u) = FdsOf(h, u)
      BY <2>5 DEF FdsPut1
    <3>2. FdsOf(h, u) = FdsOf(g, u)
      BY <2>3 DEF FdsPut1
    <3>3. FdsOf(g, u) = FdsOf(procs, u)
      BY <1>5 DEF SameFds
    <3> QED BY <3>1, <3>2, <3>3
  <2>7. \A u : PidOf(procs', u) = PidOf(g, u)
    BY <2>3, <2>5 DEF SamePids
  <2> QED BY <1>5, <1>7, <2>6, <2>7
<1> QED BY <1>6, <1>7

\* Of a process without threads that was seen from its start, or from the start
\* of the trace, the descriptors are right.
RightAt(p) ==
    p \in alive /\ p \notin missed /\ Lone(p)
      => Right(FdsOf(procs, p), CallIn(procs, p), calls[p], files[p])

\* A Process is known to be of the process of its thread, or of none.
PidsInv  == \A t \in Tids : PidOf(procs, t) \in {None, conf.tgid[t]}
FilesInv == /\ files = [t \in Tids |-> files[t]]
            /\ \A t \in Tids : conf.tgid[t] # t => DOMAIN files[t] = {}
KnownInv == \A t \in Tids : calls[t] # None => calls[t].call \in Calls
NamesInv == PidsInv /\ FilesInv /\ KnownInv /\ \A p \in Tids : RightAt(p)

LEMMA TgidParts ==
    ASSUME TraceInv, NEW t \in Tids
    PROVE  conf.tgid[t] \in Tids /\ conf.tgid[conf.tgid[t]] = conf.tgid[t]
BY ConfsAssumption DEF TraceInv

LEMMA LoneParts ==
    ASSUME NEW p \in Tids, Lone(p)
    PROVE  conf.tgid[p] = p /\ \A t \in Tids : conf.tgid[t] = p => t = p
BY DEF Lone

\* Nothing of a process changes.
LEMMA KeepRight ==
    ASSUME NEW p, RightAt(p), conf' = conf,
           p \in alive' /\ p \notin missed' => p \in alive /\ p \notin missed,
           FdsOf(procs', p) = FdsOf(procs, p), CallIn(procs', p) = CallIn(procs, p),
           calls'[p] = calls[p], files'[p] = files[p]
    PROVE  RightAt(p)'
<1>1. Lone(p)' <=> Lone(p)
  BY DEF Lone
<1> QED BY <1>1 DEF RightAt

\* A process is in no call of which the entry was seen.
LEMMA UnseenRight ==
    ASSUME NEW F, NEW sys, NEW k, NEW K, ~Seen(k)
    PROVE  Right(F, sys, k, K) <=> NamesOK(F, K)
BY DEF Right, Returned

LEMMA NamesStart ==
    ASSUME NoneIsNoRecord, TraceInit
    PROVE  NamesInv
<1>1. /\ procs = [t \in {} |-> Process(None)] /\ conf \in Confs
      /\ calls \in [Tids -> {None} \cup {Call(x, FALSE) : x \in conf.begun}]
      /\ files \in [Tids -> {NoFds} \cup conf.files]
      /\ \A t \in Tids : t \notin alive \/ conf.tgid[t] # t => files[t] = NoFds
  BY DEF TraceInit, IoInit
<1>2. \A t : FdsOf(procs, t) = NoFds /\ PidOf(procs, t) = None
  BY <1>1 DEF FdsOf, PidOf
<1>3. DOMAIN NoFds = {}
  BY DEF NoFds
<1>4. FilesInv
  BY <1>1, <1>3 DEF FilesInv
<1>5. ASSUME NEW t \in Tids
      PROVE  ~Seen(calls[t]) /\ (calls[t] # None => calls[t].call \in Calls)
  <2>1. conf.begun \subseteq Calls
    BY <1>1, ConfsAssumption
  <2>2. CASE calls[t] = None
    BY <2>2 DEF Seen
  <2>3. CASE calls[t] # None
    <3>1. PICK x \in conf.begun : calls[t] = Call(x, FALSE)
      BY <1>1, <2>3
    <3> QED BY <2>1, <3>1 DEF Seen, Call
  <2> QED BY <2>2, <2>3
<1>6. ASSUME NEW p \in Tids
      PROVE  RightAt(p)
  <2>1. NamesOK(FdsOf(procs, p), files[p])
    BY <1>2, <1>3 DEF NamesOK
  <2>2. Right(FdsOf(procs, p), CallIn(procs, p), calls[p], files[p])
    BY <1>5, <2>1, UnseenRight
  <2> QED BY <2>2 DEF RightAt
<1> QED BY <1>2, <1>4, <1>5, <1>6 DEF NamesInv, PidsInv, KnownInv

LEMMA NamesEnter ==
    ASSUME NoneIsNoRecord, ContextOfLeaders, TraceInv, NamesInv, NEW c \in Cpus,
           NEW call \in conf.calls, KernelEnter(c, call)
    PROVE  NamesInv'
<1>1. PICK t : t = running[c]
  OBVIOUS
<1>2. PICK k : k = Call(call, cpus[c] = t)
  OBVIOUS
<1>3. /\ t # None /\ calls[t] = None /\ calls' = [calls EXCEPT ![t] = k]
      /\ conf' = conf /\ alive' = alive /\ files' = files /\ missed' = missed
  BY <1>1, <1>2 DEF KernelEnter
<1>4. t \in alive /\ t \in Tids /\ cpus[c] \in {None, t} /\ call \in Calls
  BY <1>1, <1>3, ConfsAssumption DEF TraceInv, CpusInv
<1>5. PICK q : q = conf.tgid[t]
  OBVIOUS
<1>6. q \in Tids /\ PidOf(procs, t) \in {None, q}
  BY <1>4, <1>5, TgidParts DEF NamesInv, PidsInv
<1>7. k # None /\ k.call = call /\ k.ret = None /\ (k.seen <=> cpus[c] = t)
  <2>1. k = [call |-> call, ret |-> None, seen |-> cpus[c] = t]
    BY <1>2 DEF Call
  <2> QED BY <2>1 DEF NoneIsNoRecord
<1>8. \A u \in Tids : calls'[u] = IF u = t THEN k ELSE calls[u]
  BY <1>3, <1>4 DEF TraceInv, CallsInv
<1>9. FilesInv' /\ KnownInv'
  BY <1>3, <1>4, <1>7, <1>8 DEF NamesInv, FilesInv, KnownInv
<1>10. RightAt(t) /\ ~Seen(calls[t])
  BY <1>3, <1>4 DEF NamesInv, Seen
<1>11. Lone(t)' <=> Lone(t)
  BY <1>3 DEF Lone
<1>12. CASE cpus[c] = None
  <2>1. procs' = procs
    BY <1>12 DEF KernelEnter, ioVars
  <2>2. PidsInv'
    BY <1>3, <2>1 DEF NamesInv, PidsInv
  <2>3. ASSUME NEW p \in Tids
        PROVE  RightAt(p)'
    <3>1. CASE p = t
      <4>1. ~Seen(calls'[t])
        BY <1>3, <1>4, <1>7, <1>8, <1>12 DEF Seen
      <4>2. Right(FdsOf(procs, t), CallIn(procs, t), calls[t], files[t])
              => Right(FdsOf(procs, t), CallIn(procs, t), calls'[t], files[t])
        BY <1>10, <4>1, UnseenRight
      <4> QED BY <1>3, <1>10, <1>11, <2>1, <3>1, <4>2 DEF RightAt
    <3>2. CASE p # t
      BY <1>3, <1>8, <2>1, <3>2, KeepRight DEF NamesInv
    <3> QED BY <3>1, <3>2
  <2> QED BY <1>9, <2>2, <2>3 DEF NamesInv
<1>13. CASE cpus[c] = t
  <2>1. PICK pid : pid = IF conf.context THEN conf.tgid[t] ELSE None
    OBVIOUS
  <2>2. Entry(c, call, pid)
    BY <1>1, <1>3, <1>13, <2>1 DEF KernelEnter
  <2>3. pid \in {None, t} /\ pid \in {None, q}
    BY <1>4, <1>5, <2>1 DEF ContextOfLeaders, TraceInv
  <2>4. \A u : u # t => CallIn(procs', u) = CallIn(procs, u)
    <3>1. pid \in Tids \cup {None} /\ ProcsOK
      BY <1>6, <2>3 DEF TraceInv
    <3>2. pid \in {None, cpus[c]} =>
             \A u : u # cpus[c] => CallIn(procs', u) = CallIn(procs, u)
      BY <1>4, <2>2, <3>1, EntryProcs
    <3> QED BY <1>13, <2>3, <3>2
  <2>5. PICK l \in {t, q} : \E fds :
              /\ fds = IF call.op = "dup2" THEN Drop(FdsOf(procs, l), {call.new})
                                           ELSE FdsOf(procs, l)
              /\ FdsPut1(procs', procs, l, fds)
              /\ CallIn(procs', t) = Request(fds, call)
              /\ \A u : PidOf(procs', u) = PidOf(procs, u) \/ (u = t /\ PidOf(procs', u) = q)
    <3>1. ProcsOK /\ t = cpus[c]
      BY <1>13 DEF TraceInv
    <3>2. EntryLooks(t, q, call)
      BY <1>4, <1>6, <2>2, <2>3, <3>1, LookEntry
    <3> QED BY <3>2 DEF EntryLooks
  <2>6. PICK fds :
              /\ fds = IF call.op = "dup2" THEN Drop(FdsOf(procs, l), {call.new})
                                           ELSE FdsOf(procs, l)
              /\ FdsPut1(procs', procs, l, fds)
              /\ CallIn(procs', t) = Request(fds, call)
              /\ \A u : PidOf(procs', u) = PidOf(procs, u) \/ (u = t /\ PidOf(procs', u) = q)
    BY <2>5
  <2>7. PidsInv'
    BY <1>3, <1>5, <2>6 DEF NamesInv, PidsInv
  <2>8. ASSUME NEW p \in Tids, Lone(p), p # t
        PROVE  FdsOf(procs', p) = FdsOf(procs, p)
    <3>1. l # p
      BY <1>4, <1>5, <2>8, LoneParts
    <3> QED BY <2>6, <3>1 DEF FdsPut1
  <2>9. ASSUME NEW p \in Tids
        PROVE  RightAt(p)'
    <3>1. CASE p = t
      <4> SUFFICES ASSUME p \in alive, p \notin missed, Lone(p)
                   PROVE  Right(FdsOf(procs', p), CallIn(procs', p), calls'[p], files[p])
        BY <1>3, <1>11, <3>1 DEF RightAt
      <4>1. l = t
        BY <1>4, <1>5, <3>1, LoneParts
      <4>2. FdsOf(procs', p) = fds /\ CallIn(procs', p) = Request(fds, call) /\ calls'[p] = k
        BY <1>4, <1>8, <2>6, <3>1, <4>1 DEF FdsPut1
      <4>3. PICK F : F = FdsOf(procs, t)
        OBVIOUS
      <4>4. NamesOK(F, files[t])
        BY <1>10, <3>1, <4>3, UnseenRight DEF RightAt
      <4>5. fds = IF call.op = "dup2" THEN Drop(F, {call.new}) ELSE F
        BY <2>6, <4>1, <4>3
      <4>6. NamesOK(fds, files[t]) /\ Pending(fds, Request(fds, call), call, files[t])
        BY <4>4, <4>5, RightEnter
      <4>7. ~Returned(k)
        BY <1>7 DEF Returned
      <4> QED BY <1>7, <3>1, <4>2, <4>6, <4>7 DEF Right
    <3>2. CASE p # t /\ Lone(p)
      BY <1>3, <1>8, <2>4, <2>8, <3>2, KeepRight DEF NamesInv
    <3>3. CASE ~Lone(p)
      BY <1>3, <3>3 DEF RightAt, Lone
    <3> QED BY <3>1, <3>2, <3>3
  <2> QED BY <1>9, <2>7, <2>9 DEF NamesInv
<1> QED BY <1>4, <1>12, <1>13

LEMMA NamesDo ==
    ASSUME NoneIsNoRecord, TraceInv, NamesInv, NEW t \in Tids, KernelDo(t)
    PROVE  NamesInv'
<1>1. PICK q : q = conf.tgid[t]
  OBVIOUS
<1>2. PICK k : k = calls[t]
  OBVIOUS
<1>3. PICK o \in Outcomes(files[q], k.call) :
         /\ files' = [files EXCEPT ![q] = o.fds]
         /\ calls' = [calls EXCEPT ![t].ret = o.ret]
         /\ missed' = IF ~k.seen /\ Lost(files[q], o.fds) # {} THEN missed \cup {q} ELSE missed
  BY <1>1, <1>2 DEF KernelDo
<1>4. /\ k # None /\ k.ret = None /\ conf' = conf /\ alive' = alive /\ procs' = procs
      /\ q \in Tids /\ conf.tgid[q] = q
  BY <1>1, <1>2, TgidParts DEF KernelDo, ioVars
<1>5. PICK n : n = [k EXCEPT !.ret = o.ret]
  OBVIOUS
<1>6. n.call = k.call /\ n.seen = k.seen /\ n.ret = o.ret /\ (n # None => n.call \in Calls)
  <2>1. k = [call |-> k.call, ret |-> k.ret, seen |-> k.seen] /\ k.call \in Calls
    BY <1>2, <1>4 DEF TraceInv, CallsInv, IsCall, NamesInv, KnownInv
  <2>2. n = [call |-> k.call, ret |-> o.ret, seen |-> k.seen]
    BY <1>5, <2>1
  <2> QED BY <2>1, <2>2
<1>7. \A u \in Tids : calls'[u] = IF u = t THEN n ELSE calls[u]
  BY <1>2, <1>3, <1>5 DEF TraceInv, CallsInv
<1>8. /\ files' = [u \in Tids |-> files'[u]]
      /\ \A u \in Tids : files'[u] = IF u = q THEN o.fds ELSE files[u]
  BY <1>3 DEF NamesInv, FilesInv
<1>9. PidsInv' /\ FilesInv' /\ KnownInv'
  <2>1. FilesInv'
    BY <1>4, <1>8 DEF NamesInv, FilesInv
  <2>2. KnownInv'
    BY <1>6, <1>7 DEF NamesInv, KnownInv
  <2> QED BY <1>4, <2>1, <2>2 DEF NamesInv, PidsInv
<1>10. ASSUME NEW p \in Tids
       PROVE  RightAt(p)'
  <2>0. missed \subseteq missed' /\ (Lone(p)' <=> Lone(p))
    BY <1>3, <1>4 DEF Lone
  <2>1. CASE ~Lone(p)
    BY <2>0, <2>1 DEF RightAt
  <2>2. CASE Lone(p) /\ p # t
    <3>1. p # q
      BY <1>1, <2>2, LoneParts
    <3> QED BY <1>4, <1>7, <1>8, <2>0, <2>2, <3>1, KeepRight DEF NamesInv
  <2>3. CASE Lone(p) /\ p = t
    <3> PICK F : F = FdsOf(procs, t)
      OBVIOUS
    <3> PICK K : K = files[t]
      OBVIOUS
    <3> PICK sys : sys = CallIn(procs, t)
      OBVIOUS
    <3>1. q = t /\ calls'[t] = n /\ files'[t] = o.fds
      BY <1>1, <1>7, <1>8, <2>3, LoneParts
    <3> SUFFICES ASSUME t \in alive, t \notin missed'
                 PROVE  Right(F, sys, n, o.fds)
      BY <1>4, <2>0, <2>3, <3>1 DEF RightAt
    <3>2. Right(F, sys, k, K) /\ Matches(k, sys)
      BY <1>2, <2>0, <2>3 DEF NamesInv, RightAt, TraceInv, CallsInv
    <3>3. ~Returned(k)
      BY <1>4 DEF Returned
    <3>4. NamesOK(F, K) /\ (Seen(k) => Pending(F, sys, k.call, K))
      BY <3>2, <3>3 DEF Right
    <3>5. CASE ~k.seen
      <4>1. Lost(K, o.fds) = {}
        BY <1>3, <3>1, <3>5
      <4>2. NamesOK(F, o.fds)
        BY <3>4, <4>1, NotLost
      <4> QED BY <1>6, <3>5, <4>2, UnseenRight DEF Seen
    <3>6. CASE k.seen
      <4> PICK call : call = k.call
        OBVIOUS
      <4>1. call \in Calls /\ Pending(F, sys, call, K)
        BY <1>2, <1>4, <3>4, <3>6 DEF NamesInv, KnownInv, Seen
      <4>2. sys.op = call.op /\ (sys.op \notin OpenOps => sys.fd = call.fd)
        BY <1>4, <3>2, <3>6 DEF Matches
      <4>3. call.op \in Ops /\ (call.op = "dup2" => call.new \in Fds)
        BY <4>1, CallParts
      <4>4. o \in Outcomes(K, call)
        BY <1>3, <3>1
      <4>5. o.ret \in Int /\ NamesOK(Final(F, sys, o.ret), o.fds)
        BY <3>4, <4>1, <4>2, <4>3, <4>4, RightDo
      <4>6. n # None
        <5>1. n = [call |-> call, ret |-> o.ret, seen |-> k.seen]
          BY <1>2, <1>4, <1>5 DEF TraceInv, CallsInv, IsCall
        <5> QED BY <5>1 DEF NoneIsNoRecord
      <4>7. Returned(n)
        BY <1>6, <3>6, <4>5, <4>6, NoneAssumption DEF Returned, Seen
      <4> QED BY <1>6, <4>5, <4>7 DEF Right
    <3> QED BY <3>5, <3>6
  <2> QED BY <2>1, <2>2, <2>3
<1> QED BY <1>9, <1>10 DEF NamesInv

LEMMA NamesLeave ==
    ASSUME TraceInv, NamesInv, NEW c \in Cpus, KernelLeave(c)
    PROVE  NamesInv'
<1>1. PICK t : t = running[c]
  OBVIOUS
<1>2. PICK k : k = calls[t]
  OBVIOUS
<1>3. /\ t # None /\ k # None /\ k.ret # None /\ calls' = [calls EXCEPT ![t] = None]
      /\ Exit(c, k.ret) \/ Ignored(c)
      /\ conf' = conf /\ alive' = alive /\ files' = files /\ missed' = missed
  BY <1>1, <1>2 DEF KernelLeave
<1>4. t \in alive /\ t \in Tids /\ cpus[c] \in {None, t}
  BY <1>1, <1>3 DEF TraceInv, CpusInv
<1>5. PICK q : q = conf.tgid[t]
  OBVIOUS
<1>6. PidOf(procs, t) \in {None, q}
  BY <1>4, <1>5 DEF NamesInv, PidsInv
<1>7. \A u \in Tids : calls'[u] = IF u = t THEN None ELSE calls[u]
  BY <1>3, <1>4 DEF TraceInv, CallsInv
<1>8. FilesInv' /\ KnownInv'
  BY <1>3, <1>7 DEF NamesInv, FilesInv, KnownInv
<1>9. Matches(k, CallIn(procs, t)) /\ (cpus[c] = None => ~k.seen)
  BY <1>1, <1>2, <1>3, <1>4 DEF TraceInv, CallsInv
<1>10. CASE Exit(c, k.ret)
  <2>1. cpus[c] = t /\ CallIn(procs, t) # None
    BY <1>4, <1>10 DEF Exit, CallIn, TraceInv, ProcsOK
  <2>2. Returned(k)
    BY <1>3, <1>9, <2>1 DEF Matches, Returned, Seen
  <2>3. PICK ret : ret = k.ret
    OBVIOUS
  <2>4. PICK l \in {t, q} :
           /\ FdsPut1(procs', procs, l, Final(FdsOf(procs, l), CallIn(procs, t), ret))
           /\ SamePids(procs', procs)
    <3>1. ProcsOK /\ Exit(c, ret) /\ t = cpus[c]
      BY <1>10, <2>1, <2>3 DEF TraceInv
    <3> QED BY <1>6, <3>1, LookExit
  <2>5. \A u : CallIn(procs', u) = IF u = t THEN None ELSE CallIn(procs, u)
    <3>1. ProcsOK /\ Exit(c, ret)
      BY <1>10, <2>3 DEF TraceInv
    <3>2. \A u : CallIn(procs', u) = IF u = cpus[c] THEN None ELSE CallIn(procs, u)
      BY <3>1, ExitProcs
    <3> QED BY <2>1, <3>2
  <2>6. PidsInv'
    BY <1>3, <2>4 DEF NamesInv, PidsInv, SamePids
  <2>7. ASSUME NEW p \in Tids
        PROVE  RightAt(p)'
    <3>0. Lone(p)' <=> Lone(p)
      BY <1>3 DEF Lone
    <3>1. CASE ~Lone(p)
      BY <3>0, <3>1 DEF RightAt
    <3>2. CASE Lone(p) /\ p # t
      <4>1. l # p
        BY <1>4, <1>5, <3>2, LoneParts
      <4>2. FdsOf(procs', p) = FdsOf(procs, p)
        BY <2>4, <4>1 DEF FdsPut1
      <4> QED BY <1>3, <1>7, <2>5, <3>2, <4>2, KeepRight DEF NamesInv
    <3>3. CASE Lone(p) /\ p = t
      <4>1. l = t
        BY <1>4, <1>5, <3>3, LoneParts
      <4>2. PICK R : R = Final(FdsOf(procs, t), CallIn(procs, t), ret)
        OBVIOUS
      <4>3. FdsOf(procs', t) = R /\ calls'[t] = None
        BY <1>4, <1>7, <2>4, <4>1, <4>2 DEF FdsPut1
      <4>4. t \notin missed => NamesOK(R, files[t])
        BY <1>2, <1>4, <2>2, <2>3, <3>3, <4>2 DEF NamesInv, RightAt, Right
      <4>5. ~Seen(None)
        BY DEF Seen
      <4>6. t \notin missed => Right(R, None, None, files[t])
        BY <4>4, <4>5, UnseenRight
      <4>7. CallIn(procs', t) = None
        BY <2>5
      <4> QED BY <1>3, <3>0, <3>3, <4>3, <4>6, <4>7 DEF RightAt
    <3> QED BY <3>1, <3>2, <3>3
  <2> QED BY <1>8, <2>6, <2>7 DEF NamesInv
<1>11. CASE Ignored(c)
  <2>1. procs' = procs /\ (cpus[c] # None => procs[cpus[c]].sys = None)
    BY <1>11 DEF Ignored, ioVars
  <2>2. ~Seen(k)
    <3>1. CASE cpus[c] = None
      BY <1>9, <3>1 DEF Seen
    <3>2. CASE cpus[c] = t
      <4>1. CallIn(procs, t) = None
        BY <1>3, <2>1, <3>2 DEF CallIn
      <4> QED BY <1>9, <4>1 DEF Matches, Seen
    <3> QED BY <1>4, <3>1, <3>2
  <2>3. PidsInv'
    BY <1>3, <2>1 DEF NamesInv, PidsInv
  <2>4. ASSUME NEW p \in Tids
        PROVE  RightAt(p)'
    <3>0. Lone(p)' <=> Lone(p)
      BY <1>3 DEF Lone
    <3>1. CASE p # t
      BY <1>3, <1>7, <2>1, <3>1, KeepRight DEF NamesInv
    <3>2. CASE p = t
      <4>1. calls'[t] = None /\ ~Seen(None)
        BY <1>4, <1>7 DEF Seen
      <4>2. Right(FdsOf(procs, t), CallIn(procs, t), k, files[t])
              => Right(FdsOf(procs, t), CallIn(procs, t), None, files[t])
        BY <2>2, <4>1, UnseenRight
      <4>3. RightAt(t)
        BY <1>4 DEF NamesInv
      <4> QED BY <1>2, <1>3, <2>1, <3>0, <3>2, <4>1, <4>2, <4>3 DEF RightAt
    <3> QED BY <3>1, <3>2
  <2> QED BY <1>8, <2>3, <2>4 DEF NamesInv
<1> QED BY <1>3, <1>10, <1>11

LEMMA NamesSwitch ==
    ASSUME TraceInv, NamesInv, NEW c \in Cpus, NEW next \in Tids \cup {None},
           KernelSwitch(c, next)
    PROVE  NamesInv'
<1>1. /\ conf' = conf /\ alive' = alive /\ calls' = calls /\ files' = files /\ missed' = missed
      /\ next = None \/ (next \in alive /\ Idle(next))
      /\ Switch(c, running[c], next) /\ running' = [running EXCEPT ![c] = next]
  BY DEF KernelSwitch
<1>2. \A u : CallIn(procs', u) = CallIn(procs, u)
  BY <1>1, SwitchParts
<1>3. \A u : FdsOf(procs', u) = FdsOf(procs, u) /\ PidOf(procs', u) = PidOf(procs, u)
  <2>1. SameFds(procs', procs) /\ SamePids(procs', procs)
    BY <1>1, LookSwitch
  <2> QED BY <2>1 DEF SameFds, SamePids
<1>4. PidsInv' /\ FilesInv' /\ KnownInv'
  BY <1>1, <1>3 DEF NamesInv, PidsInv, FilesInv, KnownInv
<1>5. \A p \in Tids : RightAt(p)'
  BY <1>1, <1>2, <1>3, KeepRight DEF NamesInv
<1> QED BY <1>4, <1>5 DEF NamesInv

LEMMA NamesExit ==
    ASSUME TraceInv, NamesInv, NEW c \in Cpus, NEW next \in Tids \cup {None},
           KernelExit(c, next)
    PROVE  NamesInv'
<1>1. PICK t : t = running[c]
  OBVIOUS
<1>2. /\ t # None /\ conf' = conf /\ alive' = alive \ {t} /\ calls' = [calls EXCEPT ![t] = None]
      /\ files' = IF t = conf.tgid[t] THEN [files EXCEPT ![t] = NoFds] ELSE files
      /\ missed' = missed \ {t}
      /\ next = None \/ (next \in alive /\ Idle(next))
      /\ Switch(c, running[c], next) /\ running' = [running EXCEPT ![c] = next]
  BY <1>1 DEF KernelExit
<1>3. t \in Tids
  BY <1>1, <1>2 DEF TraceInv, CpusInv
<1>4. \A u : CallIn(procs', u) = CallIn(procs, u)
  BY <1>2, SwitchParts
<1>5. \A u : FdsOf(procs', u) = FdsOf(procs, u) /\ PidOf(procs', u) = PidOf(procs, u)
  <2>1. SameFds(procs', procs) /\ SamePids(procs', procs)
    BY <1>2, LookSwitch
  <2> QED BY <2>1 DEF SameFds, SamePids
<1>6. \A u \in Tids : calls'[u] = IF u = t THEN None ELSE calls[u]
  BY <1>2, <1>3 DEF TraceInv, CallsInv
<1>7. /\ files' = [u \in Tids |-> files'[u]]
      /\ \A u \in Tids : files'[u] = files[u] \/ (u = t /\ files'[u] = NoFds)
  BY <1>2, <1>3 DEF NamesInv, FilesInv
<1>8. DOMAIN NoFds = {}
  BY DEF NoFds
<1>9. PidsInv' /\ FilesInv' /\ KnownInv'
  BY <1>2, <1>5, <1>6, <1>7, <1>8 DEF NamesInv, PidsInv, FilesInv, KnownInv
<1>10. ASSUME NEW p \in Tids
       PROVE  RightAt(p)'
  <2>1. CASE p = t
    BY <1>2, <2>1 DEF RightAt
  <2>2. CASE p # t
    BY <1>2, <1>4, <1>5, <1>6, <1>7, <2>2, KeepRight DEF NamesInv
  <2> QED BY <2>1, <2>2
<1> QED BY <1>9, <1>10 DEF NamesInv

LEMMA NamesFork ==
    ASSUME TraceInv, NamesInv, NEW c \in Cpus, NEW child \in Tids, KernelFork(c, child)
    PROVE  NamesInv'
<1>1. PICK t : t = running[c]
  OBVIOUS
<1>2. PICK q : q = conf.tgid[t]
  OBVIOUS
<1>3. PICK p : p = conf.tgid[child]
  OBVIOUS
<1>4. /\ t # None /\ calls[t] = None /\ child \notin alive /\ Fork(child, p, q)
      /\ p \in {child, q} /\ conf' = conf /\ alive' = alive \cup {child} /\ calls' = calls
      /\ files' = IF p = child THEN [files EXCEPT ![child] = files[q]] ELSE files
      /\ missed' = IF p = child /\ (q \in missed \/ ~Lone(q)) THEN missed \cup {child} ELSE missed
  BY <1>1, <1>2, <1>3 DEF KernelFork
<1>5. t \in alive /\ t \in Tids
  BY <1>1, <1>4 DEF TraceInv, CpusInv
<1>6. q \in Tids /\ conf.tgid[q] = q
  BY <1>2, <1>5, TgidParts
<1>7. /\ FdsPut1(procs', procs, child, FdsOf(procs, q))
      /\ \A u : PidOf(procs', u) = IF u = child THEN p ELSE IF u = q THEN q ELSE PidOf(procs, u)
  BY <1>4, <1>6, LookFork DEF TraceInv
<1>8. \A u : CallIn(procs', u) = IF u = child THEN None ELSE CallIn(procs, u)
  BY <1>4, <1>6, ForkProcs DEF TraceInv
<1>9. /\ files' = [u \in Tids |-> files'[u]]
      /\ \A u \in Tids : files'[u] = IF u = child /\ p = child THEN files[q] ELSE files[u]
  BY <1>4 DEF NamesInv, FilesInv
<1>10. PidsInv' /\ FilesInv' /\ KnownInv'
  <2>1. PidsInv'
    BY <1>3, <1>4, <1>6, <1>7 DEF NamesInv, PidsInv
  <2>2. FilesInv'
    BY <1>3, <1>4, <1>9 DEF NamesInv, FilesInv
  <2> QED BY <1>4, <2>1, <2>2 DEF NamesInv, KnownInv
<1>11. ASSUME NEW u \in Tids
       PROVE  RightAt(u)'
  <2>1. CASE u # child
    <3>1. FdsOf(procs', u) = FdsOf(procs, u) /\ CallIn(procs', u) = CallIn(procs, u)
      BY <1>7, <1>8, <2>1 DEF FdsPut1
    <3> QED BY <1>4, <1>9, <2>1, <3>1, KeepRight DEF NamesInv
  <2>2. CASE u = child
    <3>0. Lone(child)' <=> Lone(child)
      BY <1>4 DEF Lone
    <3> SUFFICES ASSUME child \notin missed', Lone(child)
                 PROVE  Right(FdsOf(procs', child), CallIn(procs', child), calls'[child], files'[child])
      BY <2>2, <3>0 DEF RightAt
    <3>1. p = child /\ q \notin missed /\ Lone(q)
      BY <1>3, <1>4, LoneParts
    <3>2. t = q
      BY <1>2, <1>5, <1>6, <3>1, LoneParts
    <3>3. ~Seen(calls[q])
      BY <1>4, <3>2 DEF Seen
    <3>4. NamesOK(FdsOf(procs, q), files[q])
      BY <1>5, <1>6, <3>1, <3>2, <3>3, UnseenRight DEF NamesInv, RightAt
    <3>5. FdsOf(procs', child) = FdsOf(procs, q) /\ files'[child] = files[q]
      BY <1>7, <1>9, <3>1 DEF FdsPut1
    <3>6. ~Seen(calls'[child])
      BY <1>4 DEF TraceInv, CallsInv, Seen
    <3> QED BY <3>4, <3>5, <3>6, UnseenRight
  <2> QED BY <2>1, <2>2
<1> QED BY <1>10, <1>11 DEF NamesInv

LEMMA NamesExec ==
    ASSUME TraceInv, NamesInv, NEW c \in Cpus, KernelExec(c)
    PROVE  NamesInv'
<1>1. PICK t : t = running[c]
  OBVIOUS
<1>2. PICK K : K = files[t]
  OBVIOUS
<1>3. PICK closed : closed = {fd \in DOMAIN K : K[fd].cloexec}
  OBVIOUS
<1>4. PICK L : L = Drop(K, closed)
  OBVIOUS
<1>5. /\ t # None /\ calls[t] = None /\ Exec(t)
      /\ conf' = conf /\ alive' = alive /\ calls' = calls
      /\ files' = [files EXCEPT ![t] = L]
      /\ missed' = IF closed \cap DOMAIN procs'[t].fds # {} THEN missed \cup {t} ELSE missed
  BY <1>1, <1>2, <1>3, <1>4 DEF KernelExec
<1>6. t \in Tids
  BY <1>1, <1>5 DEF TraceInv, CpusInv
<1>7. PICK S : S = CloseOnExec(t)
  OBVIOUS
<1>8. PICK F : F = FdsOf(procs, t)
  OBVIOUS
<1>9. PICK G : G = Drop(F, S)
  OBVIOUS
<1>10. /\ FdsPut1(procs', procs, t, G) /\ procs'[t].fds = FdsOf(procs', t)
       /\ \A u : PidOf(procs', u) \in {PidOf(procs, u), None}
  <2>1. /\ FdsPut1(procs', procs, t, Drop(FdsOf(procs, t), CloseOnExec(t)))
        /\ procs'[t].fds = FdsOf(procs', t)
        /\ \A u : PidOf(procs', u) \in {PidOf(procs, u), None}
    BY <1>5, <1>6, LookExec DEF TraceInv
  <2> QED BY <1>7, <1>8, <1>9, <2>1
<1>11. \A u : CallIn(procs', u) = CallIn(procs, u)
  BY <1>5, <1>6, ExecProcs DEF TraceInv
<1>12. /\ files' = [u \in Tids |-> files'[u]]
       /\ \A u \in Tids : files'[u] = IF u = t THEN L ELSE files[u]
  BY <1>5 DEF NamesInv, FilesInv
<1>13. DOMAIN L = DOMAIN K \ closed /\ \A x \in DOMAIN L : L[x] = K[x]
  BY <1>4 DEF Drop
<1>14. DOMAIN G \subseteq DOMAIN F /\ \A x \in DOMAIN G : G[x] = F[x]
  BY <1>9 DEF Drop
<1>15. PidsInv' /\ FilesInv' /\ KnownInv'
  <2>1. PidsInv'
    BY <1>5, <1>10 DEF NamesInv, PidsInv
  <2>2. FilesInv'
    BY <1>2, <1>5, <1>12, <1>13 DEF NamesInv, FilesInv
  <2> QED BY <1>5, <2>1, <2>2 DEF NamesInv, KnownInv
<1>16. ASSUME NEW p \in Tids
       PROVE  RightAt(p)'
  <2>0. missed \subseteq missed'
    BY <1>5
  <2>1. CASE p # t
    <3>1. FdsOf(procs', p) = FdsOf(procs, p)
      BY <1>10, <2>1 DEF FdsPut1
    <3> QED BY <1>5, <1>11, <1>12, <2>0, <2>1, <3>1, KeepRight DEF NamesInv
  <2>2. CASE p = t
    <3>0. Lone(t)' <=> Lone(t)
      BY <1>5 DEF Lone
    <3>1. FdsOf(procs', t) = G /\ files'[t] = L /\ calls'[t] = None /\ ~Seen(None)
      BY <1>5, <1>6, <1>10, <1>12 DEF FdsPut1, Seen
    <3> SUFFICES ASSUME t \in alive, t \notin missed', Lone(t)
                 PROVE  NamesOK(G, L)
      BY <1>5, <2>2, <3>0, <3>1, UnseenRight DEF RightAt
    <3>2. closed \cap DOMAIN G = {}
      BY <1>5, <1>10, <3>1
    <3>3. ~Seen(calls[t])
      BY <1>5, <3>1
    <3>4. NamesOK(F, K)
      BY <1>2, <1>6, <1>8, <2>0, <3>3, UnseenRight DEF NamesInv, RightAt
    <3> QED BY <1>13, <1>14, <3>2, <3>4 DEF NamesOK
  <2> QED BY <2>1, <2>2
<1> QED BY <1>15, <1>16 DEF NamesInv

LEMMA NamesDump ==
    ASSUME TraceInv, NamesInv, NEW t \in Tids, KernelDumpProcess(t)
    PROVE  NamesInv'
<1>1. PICK pid : pid = conf.tgid[t]
  OBVIOUS
<1>2. /\ StatedumpProcess(t, pid) /\ conf' = conf /\ alive' = alive /\ calls' = calls
      /\ files' = files /\ missed' = missed
  BY <1>1 DEF KernelDumpProcess, kernelVars
<1>3. pid \in Tids /\ conf.tgid[pid] = pid
  BY <1>1, TgidParts
<1>4. /\ \A u : u \notin {t, pid} \/ t = pid => FdsOf(procs', u) = FdsOf(procs, u)
      /\ \A u : PidOf(procs', u) = PidOf(procs, u) \/ (u \in {t, pid} /\ PidOf(procs', u) = pid)
  BY <1>2, <1>3, LookDump DEF TraceInv
<1>5. \A u : CallIn(procs', u) = CallIn(procs, u)
  BY <1>2, <1>3, DumpProcs DEF TraceInv
<1>6. PidsInv' /\ FilesInv' /\ KnownInv'
  <2>1. PidsInv'
    BY <1>1, <1>2, <1>3, <1>4 DEF NamesInv, PidsInv
  <2> QED BY <1>2, <2>1 DEF NamesInv, FilesInv, KnownInv
<1>7. ASSUME NEW p \in Tids
      PROVE  RightAt(p)'
  <2>1. CASE ~Lone(p)
    BY <1>2, <2>1 DEF RightAt, Lone
  <2>2. CASE Lone(p)
    <3>1. p \notin {t, pid} \/ t = pid
      BY <1>1, <2>2, LoneParts
    <3>2. FdsOf(procs', p) = FdsOf(procs, p)
      BY <1>4, <3>1
    <3> QED BY <1>2, <1>5, <3>2, KeepRight DEF NamesInv
  <2> QED BY <2>1, <2>2
<1> QED BY <1>6, <1>7 DEF NamesInv

LEMMA NamesDumpFd ==
    ASSUME TraceInv, NamesInv, NEW q \in Tids, NEW fd \in Fds, KernelDumpFd(q, fd)
    PROVE  NamesInv'
<1>1. PICK K : K = files[q]
  OBVIOUS
<1>2. PICK k : k = calls[q]
  OBVIOUS
<1>3. PICK name : name = K[fd].name
  OBVIOUS
<1>4. PICK cloexec : cloexec = K[fd].cloexec
  OBVIOUS
<1>5. /\ fd \in DOMAIN K /\ StatedumpFd(q, fd, name, cloexec)
      /\ conf' = conf /\ alive' = alive /\ calls' = calls /\ files' = files
      /\ missed' = IF /\ k # None
                      /\ k.call.op = "dup2"
                      /\ k.ret = None
                      /\ k.call.new = fd
                     THEN missed \cup {q} ELSE missed
  BY <1>1, <1>2, <1>3, <1>4 DEF KernelDumpFd
<1>6. PICK F : F = FdsOf(procs, q)
  OBVIOUS
<1>7. PICK v : v.name = name /\ FdsPut1(procs', procs, q, Put(F, fd, v))
  <2>1. \E v : v.name = name /\ FdsPut1(procs', procs, q, Put(FdsOf(procs, q), fd, v))
    BY <1>5, LookDumpFd DEF TraceInv
  <2> QED BY <1>6, <2>1
<1>8. \A u : PidOf(procs', u) = PidOf(procs, u) \/ (u = q /\ PidOf(procs', u) = q)
  BY <1>5, LookDumpFd DEF TraceInv
<1>9. \A u : CallIn(procs', u) = CallIn(procs, u)
  BY <1>5, StatedumpFdProcs DEF TraceInv
<1>10. PidsInv' /\ FilesInv' /\ KnownInv'
  <2>1. conf.tgid[q] = q
    BY <1>1, <1>5 DEF NamesInv, FilesInv
  <2>2. PidsInv'
    BY <1>5, <1>8, <2>1 DEF NamesInv, PidsInv
  <2> QED BY <1>5, <2>2 DEF NamesInv, FilesInv, KnownInv
<1>11. ASSUME NEW p \in Tids
       PROVE  RightAt(p)'
  <2>0. missed \subseteq missed'
    BY <1>5
  <2>1. CASE p # q
    <3>1. FdsOf(procs', p) = FdsOf(procs, p)
      BY <1>7, <2>1 DEF FdsPut1
    <3> QED BY <1>5, <1>9, <2>0, <2>1, <3>1, KeepRight DEF NamesInv
  <2>2. CASE p = q
    <3>0. Lone(q)' <=> Lone(q)
      BY <1>5 DEF Lone
    <3> PICK sys : sys = CallIn(procs, q)
      OBVIOUS
    <3>1. /\ FdsOf(procs', q) = Put(F, fd, v) /\ CallIn(procs', q) = sys
          /\ calls'[q] = k /\ files'[q] = K
      BY <1>1, <1>2, <1>5, <1>7, <1>9 DEF FdsPut1
    <3> SUFFICES ASSUME q \in alive, q \notin missed', Lone(q)
                 PROVE  Right(Put(F, fd, v), sys, k, K)
      BY <1>5, <2>2, <3>0, <3>1 DEF RightAt
    <3>2. Right(F, sys, k, K)
      BY <1>1, <1>2, <1>6, <2>0 DEF NamesInv, RightAt
    <3>3. ~(Seen(k) /\ ~Returned(k) /\ k.call.op = "dup2" /\ k.call.new = fd)
      BY <1>5 DEF Seen, Returned
    <3> QED BY <1>3, <1>5, <1>7, <3>2, <3>3, RightDump
  <2> QED BY <2>1, <2>2
<1> QED BY <1>10, <1>11 DEF NamesInv

LEMMA NamesSteps ==
    ASSUME NoneIsNoRecord, ContextOfLeaders, TraceInv, NamesInv, [TraceNext]_traceVars
    PROVE  NamesInv'
<1>1. CASE UNCHANGED traceVars
  <2>1. UNCHANGED <<conf, alive, calls, files, missed, procs>>
    BY <1>1 DEF traceVars, kernelVars, ioVars
  <2>2. PidsInv' /\ FilesInv' /\ KnownInv'
    BY <2>1 DEF NamesInv, PidsInv, FilesInv, KnownInv
  <2>3. \A p \in Tids : RightAt(p)'
    BY <2>1, KeepRight DEF NamesInv
  <2> QED BY <2>2, <2>3 DEF NamesInv
<1>2. CASE \E c \in Cpus, call \in conf.calls : KernelEnter(c, call)
  BY <1>2, NamesEnter
<1>3. CASE \E t \in Tids : KernelDo(t)
  BY <1>3, NamesDo
<1>4. CASE \E c \in Cpus : KernelLeave(c)
  BY <1>4, NamesLeave
<1>5. CASE \E c \in conf.cpus, next \in Tids \cup {None} : KernelSwitch(c, next)
  <2>1. conf.cpus \subseteq Cpus
    BY ConfsAssumption DEF TraceInv
  <2> QED BY <1>5, <2>1, NamesSwitch
<1>6. CASE \E c \in Cpus, next \in Tids \cup {None} : KernelExit(c, next)
  BY <1>6, NamesExit
<1>7. CASE \E c \in Cpus, child \in Tids : KernelFork(c, child)
  BY <1>7, NamesFork
<1>8. CASE \E c \in Cpus : KernelExec(c)
  BY <1>8, NamesExec
<1>9. CASE \E t \in Tids : KernelDumpProcess(t)
  BY <1>9, NamesDump
<1>10. CASE \E p \in Tids, fd \in Fds : KernelDumpFd(p, fd)
  BY <1>10, NamesDumpFd
<1> QED BY <1>1, <1>2, <1>3, <1>4, <1>5, <1>6, <1>7, <1>8, <1>9, <1>10 DEF TraceNext

\* The descriptors that the automaton has of a process without threads, in no
\* call that took effect, are all open, and are named after their file or
\* "unknown", if the process missed none (io.py:98-216, sched.py:176-228,
\* statedump.py:52-130).
THEOREM IoNames ==
    ASSUME NoneIsNoRecord, ContextOfLeaders
    PROVE  TraceSpec => []NamesAreRight
<1>1. TraceInit => TraceInv /\ NamesInv
  BY TraceStarts, NamesStart
<1>2. TraceInv /\ NamesInv /\ [TraceNext]_traceVars => TraceInv' /\ NamesInv'
  BY TraceSteps, NamesSteps
<1>3. TraceInv /\ NamesInv => NamesAreRight
  <2> SUFFICES ASSUME TraceInv, NamesInv, NEW p \in (alive \cap DOMAIN procs) \ missed,
                      Lone(p), calls[p] # None => calls[p].ret = None
               PROVE  \A fd \in DOMAIN procs[p].fds :
                         /\ fd \in DOMAIN files[p]
                         /\ procs[p].fds[fd].name \in {Unknown, files[p][fd].name}
    BY DEF NamesAreRight
  <2>1. p \in Tids /\ ~Returned(calls[p]) /\ FdsOf(procs, p) = procs[p].fds
    BY DEF TraceInv, CpusInv, Returned, Seen, FdsOf
  <2>2. NamesOK(procs[p].fds, files[p])
    BY <2>1 DEF NamesInv, RightAt, Right
  <2> QED BY <2>2 DEF NamesOK
<1> QED BY <1>1, <1>2, <1>3, PTL DEF TraceSpec
=============================================================================

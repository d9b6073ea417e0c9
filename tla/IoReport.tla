------------------------------ MODULE IoReport ------------------------------
(***************************************************************************)
(* The reports of lttng-iousagetop, -iolog, -iolatencytop, -iolatencystats *)
(* and -iolatencyfreq (cli/io.py), from what core/io.py accumulates in a   *)
(* period.                                                                 *)
(*                                                                         *)
(* An event is an fd that opens, [kind |-> "open", tid, fd, name, generic, *)
(* type, ts], or closes, [kind |-> "close", tid, fd, ts]; a request that   *)
(* ends, [kind |-> "rq", op, tid, lead, fd, in, out, ok, size, begin,      *)
(* end], size being the returned one, the requested one is lost (sv.py:    *)
(* 228); a block request, [kind |-> "block", op, disk, tid, sectors, size, *)
(* begin, end]; a packet, [kind |-> "sent" or "received", iface, bytes].   *)
(***************************************************************************)
EXTENDS Frequencies

IoOf == [read |-> 0, write |-> 0]

NewProc(pid) ==
    [pid |-> pid, disk |-> IoOf, net |-> IoOf, unknown |-> IoOf, block |-> IoOf,
     fds |-> [fd \in {} |-> << >>], rqs |-> << >>]

NewFd(e) ==
    [name |-> e.name, generic |-> e.generic, type |-> e.type, open |-> e.ts,
     close |-> None, io |-> IoOf]

\* get_fd() without a date: the last FDStats of the number, if it is open.
CurrentFd(procs, tid, fd) ==
    IF fd \notin DOMAIN procs[tid].fds THEN None
    ELSE IF Last(procs[tid].fds[fd]).close # None THEN None
    ELSE Last(procs[tid].fds[fd])

SetFd(procs, tid, fd, stats) ==
    [procs EXCEPT ![tid].fds[fd] = [@ EXCEPT ![Len(@)] = stats]]

\* _process_create_fd()
WithOpen(data, e) ==
    [data EXCEPT !.tids = With(@, e.tid, NewProc(e.tid), LAMBDA p :
        [p EXCEPT !.fds = With(@, e.fd, << >>, LAMBDA l : Append(l, NewFd(e)))])]

\* _process_close_fd()
WithClose(data, e) ==
    IF e.tid \notin DOMAIN data.tids \/ CurrentFd(data.tids, e.tid, e.fd) = None
      THEN data
      ELSE [data EXCEPT !.tids = SetFd(@, e.tid, e.fd,
              [CurrentFd(@, e.tid, e.fd) EXCEPT !.close = e.ts])]

Moves == {"read", "write", "read_write"}

\* is_equivalent_operation()
IsOperation(rq, op) ==
    rq.op = op \/ (op \in {"read", "write"} /\ rq.op = "read_write")

KindOf(fd) ==
    CASE fd.type = "disk" -> "disk" [] fd.type \in {"net", "maybe_net"} -> "net"
      [] OTHER -> "unknown"

\* The bytes of a request count for the kinds of its descriptors.
Moved(p, rq, from, to) ==
    LET read == IF IsOperation(rq, "read")
                  THEN [p EXCEPT ![KindOf(from)].read = @ + rq.size] ELSE p
    IN IF IsOperation(rq, "write")
         THEN [read EXCEPT ![KindOf(to)].write = @ + rq.size] ELSE read

\* _process_io_rq_exit(): a successful request of a descriptor without
\* statistics is dropped; a request of two counts for the thread only.
WithRequest(data, rq) ==
    LET same(p) == p
        tids == With(With(data.tids, rq.tid, NewProc(rq.lead), same),
                     rq.lead, NewProc(rq.lead), same)
        Fd(fd) == CurrentFd(tids, rq.lead, fd)
        from == IF rq.op = "read_write" THEN rq.in ELSE rq.fd
        to   == IF rq.op = "read_write" THEN rq.out ELSE rq.fd
        logged == [tids EXCEPT ![rq.tid].rqs = Append(@, rq)]
        moved == [logged EXCEPT ![rq.tid] = Moved(@, rq, Fd(from), Fd(to))]
    IN [data EXCEPT !.tids =
          IF ~rq.ok \/ rq.op \notin Moves THEN logged
          ELSE IF Fd(from) = None \/ Fd(to) = None THEN tids
          ELSE IF rq.op = "read_write" THEN moved
          ELSE SetFd(moved, rq.lead, rq.fd,
                     [CurrentFd(moved, rq.lead, rq.fd) EXCEPT !.io[rq.op] = @ + rq.size])]

\* _process_block_rq_complete()
WithBlock(data, rq) ==
    [data EXCEPT
       !.disks = With(@, rq.disk, << >>, LAMBDA l : Append(l, rq)),
       !.tids  = IF rq.tid = None THEN @
                 ELSE With(@, rq.tid, NewProc(rq.lead), LAMBDA p :
                        [p EXCEPT !.block[rq.op] = @ + rq.size])]

\* _process_net_dev_xmit(), _process_netif_receive_skb()
WithPacket(data, e) ==
    [data EXCEPT !.ifaces = With(@, e.iface, [sent |-> 0, received |-> 0],
        LAMBDA i : [i EXCEPT ![e.kind] = @ + e.bytes])]

WithIoEvent(data, e) ==
    CASE e.kind = "open"  -> WithOpen(data, e)
      [] e.kind = "close" -> WithClose(data, e)
      [] e.kind = "rq"    -> WithRequest(data, e)
      [] e.kind = "block" -> WithBlock(data, e)
      [] e.kind \in {"sent", "received"} -> WithPacket(data, e)

IoData(begin, end, comm, events) ==
    LET none == [x \in {} |-> None]
    IN FoldLeft(WithIoEvent,
          [begin |-> begin, end |-> end, comm |-> comm,
           tids |-> none, disks |-> none, ifaces |-> none], events)

-----------------------------------------------------------------------------
(* Filters.  args.from and args.to are the dates of the command.           *)

InLimits(n, min, max) == ~(max # None /\ n > max) /\ ~(min # None /\ n < min)
Duration(rq) == rq.end - rq.begin

\* _filter_io_request(): one that began after the end is left out, if both
\* dates are known.
Filtered(args, rqs) == SelectSeq(rqs, LAMBDA rq :
    /\ rq.size # None => InLimits(rq.size, args.minsize, args.maxsize)
    /\ InLimits(Duration(rq), args.min, args.max)
    /\ ~(args.from # None /\ args.to # None /\ rq.begin > args.to))

OutOfRange(args, rq) ==
    (args.from # None /\ rq.begin < args.from) \/ (args.to # None /\ rq.end > args.to)

\* The values of a dictionary.
Keys(dict) == SetToSeq(DOMAIN dict)

IoRequests(data) ==
    LET tids == Keys(data.tids)
    IN FlattenSeq([i \in DOMAIN tids |-> data.tids[tids[i]].rqs])

Operations == <<"open", "read", "write", "sync">>
Requests(data, args, op) ==
    Filtered(args, SelectSeq(IoRequests(data), LAMBDA rq : IsOperation(rq, op)))

-----------------------------------------------------------------------------
(* Usage.                                                                  *)

\* The rows that are wanted, with the greatest key first, until there are
\* enough of them: a limit of 0 is one of 1.
UsageTop(rows, Key(_), Keeps(_), limit) ==
    Take(SelectSeq(Descending(rows, Key), Keeps), Max({limit, 1}))

\* The size of a file: all descriptors of a name, with the process if the
\* name is generic.
FileKey(data, tid, fd) ==
    IF fd.generic THEN <<fd.name, data.comm[tid]>> ELSE <<fd.name, None>>

\* get_files_stats()
Files(data, dir) ==
    LET ends == UNION {{t} \X DOMAIN data.tids[t].fds : t \in DOMAIN data.tids}
        lists == [e \in ends |-> data.tids[e[1]].fds[e[2]]]
        paths == UNION {{FileKey(data, e[1], lists[e][i]) : i \in DOMAIN lists[e]} : e \in ends}
        Size(e, path) == Total(lists[e], LAMBDA fd :
            IF FileKey(data, e[1], fd) = path THEN fd.io[dir] ELSE 0)
        Owns(e, path) == \E i \in DOMAIN lists[e] : FileKey(data, e[1], lists[e][i]) = path
    IN [path \in paths |->
          [path |-> path, owners |-> {e[1] : e \in {x \in ends : Owns(x, path)}},
           size |-> FoldFunctionOnSet(+, 0, [e \in ends |-> Size(e, path)], ends)]]

ValuesOf(dict) == [i \in DOMAIN Keys(dict) |-> dict[Keys(dict)[i]]]

\* The rows that the usage tables choose from.
ProcRows(data, dir) ==
    LET tids == Keys(data.tids)
    IN [i \in DOMAIN tids |->
          LET p == data.tids[tids[i]]
          IN [tid |-> tids[i], pid |-> p.pid, disk |-> p.disk[dir], net |-> p.net[dir],
              unknown |-> p.unknown[dir], block |-> p.block[dir],
              size |-> p.disk[dir] + p.net[dir] + p.unknown[dir]]]
DiskRows(data) ==
    LET disks == Keys(data.disks)
    IN [i \in DOMAIN disks |->
          LET l == data.disks[disks[i]]
          IN [disk |-> disks[i], count |-> Len(l), sectors |-> Total(l, LAMBDA rq : rq.sectors),
              duration |-> Total(l, Duration)]]
IfaceRows(data) ==
    LET ifaces == Keys(data.ifaces)
    IN [i \in DOMAIN ifaces |-> [netif |-> ifaces[i]] @@ data.ifaces[ifaces[i]]]

\* _get_usage_result_tables(): the disks of the last table but two, with the
\* average durations of their requests, are in no order.
UsageTables(data, args) ==
    LET T(class, rows, Key(_), Keeps(_)) ==
            Table(class, data.begin, data.end, UsageTop(rows, Key, Keeps, args.limit))
        size(r)  == r.size
        block(r) == r.block
        any(r)   == TRUE
    IN << T("process-read", ProcRows(data, "read"), size, any),
          T("process-written", ProcRows(data, "write"), size, any),
          T("file-read", ValuesOf(Files(data, "read")), size, LAMBDA r : r.size # 0),
          T("file-written", ValuesOf(Files(data, "write")), size, LAMBDA r : r.size # 0),
          T("block-read", ProcRows(data, "read"), block, LAMBDA r : r.block # 0),
          T("block-written", ProcRows(data, "write"), block, LAMBDA r : r.block # 0),
          T("disk-sectors", DiskRows(data), LAMBDA r : r.sectors, LAMBDA r : r.sectors # 0),
          T("disk-requests", DiskRows(data), LAMBDA r : r.count, LAMBDA r : r.count # 0),
          T("disk-rtps", DiskRows(data), LAMBDA r : 0, LAMBDA r : r.count # 0),
          T("netif-received", IfaceRows(data), LAMBDA r : r.received, any),
          T("netif-sent", IfaceRows(data), LAMBDA r : r.sent, any) >>

-----------------------------------------------------------------------------
(* Log and top.                                                            *)

\* _get_fd_by_timestamp(): a binary search, which ends at a descriptor that
\* is open but was not yet.
FdByTimestamp(list, ts) ==
    LET find[lo \in 1 .. Len(list) + 1, hi \in 0 .. Len(list)] ==
            LET mid == lo + (hi - lo + 1) \div 2
                fd  == list[mid]
            IN IF hi < lo THEN None
               ELSE IF fd.close = None THEN IF ts >= fd.open THEN fd ELSE None
               ELSE IF ts \in fd.open .. fd.close THEN fd
               ELSE IF ts < fd.open THEN find[lo, mid - 1]
               ELSE find[mid + 1, hi]
    IN find[1, Len(list)]

FdList(data, rq) ==
    LET p    == data.tids[rq.tid]
        fds  == IF p.pid = None THEN p.fds ELSE data.tids[p.pid].fds
    IN IF rq.fd # None /\ rq.fd \in DOMAIN fds THEN fds[rq.fd] ELSE << >>

\* _append_log_row()
IoLogRow(data, args, rq) ==
    LET fd == FdByTimestamp(FdList(data, rq), rq.end)
    IN [rq |-> rq, out |-> OutOfRange(args, rq),
        path |-> IF fd = None THEN None ELSE fd.name]
IoLogRows(data, args, rqs) == [i \in DOMAIN rqs |-> IoLogRow(data, args, rqs[i])]

IoLog(data, args) ==
    IoLogRows(data, args, Ascending(Filtered(args, IoRequests(data)), LAMBDA rq : rq.begin))

\* The row count is compared with the limit before it is incremented.
IoTop(data, args, op) ==
    IoLogRows(data, args,
        Take(Descending(Requests(data, args, op), Duration), args.limit + 1))

-----------------------------------------------------------------------------
(* Statistics and distributions.                                           *)

IoDurations(rqs) == [i \in DOMAIN rqs |-> Duration(rqs[i])]

IoStatsRow(obj, rqs) ==
    LET range == RangeOf(IoDurations(rqs))
    IN [obj |-> obj, count |-> Len(rqs), min |-> OrZero(range.min),
        max |-> OrZero(range.max), total |-> Total(rqs, Duration), stdev |-> Len(rqs) >= 2]

\* One row per operation, even without a request; per disk, of those that it
\* had, even if all of them are filtered.
SyscallStats(data, args) ==
    [i \in DOMAIN Operations |->
        IoStatsRow(Operations[i], Requests(data, args, Operations[i]))]
DiskStats(data, args) ==
    LET disks == SelectSeq(Keys(data.disks), LAMBDA d : data.disks[d] # << >>)
    IN [i \in DOMAIN disks |-> IoStatsRow(disks[i], Filtered(args, data.disks[disks[i]]))]

\* _fill_freq_result_table(): always the range of the durations.
OwnFreqRows(list, n) ==
    IF list = << >> THEN << >> ELSE FreqRows(list, RangeOf(list), n)

IoFreq(data, args) ==
    LET disks == Keys(data.disks)
        T(rqs) == Table("freq", data.begin, data.end,
                        OwnFreqRows(IoDurations(rqs), args.resolution))
    IN [i \in DOMAIN Operations |-> T(Requests(data, args, Operations[i]))]
       \o [i \in DOMAIN disks |-> T(Filtered(args, data.disks[disks[i]]))]

\* _analysis_tick()
IoTick(data, args) ==
    LET T(class, rows) == Table(class, data.begin, data.end, rows)
    IN (IF args.log THEN << T("log", IoLog(data, args)) >> ELSE << >>)
       \o (IF args.stats
             THEN << T("syscall-stats", SyscallStats(data, args)),
                     T("disk-stats", DiskStats(data, args)) >> ELSE << >>)
       \o (IF args.top
             THEN [i \in DOMAIN Operations |-> T("top-" \o Operations[i],
                                                 IoTop(data, args, Operations[i]))]
             ELSE << >>)
       \o (IF args.usage THEN UsageTables(data, args) ELSE << >>)
       \o (IF args.freq THEN IoFreq(data, args) ELSE << >>)
=============================================================================

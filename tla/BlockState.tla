----------------------------- MODULE BlockState -----------------------------
(***************************************************************************)
(* Block requests (linuxautomaton/block.py): the provider follows a bio    *)
(* through the remappings of the device layers, so that a request is       *)
(* charged to the device it was submitted to, and pairs the issue and the  *)
(* completion of a request.  core/io.py:289-301 receives the completions.  *)
(*                                                                         *)
(* The kernel is the environment.  A bio is submitted to a place, a sector *)
(* of a device; each layer remaps it to its place on the device below; at  *)
(* the bottom it may be merged at the back or the front of a request, then *)
(* requests are issued and completed in any order.  In a lossless trace    *)
(* all of this is recorded, but the provider handles no merge at the front *)
(* of a request, nor of two requests (block.py:30-35); otherwise any event *)
(* can come next and the kernel's side is left alone.  The operation and   *)
(* the thread of a request are left out: nothing here depends on them.     *)
(***************************************************************************)
EXTENDS Integers, Sequences, SequencesExt

CONSTANTS Devs, Sectors,
          None,
          Layout,         \* the place below each place, None at the bottom
          Traces,         \* is the trace lossless?  bounds: its places, its events
          MaxSize         \* bound: sectors of a request

Places == [dev : Devs, sector : Sectors]

\* No device lies on itself: above orders the devices of the layers.
Orders(above) ==
    /\ \A d, e, f \in Devs : <<d, e>> \in above /\ <<e, f>> \in above => <<d, f>> \in above
    /\ \A d \in Devs : <<d, d>> \notin above
    /\ \A p \in Places : Layout[p] # None => <<p.dev, Layout[p].dev>> \in above

\* All of a device is at last on one disk: none is striped over several.
Carries(disk) ==
    \A p \in Places :
      disk[p.dev] = IF Layout[p] = None THEN p.dev ELSE disk[Layout[p].dev]
OneDisk == \E disk \in [Devs -> Devs] : Carries(disk)

ASSUME BlockAssumption ==
    /\ Sectors \subseteq Nat
    /\ None \notin Devs \cup Nat \cup Places
    /\ None \notin [disk : Devs, begin : Nat, size : Nat]
    /\ None \notin [disk : Devs, begin : Nat, size : Nat, at : Places]
    /\ Layout \in [Places -> Places \cup {None}]
    /\ \E above \in SUBSET (Devs \X Devs) : Orders(above)
    /\ Traces \subseteq [lossless : BOOLEAN, places : SUBSET Places, events : Nat]
    /\ MaxSize \in Nat

VARIABLES trace,          \* the kind of trace
          now,            \* number, and timestamp, of the last event
          remaps,         \* _remap_requests: where a bio is and comes from
          pending,        \* pending_requests of the disks, by <<disk, sector>>
          report,         \* the completion notified by the last event
          reported,       \* history: the requests notified so far
          queued,         \* kernel: the bios submitted and not issued
          issued,         \* kernel: the requests issued and not completed
          truth,          \* kernel: the request completed by the last event
          strays          \* history: where a merge has left a remapping behind

stateVars  == <<remaps, pending, report, reported>>
kernelVars == <<queued, issued, truth, strays>>
blockVars  == <<trace, now, stateVars, kernelVars>>

Matches(place) == SelectInSeq(remaps, LAMBDA r : r.at = place)

\* Mutant: the remappings are ignored.
BottomOf(place)   == place.dev

\* The disk that a request at this place is charged to.
DiskOf(place) == IF Matches(place) = 0 THEN place.dev
                 ELSE remaps[Matches(place)].old.dev

Put(f, k, v) == [x \in DOMAIN f \cup {k} |-> IF x = k THEN v ELSE f[x]]

\* Mutant: the request stays pending.
StillPending(f, k) == f

Without(f, k) == [x \in DOMAIN f \ {k} |-> f[x]]

-----------------------------------------------------------------------------
BlockInit ==
    /\ trace \in Traces
    /\ now = 0
    /\ remaps = << >>
    /\ pending = [k \in {} |-> None]
    /\ report = None
    /\ reported = {}
    /\ queued = {}
    /\ issued = {}
    /\ truth = None
    /\ strays = {}

Tick == now < trace.events /\ now' = now + 1 /\ UNCHANGED trace

NoReport == report' = None /\ UNCHANGED reported

\* _process_block_bio_remap(): the bio goes down one more layer, or enters.
TraceRemap(old, new) ==
    LET i == Matches(old) IN
    /\ remaps' = IF i # 0 THEN [remaps EXCEPT ![i].at = new]
                          ELSE Append(remaps, [at |-> new, old |-> old])
    /\ NoReport
    /\ UNCHANGED pending

\* Mutant: the remapping of a merged bio stays.
MergedToo(place) == remaps

\* Removing an element of the list that the loop walks hides the next one: of
\* neighbours at this place, every other one is removed.
Merged(place) ==
    {i \in DOMAIN remaps :
       \E j \in 1 .. i : /\ (i - j) % 2 = 0
                         /\ \A k \in j .. i : remaps[k].at = place
                         /\ j = 1 \/ remaps[j - 1].at # place}

\* The n-th of these indexes.
Nth(kept, n) == CHOOSE i \in kept : Cardinality({k \in kept : k <= i}) = n

Unmerged(place) ==
    LET kept == DOMAIN remaps \ Merged(place)
    IN [n \in 1 .. Cardinality(kept) |-> remaps[Nth(kept, n)]]

\* _process_block_bio_backmerge()
TraceBackmerge(place) ==
    /\ remaps' = Unmerged(place)
    /\ NoReport
    /\ UNCHANGED pending

\* _process_block_rq_issue(): the remapping is kept for the completion.
TraceIssue(place, size) ==
    /\ pending' = IF size = 0 THEN pending
                  ELSE Put(pending, <<DiskOf(place), place.sector>>,
                           [begin |-> now', size |-> size])
    /\ NoReport
    /\ UNCHANGED remaps

\* _process_block_rq_complete(): the remapping is used up, then the pending
\* request of this sector is notified if it has the same size.
TraceComplete(place, size) ==
    LET key == <<DiskOf(place), place.sector>>
    IN /\ remaps' = IF size = 0 \/ Matches(place) = 0 THEN remaps
                    ELSE RemoveAt(remaps, Matches(place))
       /\ IF size # 0 /\ key \in DOMAIN pending
             THEN IF pending[key].size = size
               THEN /\ report' = [disk  |-> key[1], begin |-> pending[key].begin,
                                  size  |-> size]
                    /\ reported' = reported \cup {pending[key].begin}
                    /\ pending' = Without(pending, key)
               ELSE NoReport /\ UNCHANGED pending
             ELSE NoReport /\ UNCHANGED pending

-----------------------------------------------------------------------------
\* The places covered by a bio or a request.
Covers(b) == {[dev |-> b.at.dev, sector |-> s] :
                s \in b.at.sector .. b.at.sector + b.size - 1}
InFlight == UNION {Covers(b) : b \in queued \cup issued}

\* A bio is submitted, without an event.  Assumption: the file system has at
\* most one bio in flight for a sector.
KernelSubmit(place) ==
    /\ trace.lossless
    /\ place \notin InFlight
    /\ queued' = queued \cup {[top |-> place, at |-> place, size |-> 1]}
    /\ UNCHANGED <<trace, now, stateVars, issued, truth, strays>>

KernelRemap(old, new) ==
    /\ Layout[old] = new
    /\ new \notin InFlight
    /\ \E b \in queued :
         /\ b.at = old
         /\ queued' = (queued \ {b}) \cup {[b EXCEPT !.at = new]}
    /\ truth' = None
    /\ UNCHANGED <<issued, strays>>

\* The bio or request at this place becomes the end of the one before it.
KernelJoin(place) ==
    /\ Layout[place] = None
    /\ \E b, r \in queued :
         /\ b.at = place
         /\ r.at.dev = place.dev
         /\ r.at.sector + r.size = place.sector
         /\ r.size + b.size <= MaxSize
         /\ queued' = (queued \ {b, r})
                      \cup {[r EXCEPT !.size = @ + b.size]}

KernelBackmerge(place) ==
    /\ KernelJoin(place)
    /\ truth' = None
    /\ UNCHANGED <<issued, strays>>

\* A bio is merged at the front of the request at this place, or the request
\* into the one before it.  The provider handles no event of it: if the request
\* at this place has a remapping, it stays.
KernelFrontmerge(place) ==
    /\ trace.lossless
    /\ KernelJoin(place)
    /\ \E b \in queued :
         /\ b.at = place
         /\ strays' = IF b.top = place THEN strays ELSE strays \cup {place}
    /\ UNCHANGED <<trace, now, stateVars, issued, truth>>

KernelIssue(place, size) ==
    /\ Layout[place] = None
    /\ \E b \in queued :
         /\ b.at = place
         /\ b.size = size
         /\ queued' = queued \ {b}
         /\ issued' = issued \cup {[top |-> b.top, at |-> place, size |-> size,
                                    begin |-> now']}
    /\ truth' = None
    /\ UNCHANGED strays

KernelComplete(place, size) ==
    /\ \E r \in issued :
         /\ r.at = place
         /\ r.size = size
         /\ issued' = issued \ {r}
         /\ truth' = [disk |-> r.top.dev, begin |-> r.begin, size |-> size,
                      at |-> place]
    /\ UNCHANGED <<queued, strays>>

Remap(old, new) ==
    /\ Tick
    /\ old # new
    /\ TraceRemap(old, new)
    /\ IF trace.lossless THEN KernelRemap(old, new) ELSE UNCHANGED kernelVars

Backmerge(place) ==
    /\ Tick
    /\ TraceBackmerge(place)
    /\ IF trace.lossless THEN KernelBackmerge(place) ELSE UNCHANGED kernelVars

Issue(place, size) ==
    /\ Tick
    /\ TraceIssue(place, size)
    /\ IF trace.lossless THEN KernelIssue(place, size) ELSE UNCHANGED kernelVars

Complete(place, size) ==
    /\ Tick
    /\ TraceComplete(place, size)
    /\ IF trace.lossless THEN KernelComplete(place, size) ELSE UNCHANGED kernelVars

BlockNext ==
    \/ \E place \in trace.places :
         \/ KernelSubmit(place)
         \/ KernelFrontmerge(place)
         \/ Backmerge(place)
         \/ \E new \in trace.places : Remap(place, new)
         \/ \E size \in 0 .. MaxSize : Issue(place, size)
         \/ \E size \in 0 .. MaxSize : Complete(place, size)

BlockSpec == BlockInit /\ [][BlockNext]_blockVars

-----------------------------------------------------------------------------
\* Whatever events are missing, a request is in one place only and is not
\* notified twice.
RequestsAreDistinct ==
    /\ \A j, k \in DOMAIN pending : pending[j].begin = pending[k].begin => j = k
    /\ \A k \in DOMAIN pending : pending[k].begin \notin reported

\* With a complete trace each completion notifies the request that completed,
\* with its own issue date, and charges it to the device that it was
\* submitted to, through every layer of remapping, unless a merge which the
\* provider does not handle has left a remapping at its place.
ReportIsExact ==
    trace.lossless =>
        /\ report = None <=> truth = None
        /\ report # None =>
             /\ report.begin = truth.begin
             /\ report.size = truth.size
             /\ truth.at \notin strays => report.disk = truth.disk

\* With a complete trace the list of remappings holds, once each, those of the
\* bios in flight and no other, but where a merge which the provider does not
\* handle has left one.
RemapsAreLive ==
    trace.lossless =>
        /\ {r \in ToSet(remaps) : r.at \notin strays}
             = {[at |-> b.at, old |-> b.top] :
                  b \in {q \in queued \cup issued : q.at \notin strays \cup {q.top}}}
        /\ \A i, j \in DOMAIN remaps :
             remaps[i].at = remaps[j].at /\ remaps[i].at \notin strays => i = j
=============================================================================

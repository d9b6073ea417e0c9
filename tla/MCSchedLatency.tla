--------------------------- MODULE MCSchedLatency ---------------------------
(* Two CPUs, the swapper and two threads, one priority; complete traces    *)
(* without filters, incomplete ones with all the filters.                  *)
EXTENDS SchedLatency, TLC

CONSTANTS swapper, t1, t2, c1, c2

MCTids   == {swapper, t1, t2}
MCCpus   == {c1, c2}
OnePrio  == {20}
MCVersions == {"fixed", None}

Complete == [cpus |-> MCCpus, tids |-> MCTids, min |-> None, max |-> None,
             lossless |-> TRUE, maxLog |-> 1]
Filtered(c) == [cpus |-> {c}, tids |-> MCTids \ {swapper}, min |-> 0, max |-> 1,
                lossless |-> FALSE, maxLog |-> 2]
Short(c) == [Filtered(c) EXCEPT !.max = 0, !.maxLog = 1]
MCConfs  == {Complete} \cup UNION {{Filtered(c), Short(c)} : c \in MCCpus}

Symmetry == Permutations({t1, t2}) \cup Permutations({c1, c2})
=============================================================================

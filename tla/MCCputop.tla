------------------------------ MODULE MCCputop ------------------------------
(* Two CPUs, the swapper and two threads; complete traces with and without *)
(* filters, incomplete ones with a thread filter.                          *)
EXTENDS Cputop, TLC

CONSTANTS swapper, t1, t2, c1, c2

MCTids   == {swapper, t1, t2}
MCCpus   == {c1, c2}
Complete == [cpus |-> MCCpus, tids |-> MCTids, end |-> 1, lossless |-> TRUE]
MCConfs  == {Complete}
    \cup {[Complete EXCEPT !.cpus = {c}, !.tids = {t}, !.end = None] :
             c \in MCCpus, t \in {t1, t2}}
    \cup {[Complete EXCEPT !.tids = {t}, !.lossless = FALSE] : t \in {t1, t2}}
Symmetry == Permutations({t1, t2}) \cup Permutations({c1, c2})
=============================================================================

----------------------------- MODULE MCIrqState -----------------------------
(* One CPU with two hard interrupts and two softirqs: the CPUs share       *)
(* nothing.  Complete and incomplete traces, and a complete trace which    *)
(* begins inside of a handler.                                             *)
EXTENDS IrqState, TLC

CONSTANTS c1, i1, i2, v1, v2

OneCpu  == {c1}
TwoIrqs == {i1, i2}
TwoVecs == {v1, v2}

Complete   == [cpus |-> {c1}, min |-> None, max |-> None, lossless |-> TRUE,
               idle |-> TRUE]
Incomplete == [Complete EXCEPT !.min = 1, !.max = 1, !.lossless = FALSE]
MidHandler == [Complete EXCEPT !.idle = FALSE]

MCConfs    == {Complete, Incomplete}
MidConfs   == {MidHandler}
Symmetry   == Permutations({i1, i2}) \cup Permutations({v1, v2})
=============================================================================

---------------------------- MODULE Frequencies -----------------------------
(***************************************************************************)
(* Frequency distributions: how the reports count durations in the         *)
(* buckets of a histogram (cli/sched.py:555-615, cli/irq.py:270-326,       *)
(* cli/io.py:761-797, cli/periods.py:1488-1619), and the bounds that are   *)
(* shared between histograms with --freq-uniform (cli/command.py:393-431). *)
(*                                                                         *)
(* Durations are in ns, the program divides them by 1000: bounds are here  *)
(* in ns too, so that a bound the program does not divide is multiplied.   *)
(***************************************************************************)
EXTENDS MiTables

CONSTANT NsPerUs

\* [min, max] of durations; None if there are none.
NoRange == [min |-> None, max |-> None]
RangeOf(list) ==
    IF list = << >> THEN NoRange
    ELSE [min |-> Min(ToSet(list)), max |-> Max(ToSet(list))]
OrZero(n) == IF n = None THEN 0 ELSE n

\* int(): a quotient, truncated.
Absolute(n) == IF n < 0 THEN -n ELSE n
Quotient(a, b) ==
    IF (a < 0) = (b < 0) THEN Absolute(a) \div Absolute(b)
                         ELSE -(Absolute(a) \div Absolute(b))

\* The index of a duration in `n` buckets.
Index(d, range, n) == Quotient((d - range.min) * n, range.max - range.min)

\* Mutant: a duration equal to the upper bound is not counted.
BucketOpen(d, range, n) ==
    LET i == Index(d, range, n)
    IN IF i >= n THEN None ELSE IF i < 0 THEN i + n ELSE i

\* The bucket that a duration is counted in, if any: the last one has its
\* upper bound, and a negative index counts from the end.
Bucket(d, range, n) ==
    LET i == Index(d, range, n)
    IN IF i >= n THEN IF d = range.max THEN i - 1 ELSE None
       ELSE IF i < 0 THEN i + n ELSE i

\* No rows if the step is 0.  `lower` is in n-ths of the unit.
FreqRows(list, range, n) ==
    IF range.min = range.max THEN << >>
    ELSE [k \in 1 .. n |->
            [lower |-> range.min * n + (k - 1) * (range.max - range.min),
             count |-> Len(SelectSeq(list, LAMBDA d : Bucket(d, range, n) = k - 1))]]

\* IndexError: a negative index beyond the first bucket.
FreqRaises(list, range, n) ==
    /\ range.min # range.max
    /\ \E i \in DOMAIN list : Index(list[i], range, n) < -n

\* --min and --max, in ns, or the range of the durations.
OwnRange(args, range) ==
    [min |-> IF args.min # None THEN args.min ELSE OrZero(range.min),
     max |-> IF args.max # None THEN args.max ELSE OrZero(range.max)]

\* Mutant: the shared bounds are those of the last durations.
UniformAfterLast(shared, args, list, ratio) ==
    LET range == RangeOf(list)
    IN [min |-> IF args.min # None THEN args.min * ratio ELSE OrZero(range.min),
        max |-> IF args.max # None THEN args.max * ratio ELSE OrZero(range.max)]

\* _find_uniform_freq_values(): the bounds so far, but 0 after an empty list;
\* the program takes --min and --max, in ns, for what it has divided.
UniformAfter(shared, args, list, ratio) ==
    LET range == RangeOf(list)
    IN [min |-> IF args.min # None THEN args.min * ratio
                ELSE IF list = << >> THEN 0
                ELSE IF shared.min = None \/ range.min < shared.min THEN range.min
                ELSE shared.min,
        max |-> IF args.max # None THEN args.max * ratio
                ELSE IF list = << >> THEN 0
                ELSE IF shared.max = None \/ range.max > shared.max THEN range.max
                ELSE shared.max]

\* _get_freq_series_table(): the rows of the first table, with the counts of
\* all of them.
Series(class, tables) ==
    IF tables = << >> THEN None
    ELSE Table(class, tables[1].begin, tables[1].end,
           [i \in DOMAIN tables[1].rows |->
              [lower  |-> tables[1].rows[i].lower,
               counts |-> [k \in DOMAIN tables |-> tables[k].rows[i].count]]])

\* IndexError: another table has fewer rows.
SeriesRaises(tables) ==
    \E k \in DOMAIN tables : Len(tables[k].rows) < Len(tables[1].rows)

\* With --freq-series, one table for all of them.
OrSeries(args, class, tables) ==
    IF args.series THEN <<Series(class, tables)>> ELSE tables

\* An item of a dictionary, which may be new, is updated.
With(dict, key, new, Update(_)) ==
    (key :> Update(IF key \in DOMAIN dict THEN dict[key] ELSE new)) @@ dict

\* --freq-series implies --freq-uniform (cli/command.py:672-675).
IsUniform(args) == args.uniform \/ args.series
=============================================================================

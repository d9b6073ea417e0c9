------------------------------ MODULE MiTables ------------------------------
(***************************************************************************)
(* Result tables (cli/mi.py, cli/command.py:136-196): a class, a time      *)
(* range and rows.  The store is a sequence, in the order of appending.    *)
(***************************************************************************)
EXTENDS Integers, Sequences, SequencesExt, FiniteSetsExt, Folds, TLC

CONSTANT None          \* None

\* mi.ResultTable
Table(class, begin, end, rows) ==
    [class |-> class, begin |-> begin, end |-> end, rows |-> rows]

\* Tables without rows are dropped.
AppendTable(tables, t) ==
    IF t = None THEN tables ELSE IF t.rows = << >> THEN tables
    ELSE Append(tables, t)

AppendTables(tables, ts) == FoldLeft(AppendTable, tables, ts)

ClearTables == << >>

TablesOf(tables, class) == SelectSeq(tables, LAMBDA t : t.class = class)

-----------------------------------------------------------------------------
(* What the reports share.                                                 *)

\* sorted(..., reverse=True): stable, greatest first.
Descending(seq, Key(_)) == SortSeq(seq, LAMBDA a, b : Key(a) > Key(b))
Ascending(seq, Key(_))  == SortSeq(seq, LAMBDA a, b : Key(a) < Key(b))

Take(seq, n) == SubSeq(seq, 1, IF n < Len(seq) THEN n ELSE Len(seq))

Total(seq, Val(_)) == FoldLeft(LAMBDA n, x : n + Val(x), 0, seq)

\* One row for each table of a class, whose class is "summary".
Summary(tables, class, Rows(_)) ==
    LET totals == TablesOf(tables, class)
    IN AppendTable(ClearTables,
          Table("summary", Head(totals).begin, Last(totals).end,
                FlattenSeq([i \in DOMAIN totals |-> Rows(totals[i])])))
=============================================================================

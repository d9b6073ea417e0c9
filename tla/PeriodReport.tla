---------------------------- MODULE PeriodReport ----------------------------
(***************************************************************************)
(* The reports of lttng-periodlog, -periodtop, -periodstats and -periodfreq *)
(* (cli/periods.py), made once, at the end, from the period events that    *)
(* core/periods.py kept.                                                   *)
(*                                                                         *)
(* data.periods are the completed ones in the order of their begin, each   *)
(* [name, begin, end, parent, captures], with its captures [field, value]; *)
(* parent is the index of the parent, 0 for none and -1 for one that was   *)
(* aborted.  Names and fields are numbers, in their order; data.order are  *)
(* the names in the order of the definitions.                              *)
(*                                                                         *)
(* The program adds what a period contains to its ancestors through links  *)
(* between them, which add it again to their own ancestors: how often it   *)
(* is counted is given here as a number of copies.                         *)
(***************************************************************************)
EXTENDS Frequencies

Events(data) == DOMAIN data.periods
Length(data, e) == data.periods[e].end - data.periods[e].begin
NameOf(data, e) == data.periods[e].name

\* _filter_duration(), in ns, whatever the number is.
Lasts(args, n) ==
    /\ args.minDuration # None => n >= args.minDuration
    /\ args.maxDuration # None => n <= args.maxDuration
Kept(data, args, seq) == SelectSeq(seq, LAMBDA e : Lasts(args, Length(data, e)))

AllEvents(data) == [e \in Events(data) |-> e]
Lengths(data, seq) == [i \in DOMAIN seq |-> Length(data, seq[i])]

\* In the order of their ends.
Children(data, e) ==
    Ascending(SelectSeq(AllEvents(data), LAMBDA c : data.periods[c].parent = e),
              LAMBDA c : data.periods[c].end)
KeptChildren(data, args, e) == Kept(data, args, Children(data, e))

Ancestors(data, e) ==
    LET above[x \in Events(data)] ==
            LET p == data.periods[x].parent
            IN IF p < 1 THEN << >> ELSE <<p>> \o above[p]
    IN above[e]

\* _hierarchical_sub(): from a root, each period before its children, or after
\* them.
Walk(data, args, e, after) ==
    LET walk[x \in Events(data)] ==
            LET kids == KeptChildren(data, args, x)
                subs == FlattenSeq([i \in DOMAIN kids |-> walk[kids[i]]])
            IN IF after THEN Append(subs, x) ELSE <<x>> \o subs
    IN walk[e]

Hierarchy(data, args, after) ==
    LET roots == Kept(data, args, SelectSeq(AllEvents(data), LAMBDA e : data.periods[e].parent = 0))
    IN FlattenSeq([i \in DOMAIN roots |-> Walk(data, args, roots[i], after)])

-----------------------------------------------------------------------------
(* Groups: the values of the captured fields of --group-by.                *)

\* filtered_captures()
Captured(data, args, e) ==
    SelectSeq(data.periods[e].captures, LAMBDA c :
        /\ NameOf(data, e) \in DOMAIN args.groupBy
        /\ c.field \in args.groupBy[NameOf(data, e)])

GroupKey(captures) == Ascending(captures, LAMBDA c : c.field)

\* The captures of a period, with those along each way down its children.
LocalCaptures(data, args, e) ==
    LET ways[x \in Events(data)] ==
            LET own  == Captured(data, args, x)
                kids == ToSet(KeptChildren(data, args, x))
            IN IF kids = {} THEN {own}
               ELSE {own \o c : c \in UNION {ways[k] : k \in kids}}
    IN ways[e]

AncestorsCaptures(data, args, e) ==
    LET above == Reverse(Ancestors(data, e))
    IN FlattenSeq([i \in DOMAIN above |-> Captured(data, args, above[i])])

GroupsOf(data, args, e) ==
    {GroupKey(own \o AncestorsCaptures(data, args, e)) : own \in
        {c \in LocalCaptures(data, args, e) :
            Len(c \o AncestorsCaptures(data, args, e)) >= Cardinality(DOMAIN args.groupBy)}}
      \ {<< >>}

Column(rows, field) == [i \in DOMAIN rows |-> rows[i][field]]

WithGroups(data, args, seq) ==
    [i \in DOMAIN seq |-> [event |-> seq[i], groups |-> GroupsOf(data, args, seq[i])]]

\* The periods of `seq`, each with its groups, that are in the group of a key.
InGroup(seq, key) ==
    [key |-> key, in |-> Column(SelectSeq(seq, LAMBDA x : key \in x.groups), "event")]

\* The keys, and for each the periods in its group, children first.
KeyedGroups(seq) ==
    SetToSeq({InGroup(seq, key) : key \in UNION {x.groups : x \in ToSet(seq)}})
PeriodGroups(data, args) ==
    KeyedGroups(WithGroups(data, args, Hierarchy(data, args, TRUE)))

-----------------------------------------------------------------------------
(* What a period contains.                                                 *)

Place(seq, x) == CHOOSE i \in DOMAIN seq : seq[i] = x
Within(data, nodes, p) == {e \in nodes : p \in ToSet(Ancestors(data, e))}

\* _TmpAggregation.add_child(), called for the parent, at distance 1: it calls
\* itself for all ancestors of the parent, each of which calls it for all of
\* its own.
Copies(distance) == IF distance <= 2 THEN 1 ELSE 2 ^ (distance - 2)

\* _account_parents_in_group(): called for every ancestor, of which only
\* those are linked that the same period has made known to the group.
FirstWithin(data, inGroup, p) ==
    SelectSeq(inGroup, LAMBDA e : p \in ToSet(Ancestors(data, e)))[1]
Linked(data, inGroup, p) ==
    FirstWithin(data, inGroup, p) = FirstWithin(data, inGroup, data.periods[p].parent)
GroupCopies(data, inGroup, above, distance) ==
    1 + SumSet({2 ^ (distance - i - 1) : i \in
           {i \in 1 .. distance - 1 :
              \A k \in i .. distance - 1 : Linked(data, inGroup, above[k])}})

\* How often a period is counted in its ancestor p: among all periods, if
\* inGroup is None, or in a group.
Times(data, inGroup, above, p) ==
    IF inGroup = None THEN Copies(Place(above, p))
                      ELSE GroupCopies(data, inGroup, above, Place(above, p))

\* What p contains of a name: the periods es.
Contained(data, inGroup, es, p) ==
    [in |-> p, length |-> Length(data, p),
     count    |-> MapThenSumSet(LAMBDA e : Times(data, inGroup, Ancestors(data, e), p), es),
     duration |-> MapThenSumSet(LAMBDA e : Times(data, inGroup, Ancestors(data, e), p)
                                             * Length(data, e), es)]

Named(option, name) == option = None \/ name \in option

\* _AggregatedPeriodStats.finish_period(), of all periods, for each pair of
\* names: the durations, counts and percentages of the periods that contain
\* some; `of` is the number of all periods of the name.
NamePairs(data, args, nodes, all) ==
    {x \in {<<NameOf(data, y[2]), NameOf(data, y[1])>> : y \in
               {z \in nodes \X all : z[2] \in ToSet(Ancestors(data, z[1]))}} :
        Named(args.aggregateBy, x[1]) /\ Named(args.select, x[2])}
Holders(data, inGroup, nodes, all, pair) ==
    {c \in {Contained(data, inGroup,
                     {e \in Within(data, nodes, p) : NameOf(data, e) = pair[2]}, p) :
                p \in {q \in all : NameOf(data, q) = pair[1]}} : c.count > 0}
PairOf(pair, of, cs) ==
    [parent |-> pair[1], name |-> pair[2], of |-> of,
     duration |-> Column(cs, "duration"), count |-> Column(cs, "count"),
     pc |-> [k \in DOMAIN cs |->
               IF cs[k].length = 0 THEN 0 ELSE (100 * cs[k].duration) \div cs[k].length]]

\* In the order of the names.
PairsIn(data, args, inGroup, nodes, all) ==
    SetToSortSeq({PairOf(x, Cardinality({p \in all : NameOf(data, p) = x[1]}),
                         SetToSeq(Holders(data, inGroup, nodes, all, x))) :
                     x \in NamePairs(data, args, nodes, all)},
                 LAMBDA a, b : a.parent < b.parent \/ (a.parent = b.parent /\ a.name < b.name))

\* Those of all periods, then those of each group.
Pairs(data, args, groups, all) ==
    <<PairsIn(data, args, None, all, all)>>
    \o [k \in DOMAIN groups |->
          PairsIn(data, args, groups[k].in, ToSet(groups[k].in), all)]

\* ZeroDivisionError: a period without duration that contains another.
NoDuration(data, args) ==
    \E e \in ToSet(Hierarchy(data, args, FALSE)) :
       \E p \in ToSet(Ancestors(data, e)) : Length(data, p) = 0

Kinds == <<"duration", "count", "pc">>

\* "Globally": a period that contains none counts as 0.
Padded(pair, kind) ==
    pair[kind] \o [i \in 1 .. pair.of - Len(pair[kind]) |-> 0]
ValuesIn(pair, kind, globally) == IF globally THEN Padded(pair, kind) ELSE pair[kind]

PairRow(pair, kind, globally) ==
    LET values == ValuesIn(pair, kind, globally)
    IN [parent |-> pair.parent, name |-> pair.name, count |-> Len(values),
        min |-> Min(ToSet(values)), max |-> Max(ToSet(values)),
        total |-> Total(values, LAMBDA v : v), stdev |-> Len(values) > 2]

\* _get_per_parent_stats_result_table()
ParentTables(data, pairs) ==
    LET T(kind, globally) ==
            Table((IF globally THEN "global-" ELSE "parent-") \o kind, data.begin, data.end,
                  [i \in DOMAIN pairs |-> PairRow(pairs[i], kind, globally)])
    IN [k \in DOMAIN Kinds |-> T(Kinds[k], FALSE)] \o [k \in DOMAIN Kinds |-> T(Kinds[k], TRUE)]

-----------------------------------------------------------------------------
(* Log, top and statistics of periods on their own.                        *)

\* By hierarchy or by time; a log aggregated by period is only printed.
PeriodLog(data, args) ==
    CASE args.orderBy = "hierarchy" -> Hierarchy(data, args, FALSE)
      [] args.orderBy # "hierarchy" /\ args.select # None -> << >>
      [] OTHER -> Kept(data, args, AllEvents(data))

\* A limit of 0 is none.
PeriodTop(data, args) ==
    LET rows == SelectSeq(Kept(data, args, Descending(AllEvents(data), LAMBDA e : Length(data, e))),
                          LAMBDA e : Named(args.select, NameOf(data, e)))
    IN IF args.limit > 0 THEN Take(rows, args.limit) ELSE rows

\* _get_period_lists_stats(): the durations by name.
OfName(data, args, name) ==
    Lengths(data, SelectSeq(Kept(data, args, AllEvents(data)), LAMBDA e : NameOf(data, e) = name))

NameRow(name, list) ==
    [name |-> name, count |-> Len(list), min |-> Min(ToSet(list)), max |-> Max(ToSet(list)),
     total |-> Total(list, LAMBDA d : d), stdev |-> Len(list) >= 2]

PeriodStatsRows(data, args) ==
    LET names == SelectSeq(data.order, LAMBDA n :
                     OfName(data, args, n) # << >> /\ Named(args.select, n))
    IN [i \in DOMAIN names |-> NameRow(names[i], OfName(data, args, names[i]))]

-----------------------------------------------------------------------------
(* Aggregated log: what is in each period of --aggregate-by.               *)

SubPeriods(data, e) ==
    LET below[x \in Events(data)] ==
            LET kids == Children(data, x)
            IN <<x>> \o FlattenSeq([i \in DOMAIN kids |-> below[kids[i]]])
    IN below[e]

\* Every one below a child has the captures of all of them: they share a list.
AggregatedItems(data, args, p) ==
    LET kids == KeptChildren(data, args, p)
        Items(k) ==
            LET all == SubPeriods(data, k)
                key == Captured(data, args, p) \o
                       FlattenSeq([i \in DOMAIN all |-> Captured(data, args, all[i])])
            IN [i \in DOMAIN all |-> [event |-> all[i], group |-> GroupKey(key)]]
    IN SelectSeq(FlattenSeq([i \in DOMAIN kids |-> Items(kids[i])]),
                 LAMBDA item : Named(args.select, NameOf(data, item.event)))

\* A table per group if there are groups; its rows by period and name.
AggregatedTables(data, args) ==
    LET ps == SelectSeq(Kept(data, args, AllEvents(data)),
                        LAMBDA p : NameOf(data, p) = args.aggregatedBy)
        keys == IF args.groupBy = << >> THEN << << >> >>
                ELSE SetToSeq(UNION {{item.group : item \in ToSet(AggregatedItems(data, args, p))} :
                                        p \in ToSet(ps)})
        Items(p, key) ==
            SelectSeq(AggregatedItems(data, args, p), LAMBDA item : args.groupBy = << >> \/ item.group = key)
        Row(p, name, items) ==
            LET of   == SelectSeq(items, LAMBDA item : NameOf(data, item.event) = name)
                list == Lengths(data, Kept(data, args, [i \in DOMAIN of |-> of[i].event]))
                range == RangeOf(list)
            IN [parent |-> p, name |-> name, count |-> Len(list), min |-> range.min,
                max |-> range.max, total |-> Total(list, LAMBDA d : d)]
        Rows(p, items) ==
            LET names == SetToSeq({NameOf(data, item.event) : item \in ToSet(items)})
            IN [i \in DOMAIN names |-> Row(p, names[i], items)]
    IN [k \in DOMAIN keys |->
          Table("aggregated", data.begin, data.end,
                FlattenSeq([i \in DOMAIN ps |-> Rows(ps[i], Items(ps[i], keys[k]))]))]

PrintsAggregated(args) ==
    args.log /\ args.orderBy # "hierarchy" /\ args.select # None

-----------------------------------------------------------------------------
(* Distributions: each histogram is [values, range, wraps], of which the   *)
(* first ones count negative indices from the end, and the others fail.    *)

\* --min and --max, in ns, are compared with what is divided by the ratio.
ValuesRange(args, values, ratio) ==
    [min |-> IF args.min # None THEN args.min * ratio ELSE Min(ToSet(values)),
     max |-> IF args.max # None THEN args.max * ratio ELSE Max(ToSet(values))]

\* The bounds of all lists so far of a category, with --freq-uniform.
Bounds(args, lists, values, ratio) ==
    IF ~IsUniform(args) THEN ValuesRange(args, values, ratio)
    ELSE FoldLeft(LAMBDA shared, list : UniformAfter(shared, args, list, ratio), NoRange, lists)

Histogram(args, values, range, wraps) ==
    [values |-> IF wraps THEN values ELSE SelectSeq(values, LAMBDA v : Lasts(args, v)),
     range |-> range, wraps |-> wraps]

\* _get_per_period_freq_result_tables()
PeriodHistograms(data, args) ==
    LET named == SetToSortSeq({NameOf(data, e) : e \in Events(data)}, <)
        names == SelectSeq(named, LAMBDA n : Named(args.select, n))
        all   == Lengths(data, Kept(data, args, AllEvents(data)))
    IN [i \in DOMAIN names |->
          LET list == OfName(data, args, names[i])
          IN Histogram(args, list,
                IF IsUniform(args) THEN UniformAfter(NoRange, args, all, NsPerUs)
                                   ELSE OwnRange(args, RangeOf(list)), TRUE)]

\* The names of the periods in a group, and their durations.
GroupNames(data, g) == SetToSortSeq({NameOf(data, e) : e \in ToSet(g.in)}, <)
GroupLengths(data, g, name) ==
    Lengths(data, SelectSeq(g.in, LAMBDA e : NameOf(data, e) = name))
GroupLists(data, groups) ==
    FlattenSeq([k \in DOMAIN groups |->
        LET names == GroupNames(data, groups[k])
        IN [i \in DOMAIN names |-> GroupLengths(data, groups[k], names[i])]])

\* _get_grouped_by_period_stats_freq()
GroupHistograms(data, args, lists, g) ==
    LET names == SelectSeq(GroupNames(data, g), LAMBDA n : Named(args.select, n))
    IN [i \in DOMAIN names |->
          LET list == GroupLengths(data, g, names[i])
          IN Histogram(args, list, Bounds(args, lists, list, NsPerUs), FALSE)]

\* _get_per_parent_freq_result_table(): `before` are the pairs of the tables
\* made before, which the shared bounds include, as they do the groups' lists.
PairHistograms(args, lists, before, pairs) ==
    LET Lists(kind, globally) ==
            (IF kind = "duration" /\ ~globally THEN lists ELSE << >>)
            \o [i \in DOMAIN (before \o pairs) |-> ValuesIn((before \o pairs)[i], kind, globally)]
        Of(kind, globally) ==
            [i \in DOMAIN pairs |->
               LET values == ValuesIn(pairs[i], kind, globally)
               IN Histogram(args, values,
                     Bounds(args, Lists(kind, globally), values,
                            IF kind = "duration" THEN NsPerUs ELSE 1), FALSE)]
    IN FlattenSeq([k \in DOMAIN Kinds |-> Of(Kinds[k], FALSE)])
       \o FlattenSeq([k \in DOMAIN Kinds |-> Of(Kinds[k], TRUE)])

Histograms(data, args, parts) ==
    LET Before(k) == FlattenSeq(SubSeq(parts.pairs, 1, k - 1))
    IN PeriodHistograms(data, args)
       \o FlattenSeq([k \in DOMAIN parts.pairs |->
             (IF k = 1 THEN << >>
              ELSE GroupHistograms(data, args, parts.lists, parts.groups[k - 1]))
             \o PairHistograms(args, parts.lists, Before(k), parts.pairs[k])])

HistogramRows(h, n) == FreqRows(h.values, h.range, n)
AllRows(hs, n) == [i \in DOMAIN hs |-> HistogramRows(hs[i], n)]
HistogramRaises(h, n) ==
    IF h.wraps THEN FreqRaises(h.values, h.range, n)
    ELSE /\ h.range.min # h.range.max
         /\ \E i \in DOMAIN h.values : Index(h.values[i], h.range, n) < 0

\* _get_per_group_freq_series_tables(): for each name in a group, the counts
\* of all groups.  It fails if a group has none of the name, or no rows.
GroupSeries(data, args, parts) ==
    [k \in DOMAIN parts.groups |->
       AllRows(GroupHistograms(data, args, parts.lists, parts.groups[k]), args.resolution)]
GroupSeriesRaises(data, args, parts) ==
    LET Names(g) == {n \in ToSet(GroupNames(data, g)) : Named(args.select, n)}
    IN /\ args.resolution > 0
       /\ \/ \E g, h \in ToSet(parts.groups) : Names(g) # Names(h)
          \/ \E rows \in ToSet(GroupSeries(data, args, parts)) : << >> \in ToSet(rows)
SeriesTables(data, series) ==
    IF series = << >> THEN << >>
    ELSE [i \in DOMAIN series[1] |->
            Table("freq-series", data.begin, data.end,
              [r \in DOMAIN series[1][i] |->
                 [lower |-> series[1][i][r].lower,
                  counts |-> [k \in DOMAIN series |-> series[k][i][r].count]]])]

-----------------------------------------------------------------------------
NeedsPairs(args) == args.stats \/ args.freq

\* What the tables are made from: the groups, the durations of each, and the
\* pairs of all periods, before those of each group.
Parts(data, args, groups) ==
    [groups |-> groups, lists |-> GroupLists(data, groups),
     pairs  |-> IF NeedsPairs(args)
                  THEN Pairs(data, args, groups, ToSet(Hierarchy(data, args, FALSE)))
                  ELSE << >>]
Aggregated(data, args) == Parts(data, args, PeriodGroups(data, args))

\* What stops the program: a histogram of a group is made even if only
\* statistics are asked for, and a row without a period cannot be printed.
RaisesWith(data, args, mi, parts) ==
    \/ (NeedsPairs(args) \/ args.orderBy = "hierarchy") /\ NoDuration(data, args)
    \/ /\ NeedsPairs(args)
       /\ \E g \in ToSet(parts.groups) :
             \E h \in ToSet(GroupHistograms(data, args, parts.lists, g)) :
                HistogramRaises(h, args.resolution)
    \/ /\ args.freq
       /\ \E h \in ToSet(Histograms(data, args, parts)) : HistogramRaises(h, args.resolution)
    \/ args.freq /\ args.series /\ mi /\ GroupSeriesRaises(data, args, parts)
    \/ /\ ~mi /\ PrintsAggregated(args)
       /\ \E t \in ToSet(AggregatedTables(data, args)) :
             \E r \in ToSet(t.rows) : r.count = 0
PeriodRaises(data, args, mi) == RaisesWith(data, args, mi, Aggregated(data, args))

FreqTables(data, all) ==
    [i \in DOMAIN all |-> Table("freq", data.begin, data.end, all[i])]

\* _analysis_tick()
TablesWith(data, args, parts) ==
    LET T(class, rows) == << Table(class, data.begin, data.end, rows) >>
    IN (IF args.log THEN T("log", PeriodLog(data, args)) ELSE << >>)
       \o (IF args.top THEN T("top", PeriodTop(data, args)) ELSE << >>)
       \o (IF args.stats
             THEN T("period-stats", PeriodStatsRows(data, args))
                  \o FlattenSeq([k \in DOMAIN parts.pairs |-> ParentTables(data, parts.pairs[k])])
             ELSE << >>)
       \o (IF args.freq
             THEN FreqTables(data, AllRows(Histograms(data, args, parts), args.resolution))
             ELSE << >>)
       \o (IF args.freq /\ args.series
             THEN SeriesTables(data, GroupSeries(data, args, parts)) ELSE << >>)
PeriodTick(data, args) == TablesWith(data, args, Aggregated(data, args))
=============================================================================

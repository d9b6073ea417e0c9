--------------------------- MODULE PeriodMatching ---------------------------
(***************************************************************************)
(* The period engine with the expressions of its definitions: which        *)
(* periods an event ends and begins is no longer a free choice.            *)
(*                                                                         *)
(* A run takes one set of definitions.  A definition whose source is       *)
(* "free" keeps the choice of PeriodEngine; the others come from --period  *)
(* or from the old options.                                                *)
(***************************************************************************)
EXTENDS PeriodEngine, PeriodExpressions, Functions

CONSTANTS SourceOf,       \* of each definition: [kind, arg]
          EventsOf        \* the sequences of definitions a run may take, and
                          \* the events that its trace may have

VARIABLES line,           \* the definitions, in the order of the arguments
          trace,          \* history: the events processed
          raised          \* what raised an exception: none, operand, value
                          \* or capture

matchVars == <<engineVars, line, trace, raised>>

Free(d) == SourceOf[d].kind = "free"

\* The definitions the arguments stand for.
Definition == [d \in {c \in Defs : ~Free(c)} |->
    CASE SourceOf[d].kind = "period" -> Parsed(SourceOf[d].arg)
      [] SourceOf[d].kind = "legacy" -> Legacy(SourceOf[d].arg)]

\* The registry after the first n arguments.
Registered(l, n) == [i \in 1 .. n |-> Definition[l[i]]]

WellFormed(d) == SourceOf[d].kind = "period" => ~Malformed(SourceOf[d].arg)

\* The command goes on only if each argument is well formed and accepted.
Accepted(l) ==
    \A i \in DOMAIN l : ~Free(l[i]) =>
        /\ WellFormed(l[i])
        /\ AddError(Registered(l, i - 1), Definition[l[i]]) = "none"

\* The expressions of the definitions are known; the keys of the old options
\* are names of fields.
ASSUME DefinitionsAssumption ==
    /\ \A d \in Defs : SourceOf[d].kind \in {"free", "period", "legacy"}
    /\ \A l \in DOMAIN EventsOf : l \in Seq(Defs)
    /\ \A d \in Defs : ~Free(d) /\ WellFormed(d) =>
          {Definition[d].begin, Definition[d].end} \subseteq Exprs
    /\ \A d \in Defs : SourceOf[d].kind = "legacy" =>
          LET o == SourceOf[d].arg
          IN /\ {o.keys, o.endKeys} \subseteq Seq(Fields)
             /\ {o.begin, o.end} \subseteq Int /\ ToSet(o.values) \subseteq Values

\* Events have a name, and values for fields of some scopes.
ASSUME EventsAssumption ==
    /\ NoEvt \notin UNION Range(EventsOf)
    /\ \A e \in UNION Range(EventsOf) :
          /\ e.name \in Int
          /\ DOMAIN e.fields \subseteq ToSet(Scopes) \X Fields
          /\ \A k \in DOMAIN e.fields : e.fields[k] \in Values

\* The parents of PeriodEngine are those the registry finds by name.
ASSUME ParentsAssumption ==
    \A d \in Defs : ~Free(d) =>
        IF Definition[d].parent = NoName THEN ParentDef[d] = NoDef
        ELSE /\ ~Free(ParentDef[d])
             /\ Definition[ParentDef[d]].name = Definition[d].parent

ActiveDefs == Range(line)
BeginEvent(p) == IF p = Root THEN NoEvt ELSE trace[BeginOf(p)]

\* Mutant: the parent of a beginning period is asked for this event.
BeginContextOfEvent(p, e) == [evt |-> e, begin |-> e, parent |-> e]

\* _create_begin_match_context() under the period p.
BeginContext(p, e) == [evt |-> e, begin |-> e, parent |-> BeginEvent(p)]

\* _create_end_match_context()
EndContext(p, e) ==
    [evt |-> e, begin |-> BeginEvent(p), parent |-> BeginEvent(Parent(p))]

EndExpr(p)   == Definition[DefOf(p)].end
BeginExpr(d) == Definition[d].begin

\* _get_captures() raises.
CapturesRaise(d, which, ctx) ==
    \E c \in Definition[d].captures : c.at = which /\ OperandRaises(c.expr, ctx)

\* What is raised where the engine evaluates e, then the captures if it
\* matches.
EngineErrors(d, which, e, ctx) ==
    IF Errors(e, ctx) = {} /\ Matches(e, ctx) /\ CapturesRaise(d, which, ctx)
      THEN {"capture"} ELSE Errors(e, ctx)

EndErrors(p) ==
    IF Free(DefOf(p)) THEN {}
    ELSE EngineErrors(DefOf(p), "end", EndExpr(p), EndContext(p, Last(trace)))

\* The definitions that may begin under p.
DefsUnder(p) == {d \in ActiveDefs : ~Free(d) /\ ParentDef[d] = DefOf(p)}

\* All definitions under p are evaluated before a period of one begins.
BeginErrors(p) ==
    UNION {EngineErrors(d, "begin", BeginExpr(d), BeginContext(p, Last(trace))) :
           d \in DefsUnder(p)}

-----------------------------------------------------------------------------
MatchInit ==
    /\ EngineInit
    /\ line \in {l \in DOMAIN EventsOf : Accepted(l)}
    /\ trace = << >>
    /\ raised = "none"

\* The event ends those periods whose end expression it satisfies.
MatchEnd(e, M) ==
    /\ ProcessEvent(M)
    /\ trace' = Append(trace, e)
    /\ \A p \in periods : ~Free(DefOf(p)) =>
          (p \in M <=> Matches(EndExpr(p), EndContext(p, e)))
    /\ UNCHANGED <<line, raised>>

\* The end expression of a period is evaluated before the period ends.
MatchEnds(p) ==
    /\ EndPeriod(p)
    /\ phase = "end" => EndErrors(p) = {}
    /\ UNCHANGED <<line, trace, raised>>

MatchEndingDone ==
    /\ EndingDone
    /\ \A p \in periods : EndErrors(p) = {}
    /\ UNCHANGED <<line, trace, raised>>

\* The event satisfies the begin expression of d under p, and this period
\* has not begun yet.
ToBegin(d, p) ==
    /\ d \in DefsUnder(p)
    /\ Append(p, [def |-> d, begin |-> evt]) \notin periods
    /\ Matches(BeginExpr(d), BeginContext(p, Last(trace)))

MatchBegin(d, p) ==
    /\ BeginPeriod(d, p)
    /\ d \in ActiveDefs
    /\ ~Free(d) => ToBegin(d, p) /\ BeginErrors(p) = {}
    /\ UNCHANGED <<line, trace, raised>>

\* The engine leaves no matching definition out.  The second disjunct is the
\* bound.
MatchDone ==
    /\ EventDone
    /\ \A p \in periods \cup {Root} : BeginErrors(p) = {}
    /\ \/ \A d \in ActiveDefs, p \in periods \cup {Root} : ~ToBegin(d, p)
       \/ Cardinality(periods) >= MaxOpen
    /\ UNCHANGED <<line, trace, raised>>

\* An expression or a capture raises, which ends the analysis.
MatchRaises ==
    /\ phase \in {"end", "begin"}
    /\ raised' \in IF phase = "end" THEN UNION {EndErrors(p) : p \in periods}
                  ELSE UNION {BeginErrors(p) : p \in periods \cup {Root}}
    /\ UNCHANGED <<engineVars, line, trace>>

MatchNext ==
    /\ raised = "none"
    /\ \/ \E e \in EventsOf[line], M \in SUBSET periods : MatchEnd(e, M)
       \/ \E p \in dying : MatchEnds(p)
       \/ MatchEndingDone
       \/ \E d \in ActiveDefs, p \in periods \cup {Root} : MatchBegin(d, p)
       \/ MatchDone
       \/ MatchRaises
       \/ (RemoveAllPeriods \/ RemovalDone) /\ UNCHANGED <<line, trace, raised>>

MatchSpec == MatchInit /\ [][MatchNext]_matchVars
FairMatchSpec == MatchSpec /\ WF_matchVars(MatchNext)

-----------------------------------------------------------------------------
\* What must hold for e to hold: the expressions that "and" connects.
Conjuncts(e) ==
    LET conjuncts[f \in Exprs] ==
            IF f.op = "and" THEN UNION {conjuncts[g] : g \in Parts(f)} ELSE {f}
    IN conjuncts[e]

\* $evt.f == $parent.$begin.$evt.f
AsInParent(f) == Comparison("==", Field(f, FALSE), [Field(f, TRUE) EXCEPT !.parent = TRUE])

Began  == periods \cup {r.period : r \in ended}
Keys   == {k[2] : k \in UNION {DOMAIN trace[i].fields : i \in DOMAIN trace}}
\* A real number is the same as an integer on the left if it is cut to it.
Same(v, w) ==
    /\ v # NoValue /\ w # NoValue
    /\ \/ v = w /\ v.v # NaN
       \/ v.t = "int" /\ w.t = "float" /\ w.v \in Int /\ v.v = Truncated(w.v)
SameValue(e, f, f2, e2) == Same(FirstField(e, f), FirstField(e2, f2))

\* The values in an expression.
LiteralsIn(e) ==
    LET literals[f \in Exprs] ==
            IF f.op \in Connectives THEN UNION {literals[g] : g \in Parts(f)}
            ELSE {x.value : x \in {y \in {f.lh, f.rh} : y.kind = "literal"}}
    IN literals[e]

\* The values that are compared: those of the definitions and of the trace.
Compared ==
    UNION ({LiteralsIn(BeginExpr(d)) : d \in {c \in ActiveDefs : ~Free(c)}} \cup
           {LiteralsIn(Definition[d].end) : d \in {c \in ActiveDefs : ~Free(c)}} \cup
           {Range(trace[i].fields) : i \in DOMAIN trace})
Ordinary(v) == v.t # "dict" /\ v.v \in Int

\* A definition which the command accepted can be evaluated on any event, at
\* any depth: it never raises for what its operands refer to
\* (core/period.py:372-381 rejects what line 462 could not take apart), and
\* for the values compared only if one is no finite number (line 529) or has
\* no order (lines 490-493).
AcceptedRaiseForValues ==
    /\ raised # "operand"
    /\ raised = "value" => \E v \in Compared : ~Ordinary(v)

\* A child which asks for a field equal to its parent's begins under those
\* instances of the parent whose own first event has the value, among all the
\* instances that are open (core/period.py:688-694).
ChildrenMatchTheirParent ==
    \A p \in Began : ~Free(DefOf(p)) =>
        \A f \in Keys : AsInParent(f) \in Conjuncts(BeginExpr(DefOf(p))) =>
            SameValue(trace[BeginOf(p)], f, f, BeginEvent(Parent(p)))

\* The event e ends what b began, by the old options o.
Pairs(o, b, e) ==
    LET endKeys == IF o.endKeys = << >> THEN o.keys ELSE o.endKeys IN
    /\ e.name = o.end
    /\ \A i \in DOMAIN o.keys \cap DOMAIN endKeys :
          SameValue(e, endKeys[i], o.keys[i], b)

\* With the old options, a period ends at the first later event that has the
\* name and the keys, and only there (cli/command.py:600-617).
LegacyPeriodsPair ==
    \A d \in ActiveDefs : SourceOf[d].kind = "legacy" =>
        LET o == SourceOf[d].arg
            ofIt(p) == DefOf(p) = d
            unpaired(p, k) == \A i \in BeginOf(p) + 1 .. k : ~Pairs(o, trace[BeginOf(p)], trace[i])
        IN /\ \A r \in ended : ofIt(r.period) /\ r.end # NoEvent =>
                 /\ Pairs(o, trace[BeginOf(r.period)], trace[r.end])
                 /\ unpaired(r.period, r.end - 1)
           /\ phase = "idle" => \A p \in periods : ofIt(p) => unpaired(p, evt)

\* Everything that began has ended when the engine has removed all periods,
\* and it gets there, unless an exception stops it: that of a capture or of
\* the values compared.
AllPeriodsEnd == <>[](\/ phase = "done" /\ periods = {}
                      \/ raised \in {"capture", "value"})
=============================================================================

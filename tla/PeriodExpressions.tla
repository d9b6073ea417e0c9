------------------------- MODULE PeriodExpressions --------------------------
(***************************************************************************)
(* Period definitions (core/period.py:29-572): from the arguments of the   *)
(* command line (cli/period_parsing.py) to expressions, their validation,  *)
(* the registry, and their evaluation on events (core/event.py).           *)
(*                                                                         *)
(* The value of a field is a record with its Python type; numbers are      *)
(* counted in halves, so that a literal need not be an integer, and a      *)
(* float may be no number at all.  A "dict" is any value without an order: *)
(* a structure, or an array of structures.  An event is [name, fields],    *)
(* fields being a function on pairs <<scope, field>>.                      *)
(* Operands are written flat: $parent and $begin are two flags.            *)
(*                                                                         *)
(* An expression is a comparison, or [op, of]: what the program builds as  *)
(* a chain of binary connectives is one connective of many expressions.    *)
(* The walks of an expression are recursive functions on Exprs.            *)
(***************************************************************************)
EXTENDS Integers, Sequences, SequencesExt

CONSTANTS NoName,         \* a definition without name or parent (None)
          NoEvt,          \* no such event in a match context (None)
          NoValue,        \* what a missing field resolves to (None)
          EventName,      \* $name, in the place of a field
          Infinity,       \* the floats that are not finite: 1e999,
          MinusInfinity,  \* -1e999
          NaN,            \* and what is not a number
          Globs,          \* what each pattern of =* matches
          Fields,         \* the names of fields
          Exprs,          \* the expressions, with all those inside of them
          Depth           \* of each: how deep it nests others

\* A pattern matches names of events or texts.
ASSUME GlobsAssumption == \A g \in DOMAIN Globs : Globs[g] \subseteq Int

Connectives == {"and", "or", "not"}
Parts(e)    == IF e.op \in Connectives THEN {e.of[i] : i \in DOMAIN e.of} ELSE {}

\* Expressions are finite trees.
ASSUME ExprsAssumption ==
    /\ Depth \in [Exprs -> Nat]
    /\ \A e \in Exprs :
          /\ e.op \in Connectives => e.of \in Seq(Exprs)
          /\ e.op = "not" => Len(e.of) = 1
          /\ \A f \in Parts(e) : Depth[f] < Depth[e]
          /\ e.op \notin Connectives => {e.lh.kind, e.rh.kind} \subseteq {"evt", "literal"}

ASSUME FloatsAssumption ==
    /\ {Infinity, MinusInfinity, NaN} \cap Int = {}
    /\ Infinity # MinusInfinity /\ Infinity # NaN /\ MinusInfinity # NaN

\* What a field may have.
Floats == Int \cup {Infinity, MinusInfinity, NaN}
Values == [t : {"int", "str", "dict"}, v : Int] \cup [t : {"float"}, v : Floats]
ASSUME ValuesAssumption == NoValue \notin Values /\ EventName \notin Fields

\* The scopes of an event, in the order of an automatic look-up.
Scopes == <<"payload", "ctx", "stream_ctx", "header", "pkt_ctx", "pkt_header">>

Str(s) == [t |-> "str", v |-> s]

-----------------------------------------------------------------------------
(* Parsing: what the grammar found, to expressions.                        *)

Not(e)         == [op |-> "not", of |-> <<e>>]
Joined(op, es) == [op |-> op, of |-> es]

\* The result of a comparison; "!=" is the negation of "==".
Comparison(op, lh, rh) ==
    IF op = "!=" THEN Not([op |-> "==", lh |-> lh, rh |-> rh])
                 ELSE [op |-> op, lh |-> lh, rh |-> rh]

\* parse_period_def_arg(): what precedes a slash is dropped, even if the
\* slash is in a literal.  The end expression is that of the begin by default.
Malformed(arg) == arg.slash = "literal" \/ arg.begin = << >>
Parsed(arg) ==
    [parent |-> arg.parent, name |-> arg.name,
     begin  |-> arg.begin[1],
     end    |-> IF arg.end = << >> THEN arg.begin[1] ELSE arg.end[1],
     captures |-> arg.captures]

-----------------------------------------------------------------------------
(* The old options: event names, keys and their values.                    *)

Field(f, begin) == [kind |-> "evt", parent |-> FALSE, begin |-> begin,
                    dyn |-> "auto", field |-> f]
Literal(v)      == [kind |-> "literal", value |-> v]

NamedEvent(n) == Comparison("==", Field(EventName, FALSE), Literal(Str(n)))

\* As zip() does, the longer list of keys is cut.
Zipped(s, t) == [i \in 1 .. (IF Len(s) < Len(t) THEN Len(s) ELSE Len(t)) |->
                   <<s[i], t[i]>>]

\* Mutant: an end event need not have the keys of the begin event.
LegacyByName(o) ==
    [parent |-> NoName, name |-> NoName,
     begin |-> NamedEvent(o.begin), end |-> NamedEvent(o.end), captures |-> {}]

\* The new-style definition made of --period-begin and its companions.
Legacy(o) ==
    LET endKeys == IF o.endKeys = << >> THEN o.keys ELSE o.endKeys
        value(z) == Comparison("==", Field(z[1], TRUE), Literal(z[2]))
        same(z)  == Comparison("==", Field(z[2], FALSE), Field(z[1], TRUE))
        values == Zipped(o.keys, o.values)
        keys   == Zipped(o.keys, endKeys)
    IN [parent |-> NoName, name |-> NoName,
        begin |-> Joined("and", <<NamedEvent(o.begin)>> \o
                                [i \in DOMAIN values |-> value(values[i])]),
        end   |-> Joined("and", <<NamedEvent(o.end)>> \o
                                [i \in DOMAIN keys |-> same(keys[i])]),
        captures |-> {}]

-----------------------------------------------------------------------------
(* Validation.                                                             *)

\* Mutant: $parent may be followed by $evt.
LegalWithParent(x, def) == x.kind = "evt" /\ x.parent => def.parent # NoName

\* $parent needs a named parent, and is followed by $begin.
LegalOperand(x, def) ==
    x.kind = "evt" /\ x.parent => def.parent # NoName /\ x.begin

LegalExprs(def) ==
    LET legal[e \in Exprs] ==
            IF e.op \in Connectives THEN \A f \in Parts(e) : legal[f]
            ELSE LegalOperand(e.lh, def) /\ LegalOperand(e.rh, def)
    IN legal
LegalExpr(e, def) == LegalExprs(def)[e]

\* PeriodDefinitionValidator.  The captures are not looked at.
Legal(def) == LegalExpr(def.begin, def) /\ LegalExpr(def.end, def)

-----------------------------------------------------------------------------
(* The registry: the accepted definitions, in order.                       *)

HasPeriodDef(reg, name) == name # NoName /\ \E i \in DOMAIN reg : reg[i].name = name
GetPeriodDef(reg, name) == reg[CHOOSE i \in DOMAIN reg : reg[i].name = name]

\* What add_period_def() raises, "none" if it adds the definition.
AddError(reg, def) ==
    IF \/ HasPeriodDef(reg, def.name)
       \/ def.parent # NoName /\ ~HasPeriodDef(reg, def.parent) THEN "invalid"
    ELSE IF Legal(def) THEN "none" ELSE "illegal"

\* add_full_period_path(): the names from the root definition down.
FullPath(reg, def) ==
    LET path[d \in ToSet(reg) \cup {def}] ==
            IF d.parent = NoName THEN <<d.name>>
            ELSE Append(path[GetPeriodDef(reg, d.parent)], d.name)
    IN path[def]

-----------------------------------------------------------------------------
(* Evaluation.                                                             *)

FieldWithScope(e, f, s) ==
    IF <<s, f>> \in DOMAIN e.fields THEN e.fields[<<s, f>>] ELSE NoValue

\* Event._get_first_field(): automatic scope.
FirstField(e, f) ==
    LET having == SelectSeq(Scopes, LAMBDA s : <<s, f>> \in DOMAIN e.fields)
    IN IF having = << >> THEN NoValue ELSE FieldWithScope(e, f, Head(having))

\* _resolve_event_expr()
ResolveEvent(e, x) ==
    IF e = NoEvt THEN NoValue
    ELSE IF x.field = EventName THEN Str(e.name)
    ELSE IF x.dyn = "auto" THEN FirstField(e, x.field)
    ELSE FieldWithScope(e, x.field, x.dyn)

\* $parent.$evt takes one node too many off the operand: it raises, unless
\* there is no event, or a named scope to take off.
OperandRaises(x, ctx) ==
    /\ x.kind = "evt" /\ x.parent /\ ~x.begin
    /\ ctx.parent # NoEvt
    /\ x.field = EventName \/ x.dyn = "auto"

\* _resolve_expr(), in the match context ctx.
Resolve(x, ctx) ==
    CASE x.kind = "literal" -> x.value
      [] x.kind = "evt" /\ x.parent ->
             IF OperandRaises(x, ctx) THEN NoValue
             ELSE ResolveEvent(ctx.parent, IF x.begin THEN x ELSE [x EXCEPT !.dyn = "auto"])
      [] x.kind = "evt" /\ ~x.parent ->
             ResolveEvent(IF x.begin THEN ctx.begin ELSE ctx.evt, x)

\* int() of a number of halves.
Truncated(v) == IF v >= 0 THEN 2 * (v \div 2) ELSE -(2 * ((-v) \div 2))

\* The comparison of these values raises: int() of a float that is not finite,
\* or an order where there is none.
Incomparable(op, l, r) ==
    /\ l # NoValue /\ r # NoValue
    /\ \/ l.t = "int" /\ r.t = "float" /\ r.v \notin Int
       \/ l.t = "dict" /\ r.t = "dict" /\ op \in {"<", "<=", ">", ">="}

\* A real number on the right is cut to an integer if the left is one.
Cast(l, r) == IF l.t = "int" /\ r.t = "float"
                THEN [t |-> "int", v |-> Truncated(r.v)] ELSE r

Equal(l, r) == l = r /\ l # NaN
Less(l, r)  == /\ NaN \notin {l, r} /\ l # r
               /\ \/ l = MinusInfinity \/ r = Infinity
                  \/ {l, r} \subseteq Int /\ l < r

Holds(op, l, r) ==
    CASE op = "==" -> Equal(l, r)
      [] op = "<"  -> Less(l, r)
      [] op = "<=" -> Less(l, r) \/ Equal(l, r)
      [] op = ">"  -> Less(r, l)
      [] op = ">=" -> Less(r, l) \/ Equal(l, r)
      [] op = "=*" -> l \in Globs[r]

\* _comp_expr_matches(): nothing holds of a missing field or of two types.
Compares(op, l, r) ==
    /\ l # NoValue /\ r # NoValue /\ ~Incomparable(op, l, r)
    /\ LET c == Cast(l, r) IN l.t = c.t /\ Holds(op, l.v, c.v)

\* The expressions that match in a context.
Matching(ctx) ==
    LET matches[e \in Exprs] ==
            CASE e.op = "and" -> \A i \in DOMAIN e.of : matches[e.of[i]]
              [] e.op = "or"  -> \E i \in DOMAIN e.of : matches[e.of[i]]
              [] e.op = "not" -> ~matches[e.of[1]]
              [] OTHER -> Compares(e.op, Resolve(e.lh, ctx), Resolve(e.rh, ctx))
    IN matches
Matches(e, ctx) == Matching(ctx)[e]

\* Why a comparison raises: an operand that cannot be resolved, or the values.
ComparisonErrors(e, ctx) ==
    IF OperandRaises(e.lh, ctx) \/ OperandRaises(e.rh, ctx) THEN {"operand"}
    ELSE IF Incomparable(e.op, Resolve(e.lh, ctx), Resolve(e.rh, ctx)) THEN {"value"}
    ELSE {}

\* The exception, if any, that ends the evaluation of each expression; "and"
\* and "or" stop as soon as they can.
Raising(ctx) ==
    LET raises[e \in Exprs] ==
            CASE e.op = "and" -> UNION {raises[e.of[i]] : i \in {k \in DOMAIN e.of :
                     \A j \in 1 .. k - 1 : Matches(e.of[j], ctx) /\ raises[e.of[j]] = {}}}
              [] e.op = "or"  -> UNION {raises[e.of[i]] : i \in {k \in DOMAIN e.of :
                     \A j \in 1 .. k - 1 : ~Matches(e.of[j], ctx) /\ raises[e.of[j]] = {}}}
              [] e.op = "not" -> raises[e.of[1]]
              [] OTHER -> ComparisonErrors(e, ctx)
    IN raises
Errors(e, ctx) == Raising(ctx)[e]
=============================================================================

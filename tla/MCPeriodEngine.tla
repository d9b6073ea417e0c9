--------------------------- MODULE MCPeriodEngine ---------------------------
(* Definitions whose matching is free: a root with two levels below it, and *)
(* a second root.  Definitions with expressions: a root named 1 begun and   *)
(* ended by a key, a child of it that asks for the parent's key, a          *)
(* grandchild of any event but one name, and definitions to be refused; the *)
(* old options with two keys, with neither end nor end keys, and with an    *)
(* infinite value; a definition whose end compares values by order.         *)
EXTENDS PeriodMatching

CONSTANTS dRoot, dChild, dGrand, dOther, kRoot, kChild, kGrand, kCapt, kBad,
          kOrder, dTwo, dOne, dInf, x, y

FreeDefs == {dRoot, dChild, dGrand, dOther}
MCDefs   == FreeDefs \cup {kRoot, kChild, kGrand, kCapt, kBad, kOrder, dTwo, dOne, dInf}
MCParentDef == [d \in MCDefs |-> CASE d = dChild -> dRoot
                                   [] d = dGrand -> dChild
                                   [] d \in {kChild, kBad, kCapt} -> kRoot
                                   [] d = kGrand -> kChild
                                   [] OTHER      -> NoDef]

Is(op, n)       == Comparison(op, Field(EventName, FALSE), Literal(Str(n)))
Real(v)         == Literal([t |-> "float", v |-> v])
OfParent(f)     == [Field(f, TRUE) EXCEPT !.parent = TRUE]
NotBegin(f)     == [Field(f, FALSE) EXCEPT !.parent = TRUE]
Arg(n, p, b, e) == [kind |-> "period", arg |->
    [name |-> n, parent |-> p, begin |-> b, end |-> e, slash |-> "prefix", captures |-> {}]]

\* begin: name 1, x < 1.5, or no x at all; end: same x, name like 2
RootArg   == Arg(1, NoName,
    << Joined("and", <<Is("==", 1), Joined("or",
          <<Comparison("<", Field(x, FALSE), Real(3)),
            Not(Comparison(">=", Field(x, FALSE), Real(0)))>>)>>) >>,
    << Joined("and", <<Is("=*", 2), Comparison("==", Field(x, FALSE), Field(x, TRUE))>>) >>)
ChildArg  == Arg(2, 1,
    << Joined("and", <<Is("==", 1), Comparison("==", Field(x, FALSE), OfParent(x))>>) >>,
    << Is("==", 2) >>)
GrandArg  == Arg(3, 2, << Is("!=", 1) >>, << >>)
CaptArg   == [Arg(5, 1, << Is("==", 1) >>, << >>) EXCEPT !.arg.captures =
    {[at |-> "begin", expr |-> Field(x, TRUE)], [at |-> "end", expr |-> NotBegin(x)]}]
BadArg    == Arg(4, 1, << Comparison("==", NotBegin(x), Field(x, FALSE)) >>, << >>)
\* end: x < 1e999 and not x < that of the begin event
OrderArg  == Arg(6, NoName, << Is("==", 1) >>,
    << Joined("and", <<Comparison("<", Field(x, FALSE), Real(Infinity)),
                       Not(Comparison("<", Field(x, FALSE), Field(x, TRUE)))>>) >>)
TwoKeys   == [kind |-> "legacy", arg |->
    [begin |-> 1, end |-> 2, keys |-> <<x, y>>, endKeys |-> <<y, x>>, values |-> <<Real(1).value>>]]
OneKey    == [kind |-> "legacy", arg |->
    [begin |-> 1, end |-> 1, keys |-> <<x>>, endKeys |-> << >>, values |-> << >>]]
InfKey    == [kind |-> "legacy", arg |->
    [begin |-> 1, end |-> 2, keys |-> <<x>>, endKeys |-> << >>, values |-> <<Real(Infinity).value>>]]
MCSourceOf == [d \in MCDefs |-> CASE d = kRoot  -> RootArg
                                  [] d = kChild -> ChildArg
                                  [] d = kGrand -> GrandArg
                                  [] d = kCapt  -> CaptArg
                                  [] d = kBad   -> BadArg
                                  [] d = kOrder -> OrderArg
                                  [] d = dTwo   -> TwoKeys
                                  [] d = dOne   -> OneKey
                                  [] d = dInf   -> InfKey
                                  [] OTHER      -> [kind |-> "free"]]

\* The expressions of all definitions, and how deep they nest.
RECURSIVE Tree(_)
Tree(e) == {e} \cup UNION {Tree(f) : f \in Parts(e)}
RECURSIVE DepthOf(_)
DepthOf(e) == IF Parts(e) = {} THEN 0 ELSE 1 + Max({DepthOf(f) : f \in Parts(e)})
MCExprs == UNION {Tree(Definition[d].begin) \cup Tree(Definition[d].end) : d \in DOMAIN Definition}
MCDepth == [e \in MCExprs |-> DepthOf(e)]

MCGlobs == [g \in {1, 2} |-> {g, g + 1}]

Whole(n)    == [t |-> "int", v |-> 2 * n]
Event(n, f) == [name |-> n, fields |-> f]
None        == [k \in {} |-> 0]
X(s, v)     == [k \in {<<s, x>>} |-> v]
XY(v, w)    == [k \in {<<"payload", x>>, <<"payload", y>>} |-> IF k[2] = x THEN v ELSE w]
Shadowed    == [k \in {<<"header", x>>, <<"ctx", x>>} |-> IF k[1] = "ctx" THEN Whole(0) ELSE Whole(1)]

Blank     == {Event(1, None)}
KeyEvents == {Event(n, f) : n \in {1, 2},
              f \in {None, X("payload", Whole(0)), X("payload", Whole(1)), Shadowed}}
TwoEvents == {Event(n, XY(v, w)) : n \in {1, 2}, v \in {Whole(0), Whole(1)}, w \in {Whole(0), Whole(1)}}
OddEvents == {Event(n, f) : n \in {1, 2}, f \in {None} \cup {X("payload", v) :
              v \in {Whole(0), [t |-> "dict", v |-> 0], Real(Infinity).value, Real(NaN).value}}}
MCEventsOf == [l \in {<<dRoot, dChild, dGrand, dOther>>, <<kRoot, kChild, kGrand>>, <<kRoot, kBad>>,
                      <<kRoot, kCapt>>, <<kChild, kRoot>>, <<kRoot, kRoot>>, <<dTwo>>, <<dOne>>,
                      <<dInf>>, <<kOrder, kRoot>>} |->
                 CASE l[1] = dRoot -> Blank
                   [] l = <<dTwo>> -> TwoEvents
                   [] l[1] \in {dInf, kOrder} -> OddEvents
                   [] OTHER        -> KeyEvents]
=============================================================================

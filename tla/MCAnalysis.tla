----------------------------- MODULE MCAnalysis -----------------------------
(* Configurations of the analysis: refresh periods and dates without       *)
(* definitions, dates with a root definition, and definitions without      *)
(* dates: a named root with a named child, and an anonymous one.           *)
EXTENDS PeriodStats

CONSTANTS dRoot, dChild, dAnon, nRoot, nChild

TreeDefs   == {dRoot, dChild, dAnon}
TreeParent == [d \in TreeDefs |-> IF d = dChild THEN dRoot ELSE NoDef]
TreeNames  == [d \in TreeDefs |-> CASE d = dRoot  -> nRoot
                                    [] d = dChild -> nChild
                                    [] d = dAnon  -> Unnamed]

RefreshConfs == [refresh : {NoTs, 0, 1, 2}, begin : {NoTs, 0, 1, 2}, end : {NoTs, 0, 2},
                 defs : {{}}, events : {4}, last : {4}]
DatedConfs   == [refresh : {NoTs}, begin : {NoTs, 1}, end : {NoTs, 2},
                 defs : {{dRoot}}, events : {3}, last : {3}]
TreeConfs    == [refresh : {NoTs}, begin : {NoTs}, end : {NoTs},
                 defs : {TreeDefs}, events : {3}, last : {1}]
AllConfs     == RefreshConfs \cup DatedConfs \cup TreeConfs
=============================================================================

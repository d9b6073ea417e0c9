---------------------------- MODULE PeriodForest ----------------------------
(***************************************************************************)
(* What the period engine promises to its user (README.rst:470-474): the   *)
(* open periods form a forest; "a period can have a parent.  If it's the   *)
(* case, then its parent needs to exist for the period to begin at all".   *)
(* A period is closed exactly once, children before their parent.          *)
(*                                                                         *)
(* A period is named by its path: the sequence of (definition, begin)      *)
(* instances from its root period down to itself.  The path of the parent  *)
(* is the path without its last element; a root period has the empty path  *)
(* as parent.                                                              *)
(***************************************************************************)
EXTENDS Naturals, Sequences, SequencesExt

CONSTANT Instances        \* the steps a path is made of

VARIABLES open,           \* paths of the open periods
          closed          \* paths of the periods that were closed

forestVars == <<open, closed>>

Parent(p) == Front(p)

ForestInit == open = {} /\ closed = {}

\* A new period begins: a root, or a child of a period which exists.
Open(p) ==
    /\ p \notin open \cup closed
    /\ Len(p) > 1 => Parent(p) \in open
    /\ open' = open \cup {p}
    /\ UNCHANGED closed

\* A period without open children is closed.
Close(p) ==
    /\ p \in open
    /\ \A q \in open : Parent(q) # p
    /\ open' = open \ {p}
    /\ closed' = closed \cup {p}

\* The path which is opened is the only one in open' and not in open: naming
\* it this way keeps the quantifier finite for TLC.
ForestNext ==
    \/ \E p \in open' : p \in Seq(Instances) /\ Open(p)
    \/ \E p \in open : Close(p)

ForestSpec == ForestInit /\ [][ForestNext]_forestVars
=============================================================================

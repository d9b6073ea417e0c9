---------------------------- MODULE DataTheorems ---------------------------
(***************************************************************************)
(* Sums of the values of a function over a finite set, as the community    *)
(* modules define them: adding, removing and changing an element, in any   *)
(* order, whatever the order in which the fold takes the elements.  Then   *)
(* lists from which one element is removed, or that get one more,          *)
(* functions defined by recursion on elements that have a depth, and the   *)
(* least and the greatest of finitely many integers.                       *)
(*                                                                         *)
(* The fold is a function defined by recursion on the subsets of the set.  *)
(* That such a function exists, and that its values do not depend on the   *)
(* order, is shown by induction: among the subsets for which the claim is  *)
(* false one would be minimal.                                             *)
(***************************************************************************)
EXTENDS Integers, SequencesExt, FiniteSetTheorems, SequenceTheorems,
        WellFoundedInduction, TLAPS

\* Induction on the subsets of a finite set.
LEMMA MinimalSubset ==
    ASSUME NEW S, IsFiniteSet(S), NEW F, F \subseteq SUBSET S, F # {}
    PROVE  \E X \in F : \A Y \in F : Y \subseteq X => Y = X
<1>1. F \subseteq FiniteSubsetsOf(S)
  BY FS_FiniteSubsetsOfFinite
<1>2. PICK X \in F : \A Y \in F : ~(<<Y, X>> \in StrictSubsetOrdering(S))
  BY <1>1, FS_StrictSubsetOrderingWellFounded, WFMin
<1>3. ASSUME NEW Y \in F, Y \subseteq X
      PROVE  Y = X
  BY <1>2, <1>3 DEF StrictSubsetOrdering
<1> QED BY <1>3

\* The element that the fold takes first, and the function it defines.
First(s) == CHOOSE x \in s : TRUE
Rest(s)  == s \ {First(s)}

Folds(g, f, X) ==
    g = [s \in SUBSET X |-> IF s = {} THEN 0 ELSE f[First(s)] + g[Rest(s)]]

Fold(f, X) == CHOOSE g : Folds(g, f, X)

LEMMA FirstRest ==
    ASSUME NEW s, s # {}
    PROVE  First(s) \in s /\ Rest(s) \subseteq s /\ Rest(s) # s
BY DEF First, Rest

LEMMA FoldsParts ==
    ASSUME NEW f, NEW X, NEW g, Folds(g, f, X)
    PROVE  /\ g[{}] = 0
           /\ \A s \in SUBSET X : s # {} => g[s] = f[First(s)] + g[Rest(s)]
BY DEF Folds

\* Two folds agree where both are defined.
LEMMA FoldsAgree ==
    ASSUME NEW f, NEW X, IsFiniteSet(X), NEW Y, NEW g, NEW h,
           Folds(g, f, X), Folds(h, f, Y), NEW s, s \subseteq X, s \subseteq Y
    PROVE  g[s] = h[s]
<1> DEFINE F == {t \in SUBSET X : t \subseteq Y /\ g[t] # h[t]}
<1>1. SUFFICES ASSUME F # {}
               PROVE  FALSE
  OBVIOUS
<1>0. F \subseteq SUBSET X
  OBVIOUS
<1> HIDE DEF F
<1>2. PICK t \in F : \A u \in F : u \subseteq t => u = t
  BY <1>0, <1>1, MinimalSubset
<1> USE DEF F
<1>3. t # {}
  BY FoldsParts
<1>4. g[t] = f[First(t)] + g[Rest(t)] /\ h[t] = f[First(t)] + h[Rest(t)]
  BY <1>3, FoldsParts
<1>5. g[Rest(t)] = h[Rest(t)]
  BY <1>2, <1>3, FirstRest
<1> QED BY <1>2, <1>4, <1>5

LEMMA FoldExists ==
    ASSUME NEW f, NEW S, IsFiniteSet(S)
    PROVE  Folds(Fold(f, S), f, S)
<1> DEFINE F == {X \in SUBSET S : ~Folds(Fold(f, X), f, X)}
<1>1. SUFFICES ASSUME F # {}
               PROVE  FALSE
  OBVIOUS
<1>0. F \subseteq SUBSET S
  OBVIOUS
<1> HIDE DEF F
<1>2. PICK X \in F : \A Y \in F : Y \subseteq X => Y = X
  BY <1>0, <1>1, MinimalSubset
<1> USE DEF F
<1>3. ASSUME NEW Y \in SUBSET X, Y # X
      PROVE  Folds(Fold(f, Y), f, Y) /\ IsFiniteSet(Y)
  <2>1. Y \in SUBSET S /\ Y \subseteq X
    BY <1>2, <1>3
  <2>2. Y \notin F
    BY <1>2, <1>3, <2>1
  <2> QED BY <2>1, <2>2, FS_Subset
<1> DEFINE val(s) == IF s = {} THEN 0 ELSE f[First(s)] + Fold(f, Rest(s))[Rest(s)]
           g == [s \in SUBSET X |-> val(s)]
<1>4. ASSUME NEW s \in SUBSET X, s # {}
      PROVE  Fold(f, Rest(s))[Rest(s)] = val(Rest(s))
  <2>1. Rest(s) \subseteq X /\ Rest(s) # X
    BY <1>4, FirstRest
  <2>2. CASE Rest(s) = {}
    BY <1>3, <2>1, <2>2, FoldsParts
  <2>3. CASE Rest(s) # {}
    <3> DEFINE t == Rest(s)
    <3>1. t \subseteq X /\ t # X /\ t # {}
      BY <2>1, <2>3
    <3> HIDE DEF t
    <3>2. Rest(t) \subseteq t /\ Rest(t) # t /\ Rest(t) \subseteq X /\ Rest(t) # X
      BY <3>1, FirstRest
    <3>3. Fold(f, t)[t] = f[First(t)] + Fold(f, t)[Rest(t)]
      BY <1>3, <3>1, FoldsParts
    <3>4. Fold(f, t)[Rest(t)] = Fold(f, Rest(t))[Rest(t)]
      BY <1>3, <3>1, <3>2, FoldsAgree
    <3>5. Fold(f, t)[t] = val(t)
      BY <3>1, <3>3, <3>4
    <3> QED BY <3>5 DEF t
  <2> QED BY <2>2, <2>3
<1>5. g = [s \in SUBSET X |-> IF s = {} THEN 0 ELSE f[First(s)] + g[Rest(s)]]
  <2>1. ASSUME NEW s \in SUBSET X
        PROVE  val(s) = IF s = {} THEN 0 ELSE f[First(s)] + g[Rest(s)]
    <3>1. CASE s = {}
      BY <3>1
    <3>2. CASE s # {}
      <4>1. Rest(s) \in SUBSET X
        BY <3>2, FirstRest
      <4>2. g[Rest(s)] = val(Rest(s))
        BY <4>1
      <4>3. val(s) = f[First(s)] + Fold(f, Rest(s))[Rest(s)]
        BY <3>2
      <4> HIDE DEF val, g
      <4> QED BY <1>4, <3>2, <4>2, <4>3
    <3> QED BY <3>1, <3>2
  <2> HIDE DEF val
  <2> QED BY <2>1
<1>6. \E h : Folds(h, f, X)
  BY <1>5 DEF Folds
<1>7. Folds(Fold(f, X), f, X)
  BY <1>6 DEF Fold
<1> QED BY <1>2, <1>7

LEMMA SumIsFold ==
    ASSUME NEW f, NEW S
    PROVE  SumFunctionOnSet(f, S) = Fold(f, S)[S]
BY Zenon DEF SumFunctionOnSet, FoldFunctionOnSet, MapThenFoldSet, Fold, Folds, First, Rest

-----------------------------------------------------------------------------
LEMMA SumEmpty ==
    ASSUME NEW f
    PROVE  SumFunctionOnSet(f, {}) = 0
<1>1. IsFiniteSet({})
  BY FS_EmptySet
<1> QED BY <1>1, SumIsFold, FoldExists, FoldsParts

\* The sum is what the fold computes from the element it takes first...
LEMMA SumFirst ==
    ASSUME NEW f, NEW S, IsFiniteSet(S), S # {}
    PROVE  SumFunctionOnSet(f, S) = f[First(S)] + SumFunctionOnSet(f, Rest(S))
<1>1. Rest(S) \subseteq S /\ IsFiniteSet(Rest(S))
  BY FirstRest, FS_Subset
<1>2. Fold(f, S)[S] = f[First(S)] + Fold(f, S)[Rest(S)]
  BY FoldExists, FoldsParts
<1>3. Fold(f, S)[Rest(S)] = Fold(f, Rest(S))[Rest(S)]
  <2>1. Folds(Fold(f, S), f, S) /\ Folds(Fold(f, Rest(S)), f, Rest(S))
    BY <1>1, FoldExists
  <2> QED BY <1>1, <2>1, FoldsAgree
<1> QED BY <1>2, <1>3, SumIsFold

LEMMA SumInt ==
    ASSUME NEW f, NEW S, IsFiniteSet(S), \A x \in S : f[x] \in Int
    PROVE  SumFunctionOnSet(f, S) \in Int
<1> DEFINE F == {X \in SUBSET S : SumFunctionOnSet(f, X) \notin Int}
<1>1. SUFFICES ASSUME F # {}
               PROVE  FALSE
  OBVIOUS
<1>0. F \subseteq SUBSET S
  OBVIOUS
<1> HIDE DEF F
<1>2. PICK X \in F : \A Y \in F : Y \subseteq X => Y = X
  BY <1>0, <1>1, MinimalSubset
<1> USE DEF F
<1>3. X # {} /\ IsFiniteSet(X)
  <2>1. SumFunctionOnSet(f, X) \notin Int /\ X \subseteq S
    BY <1>2
  <2>2. X # {}
    BY <2>1, SumEmpty
  <2> QED BY <2>1, <2>2, FS_Subset
<1>4. First(X) \in X /\ Rest(X) \in SUBSET S /\ Rest(X) \subseteq X /\ Rest(X) # X
  BY <1>2, <1>3, FirstRest
<1>5. SumFunctionOnSet(f, Rest(X)) \in Int
  BY <1>2, <1>4
<1>6. f[First(X)] \in Int
  BY <1>2, <1>4
<1> QED BY <1>2, <1>3, <1>5, <1>6, SumFirst

\* ... and from any other, since addition commutes.
LEMMA SumRemove ==
    ASSUME NEW f, NEW S, IsFiniteSet(S), \A x \in S : f[x] \in Int, NEW x \in S
    PROVE  SumFunctionOnSet(f, S) = f[x] + SumFunctionOnSet(f, S \ {x})
<1> DEFINE sum(X) == SumFunctionOnSet(f, X)
           F == {X \in SUBSET S : \E y \in X : sum(X) # f[y] + sum(X \ {y})}
<1>1. SUFFICES ASSUME F # {}
               PROVE  FALSE
  OBVIOUS
<1>0. F \subseteq SUBSET S
  OBVIOUS
<1> HIDE DEF F
<1>2. PICK X \in F : \A Y \in F : Y \subseteq X => Y = X
  BY <1>0, <1>1, MinimalSubset
<1> USE DEF F
<1>3. PICK y \in X : sum(X) # f[y] + sum(X \ {y})
  BY <1>2
<1> DEFINE p == First(X)
<1>4. X # {} /\ IsFiniteSet(X) /\ p \in X /\ Rest(X) = X \ {p} /\ X \subseteq S
  BY <1>2, <1>3, FirstRest, FS_Subset DEF Rest
<1>5. sum(X) = f[p] + sum(X \ {p})
  BY <1>4, SumFirst
<1> HIDE DEF p
<1>6. p # y
  BY <1>3, <1>5
<1>7. sum(X \ {p}) = f[y] + sum((X \ {p}) \ {y})
  <2>1. X \ {p} \in SUBSET S /\ X \ {p} \subseteq X /\ X \ {p} # X /\ y \in X \ {p}
    BY <1>3, <1>4, <1>6
  <2> HIDE DEF sum
  <2> QED BY <1>2, <2>1
<1>8. sum(X \ {y}) = f[p] + sum((X \ {y}) \ {p})
  <2>1. X \ {y} \in SUBSET S /\ X \ {y} \subseteq X /\ X \ {y} # X /\ p \in X \ {y}
    BY <1>3, <1>4, <1>6
  <2> HIDE DEF sum
  <2> QED BY <1>2, <2>1
<1>9. (X \ {p}) \ {y} = (X \ {y}) \ {p}
  OBVIOUS
<1>10. f[p] \in Int /\ f[y] \in Int /\ sum((X \ {y}) \ {p}) \in Int
  <2>1. (X \ {y}) \ {p} \subseteq S /\ IsFiniteSet((X \ {y}) \ {p})
    BY <1>4, FS_Subset
  <2> QED BY <1>3, <1>4, <2>1, SumInt
<1>11. sum(X) = f[y] + sum(X \ {y})
  <2> DEFINE r == sum((X \ {y}) \ {p})
  <2>1. sum(X) = f[p] + (f[y] + r) /\ sum(X \ {y}) = f[p] + r
    BY <1>5, <1>7, <1>8, <1>9
  <2> HIDE DEF sum, r
  <2>2. f[p] + (f[y] + r) = f[y] + (f[p] + r)
    BY <1>10 DEF r
  <2> QED BY <2>1, <2>2
<1> QED BY <1>3, <1>11

LEMMA SumAdd ==
    ASSUME NEW f, NEW S, IsFiniteSet(S), NEW x, x \notin S,
           \A y \in S \cup {x} : f[y] \in Int
    PROVE  SumFunctionOnSet(f, S \cup {x}) = f[x] + SumFunctionOnSet(f, S)
<1>1. IsFiniteSet(S \cup {x}) /\ (S \cup {x}) \ {x} = S /\ x \in S \cup {x}
  BY FS_AddElement
<1> QED BY <1>1, SumRemove

\* Functions equal on the set have the same sum.
LEMMA SumSame ==
    ASSUME NEW f, NEW g, NEW S, IsFiniteSet(S), \A x \in S : f[x] = g[x]
    PROVE  SumFunctionOnSet(f, S) = SumFunctionOnSet(g, S)
<1> DEFINE F == {X \in SUBSET S : SumFunctionOnSet(f, X) # SumFunctionOnSet(g, X)}
<1>1. SUFFICES ASSUME F # {}
               PROVE  FALSE
  OBVIOUS
<1>0. F \subseteq SUBSET S
  OBVIOUS
<1> HIDE DEF F
<1>2. PICK X \in F : \A Y \in F : Y \subseteq X => Y = X
  BY <1>0, <1>1, MinimalSubset
<1> USE DEF F
<1>3. X # {} /\ IsFiniteSet(X)
  BY <1>0, <1>2, SumEmpty, FS_Subset
<1>4. First(X) \in X /\ Rest(X) \in SUBSET S /\ Rest(X) \subseteq X /\ Rest(X) # X
  BY <1>2, <1>3, FirstRest
<1>5. SumFunctionOnSet(f, Rest(X)) = SumFunctionOnSet(g, Rest(X))
  BY <1>2, <1>4
<1>6. f[First(X)] = g[First(X)]
  BY <1>2, <1>4
<1> QED BY <1>2, <1>3, <1>5, <1>6, SumFirst

\* The value of one element changes.
LEMMA SumChange ==
    ASSUME NEW f, NEW g, NEW S, IsFiniteSet(S), NEW x \in S,
           \A y \in S : f[y] \in Int /\ g[y] \in Int,
           \A y \in S \ {x} : g[y] = f[y]
    PROVE  SumFunctionOnSet(g, S) = SumFunctionOnSet(f, S) + (g[x] - f[x])
<1>1. IsFiniteSet(S \ {x})
  BY FS_Subset
<1>2. SumFunctionOnSet(f, S) = f[x] + SumFunctionOnSet(f, S \ {x})
  BY SumRemove
<1>3. SumFunctionOnSet(g, S) = g[x] + SumFunctionOnSet(g, S \ {x})
  BY SumRemove
<1>4. SumFunctionOnSet(f, S \ {x}) = SumFunctionOnSet(g, S \ {x})
  BY <1>1, SumSame
<1>5. SumFunctionOnSet(f, S \ {x}) \in Int
  BY <1>1, SumInt
<1> QED BY <1>2, <1>3, <1>4, <1>5

LEMMA SumNat ==
    ASSUME NEW f, NEW S, IsFiniteSet(S), \A x \in S : f[x] \in Nat
    PROVE  SumFunctionOnSet(f, S) \in Nat
<1> DEFINE F == {X \in SUBSET S : SumFunctionOnSet(f, X) \notin Nat}
<1>1. SUFFICES ASSUME F # {}
               PROVE  FALSE
  OBVIOUS
<1>0. F \subseteq SUBSET S
  OBVIOUS
<1> HIDE DEF F
<1>2. PICK X \in F : \A Y \in F : Y \subseteq X => Y = X
  BY <1>0, <1>1, MinimalSubset
<1> USE DEF F
<1>3. X # {} /\ IsFiniteSet(X)
  <2>1. SumFunctionOnSet(f, X) \notin Nat /\ X \subseteq S
    BY <1>2
  <2>2. X # {}
    BY <2>1, SumEmpty
  <2> QED BY <2>1, <2>2, FS_Subset
<1>4. First(X) \in X /\ Rest(X) \in SUBSET S /\ Rest(X) \subseteq X /\ Rest(X) # X
  BY <1>2, <1>3, FirstRest
<1>5. SumFunctionOnSet(f, Rest(X)) \in Nat
  BY <1>2, <1>4
<1>6. f[First(X)] \in Nat
  BY <1>2, <1>4
<1> QED BY <1>2, <1>3, <1>5, <1>6, SumFirst

\* A function with one more argument.
LEMMA SumMore ==
    ASSUME NEW f, NEW g, NEW x, x \notin DOMAIN f, IsFiniteSet(DOMAIN f),
           DOMAIN g = DOMAIN f \cup {x}, g[x] \in Int,
           \A y \in DOMAIN f : f[y] \in Int /\ g[y] = f[y]
    PROVE  SumFunction(g) = SumFunction(f) + g[x]
<1> DEFINE S == DOMAIN f
<1>1. SumFunctionOnSet(g, S \cup {x}) = g[x] + SumFunctionOnSet(g, S)
  BY SumAdd
<1>2. SumFunctionOnSet(g, S) = SumFunctionOnSet(f, S)
  BY SumSame
<1>3. SumFunctionOnSet(f, S) \in Int
  BY SumInt
<1> QED BY <1>1, <1>2, <1>3 DEF SumFunction

\* A function with a new value of one element, which it had or had not.
LEMMA SumPut ==
    ASSUME NEW f, NEW g, NEW x, IsFiniteSet(DOMAIN f),
           DOMAIN g = DOMAIN f \cup {x}, g[x] \in Int,
           \A y \in DOMAIN f : f[y] \in Int, \A y \in DOMAIN f \ {x} : g[y] = f[y]
    PROVE  SumFunction(g) = SumFunction(f) + g[x] - (IF x \in DOMAIN f THEN f[x] ELSE 0)
<1> DEFINE S == DOMAIN f
<1>1. SumFunctionOnSet(f, S) \in Int
  BY SumInt
<1>2. CASE x \in S
  <2>1. DOMAIN g = S /\ \A y \in S : f[y] \in Int /\ g[y] \in Int
    BY <1>2
  <2>2. SumFunctionOnSet(g, S) = SumFunctionOnSet(f, S) + (g[x] - f[x])
    BY <1>2, <2>1, SumChange
  <2> QED BY <1>1, <1>2, <2>1, <2>2 DEF SumFunction
<1>3. CASE x \notin S
  <2>1. \A y \in S : f[y] \in Int /\ g[y] = f[y]
    BY <1>3
  <2>2. SumFunction(g) = SumFunction(f) + g[x]
    BY <1>3, <2>1, SumMore
  <2> QED BY <1>1, <1>3, <2>2 DEF SumFunction
<1> QED BY <1>2, <1>3

\* The sum over two sets without a common element.
LEMMA SumUnion ==
    ASSUME NEW f, NEW A, NEW S, IsFiniteSet(A), IsFiniteSet(S), A \cap S = {},
           \A x \in A \cup S : f[x] \in Int
    PROVE  SumFunctionOnSet(f, A \cup S) = SumFunctionOnSet(f, A) + SumFunctionOnSet(f, S)
<1> DEFINE sum(X) == SumFunctionOnSet(f, X)
           F == {X \in SUBSET S : sum(A \cup X) # sum(A) + sum(X)}
<1>1. SUFFICES ASSUME F # {}
               PROVE  FALSE
  OBVIOUS
<1>0. F \subseteq SUBSET S
  OBVIOUS
<1> HIDE DEF F
<1>2. PICK X \in F : \A Y \in F : Y \subseteq X => Y = X
  BY <1>0, <1>1, MinimalSubset
<1> USE DEF F
<1>3. X \subseteq S /\ IsFiniteSet(X) /\ sum(A \cup X) # sum(A) + sum(X)
  BY <1>0, <1>2, FS_Subset
<1>4. sum(A) \in Int
  BY SumInt
<1>5. X # {}
  BY <1>3, <1>4, SumEmpty
<1>6. PICK x \in X : TRUE
  BY <1>5
<1> DEFINE R == X \ {x}
<1>7. sum(X) = f[x] + sum(R) /\ sum(R) \in Int /\ f[x] \in Int
  <2>1. \A y \in X : f[y] \in Int
    BY <1>3
  <2>2. IsFiniteSet(R)
    BY <1>3, FS_Subset
  <2>3. sum(X) = f[x] + sum(R)
    BY <1>3, <2>1, SumRemove
  <2> QED BY <2>1, <2>2, <2>3, SumInt
<1>8. sum(A \cup X) = f[x] + sum(A \cup R)
  <2>1. IsFiniteSet(A \cup X)
    BY <1>3, FS_Union
  <2>2. (A \cup X) \ {x} = A \cup R
    BY <1>3
  <2>3. \A y \in A \cup X : f[y] \in Int
    BY <1>3
  <2>4. sum(A \cup X) = f[x] + sum((A \cup X) \ {x})
    BY <2>1, <2>3, SumRemove
  <2> QED BY <2>2, <2>4
<1>9. sum(A \cup R) = sum(A) + sum(R)
  <2>1. R \in SUBSET S /\ R \subseteq X /\ R # X
    BY <1>3
  <2>2. R \notin F
    BY <1>2, <2>1
  <2> QED BY <2>1, <2>2
<1> HIDE DEF F, R, sum
<1>10. sum(A \cup X) = sum(A) + sum(X)
  BY <1>4, <1>7, <1>8, <1>9
<1> QED BY <1>3, <1>10

\* The sum of the differences.
LEMMA SumMinus ==
    ASSUME NEW f, NEW g, NEW h, NEW S, IsFiniteSet(S),
           \A x \in S : f[x] \in Int /\ g[x] \in Int /\ h[x] = f[x] - g[x]
    PROVE  SumFunctionOnSet(h, S) = SumFunctionOnSet(f, S) - SumFunctionOnSet(g, S)
<1> DEFINE F == {X \in SUBSET S : SumFunctionOnSet(h, X) #
                                    SumFunctionOnSet(f, X) - SumFunctionOnSet(g, X)}
<1>1. SUFFICES ASSUME F # {}
               PROVE  FALSE
  OBVIOUS
<1>0. F \subseteq SUBSET S
  OBVIOUS
<1> HIDE DEF F
<1>2. PICK X \in F : \A Y \in F : Y \subseteq X => Y = X
  BY <1>0, <1>1, MinimalSubset
<1> USE DEF F
<1>3. X # {} /\ IsFiniteSet(X)
  <2>1. SumFunctionOnSet(f, {}) = 0 /\ SumFunctionOnSet(g, {}) = 0 /\ SumFunctionOnSet(h, {}) = 0
    BY SumEmpty
  <2>2. 0 = 0 - 0
    OBVIOUS
  <2>3. SumFunctionOnSet(h, X) # SumFunctionOnSet(f, X) - SumFunctionOnSet(g, X)
    BY <1>2
  <2>4. X # {}
    BY <2>1, <2>2, <2>3
  <2> QED BY <1>0, <1>2, <2>4, FS_Subset
<1>4. First(X) \in X /\ Rest(X) \in SUBSET S /\ Rest(X) \subseteq X /\ Rest(X) # X
  BY <1>2, <1>3, FirstRest
<1>5. SumFunctionOnSet(h, Rest(X)) = SumFunctionOnSet(f, Rest(X)) - SumFunctionOnSet(g, Rest(X))
  BY <1>2, <1>4
<1>6. /\ f[First(X)] \in Int /\ g[First(X)] \in Int
      /\ h[First(X)] = f[First(X)] - g[First(X)]
  BY <1>2, <1>4
<1>7. SumFunctionOnSet(f, Rest(X)) \in Int /\ SumFunctionOnSet(g, Rest(X)) \in Int
  <2>1. IsFiniteSet(Rest(X)) /\ \A x \in Rest(X) : f[x] \in Int /\ g[x] \in Int
    BY <1>3, <1>4, FS_Subset
  <2> QED BY <2>1, SumInt
<1>8. /\ SumFunctionOnSet(f, X) = f[First(X)] + SumFunctionOnSet(f, Rest(X))
      /\ SumFunctionOnSet(g, X) = g[First(X)] + SumFunctionOnSet(g, Rest(X))
      /\ SumFunctionOnSet(h, X) = h[First(X)] + SumFunctionOnSet(h, Rest(X))
  BY <1>3, SumFirst
<1>9. SumFunctionOnSet(h, X) = SumFunctionOnSet(f, X) - SumFunctionOnSet(g, X)
  BY <1>5, <1>6, <1>7, <1>8
<1> QED BY <1>2, <1>9

LEMMA SumZero ==
    ASSUME NEW f, NEW S, IsFiniteSet(S), \A x \in S : f[x] = 0
    PROVE  SumFunctionOnSet(f, S) = 0
<1>1. PICK z : z = [x \in S |-> 0]
  OBVIOUS
<1>2. \A x \in S : f[x] \in Int /\ z[x] \in Int /\ z[x] = f[x] - f[x] /\ z[x] = f[x]
  BY <1>1
<1>3. SumFunctionOnSet(z, S) = SumFunctionOnSet(f, S) - SumFunctionOnSet(f, S)
  BY <1>2, SumMinus
<1>4. SumFunctionOnSet(z, S) = SumFunctionOnSet(f, S) /\ SumFunctionOnSet(f, S) \in Int
  BY <1>2, SumSame, SumInt
<1> QED BY <1>3, <1>4

-----------------------------------------------------------------------------
(* A list without its only occurrence of a value.                          *)

LEMMA RemoveAtParts ==
    ASSUME NEW S, NEW s \in Seq(S), NEW k \in 1 .. Len(s)
    PROVE  /\ RemoveAt(s, k) \in Seq(S)
           /\ Len(RemoveAt(s, k)) = Len(s) - 1
           /\ \A i \in 1 .. Len(s) - 1 :
                RemoveAt(s, k)[i] = IF i < k THEN s[i] ELSE s[i + 1]
<1> DEFINE a == SubSeq(s, 1, k - 1)
           b == SubSeq(s, k + 1, Len(s))
<1>1. /\ Len(s) \in Nat /\ k \in Nat /\ 1 <= k /\ k <= Len(s)
      /\ k - 1 \in Int /\ k + 1 \in Int /\ Len(s) \in Int /\ 1 \in Int
      /\ \A i \in 1 .. Len(s) : s[i] \in S
  OBVIOUS
<1>2. /\ a \in Seq(S)
      /\ Len(a) = IF 1 <= k - 1 THEN (k - 1) - 1 + 1 ELSE 0
      /\ \A i \in 1 .. (k - 1) - 1 + 1 : a[i] = s[1 + i - 1]
  <2>1. \A i \in 1 .. k - 1 : s[i] \in S
    BY <1>1
  <2> QED BY <1>1, <2>1, SubSeqProperties
<1>3. /\ b \in Seq(S)
      /\ Len(b) = IF k + 1 <= Len(s) THEN Len(s) - (k + 1) + 1 ELSE 0
      /\ \A i \in 1 .. Len(s) - (k + 1) + 1 : b[i] = s[(k + 1) + i - 1]
  <2>1. \A i \in k + 1 .. Len(s) : s[i] \in S
    BY <1>1
  <2> QED BY <1>1, <2>1, SubSeqProperties
<1>4. Len(a) = k - 1 /\ Len(b) = Len(s) - k
  BY <1>1, <1>2, <1>3
<1> HIDE DEF a, b
<1>5. /\ a \o b \in Seq(S)
      /\ Len(a \o b) = Len(s) - 1
      /\ \A i \in 1 .. Len(s) - 1 : (a \o b)[i] = IF i <= k - 1 THEN a[i] ELSE b[i - (k - 1)]
  <2>1. /\ a \o b \in Seq(S)
        /\ Len(a \o b) = Len(a) + Len(b)
        /\ \A i \in 1 .. Len(a) + Len(b) :
             (a \o b)[i] = IF i <= Len(a) THEN a[i] ELSE b[i - Len(a)]
    BY <1>2, <1>3, ConcatProperties
  <2> QED BY <1>1, <1>4, <2>1
<1>6. RemoveAt(s, k) = a \o b
  BY DEF RemoveAt, a, b
<1>7. ASSUME NEW i \in 1 .. Len(s) - 1
      PROVE  (a \o b)[i] = IF i < k THEN s[i] ELSE s[i + 1]
  <2>1. CASE i < k
    BY <1>1, <1>2, <1>5, <2>1
  <2>2. CASE ~(i < k)
    <3>1. i - (k - 1) \in 1 .. Len(s) - (k + 1) + 1
      BY <1>1, <2>2
    <3>2. (a \o b)[i] = b[i - (k - 1)]
      BY <1>1, <1>5, <2>2
    <3>3. b[i - (k - 1)] = s[(k + 1) + (i - (k - 1)) - 1]
      BY <1>3, <3>1
    <3>4. (k + 1) + (i - (k - 1)) - 1 = i + 1
      BY <1>1
    <3> QED BY <2>2, <3>2, <3>3, <3>4
  <2> QED BY <2>1, <2>2
<1> QED BY <1>5, <1>6, <1>7

LEMMA OnlyIndex ==
    ASSUME NEW I, NEW k \in Int, I = {k} PROVE Min(I) = k
BY DEF Min

\* What is left is the rest, still without duplicates.
LEMMA RemoveOnly ==
    ASSUME NEW S, NEW s \in Seq(S), NEW e \in S,
           \E i \in 1 .. Len(s) : s[i] = e,
           \A i, j \in 1 .. Len(s) : s[i] = s[j] => i = j
    PROVE  LET r == RemoveFirst(s, e) IN
           /\ r \in Seq(S)
           /\ \A i, j \in 1 .. Len(r) : r[i] = r[j] => i = j
           /\ \A i \in 1 .. Len(r) : r[i] # e /\ \E n \in 1 .. Len(s) : s[n] = r[i]
           /\ \A n \in 1 .. Len(s) : s[n] # e => \E i \in 1 .. Len(r) : r[i] = s[n]
<1> DEFINE r == RemoveFirst(s, e)
<1> HIDE DEF r
<1>1. PICK k \in 1 .. Len(s) : s[k] = e
  OBVIOUS
<1>2. Len(s) \in Nat /\ k \in Int
  OBVIOUS
<1>3. {i \in 1 .. Len(s) : s[i] = e} = {k}
  BY <1>1
<1>4. SelectInSeq(s, LAMBDA v : v = e) = k
  BY <1>2, <1>3, OnlyIndex DEF SelectInSeq
<1> DEFINE q == RemoveAt(s, k)
<1>5. r = q
  BY <1>1, <1>4 DEF RemoveFirst, r
<1>6. /\ r \in Seq(S) /\ Len(r) = Len(s) - 1
      /\ \A i \in 1 .. Len(s) - 1 : r[i] = IF i < k THEN s[i] ELSE s[i + 1]
  <2>1. /\ q \in Seq(S) /\ Len(q) = Len(s) - 1
        /\ \A i \in 1 .. Len(s) - 1 : q[i] = IF i < k THEN s[i] ELSE s[i + 1]
    BY RemoveAtParts
  <2> HIDE DEF q
  <2> QED BY <1>5, <2>1
<1>7. ASSUME NEW i \in 1 .. Len(r), NEW j \in 1 .. Len(r), r[i] = r[j] PROVE i = j
  <2> DEFINE x(n) == IF n < k THEN n ELSE n + 1
  <2>1. /\ x(i) \in 1 .. Len(s) /\ x(j) \in 1 .. Len(s)
        /\ r[i] = s[x(i)] /\ r[j] = s[x(j)]
    BY <1>2, <1>6
  <2>2. x(i) = x(j)
    BY <1>7, <2>1
  <2> QED BY <1>2, <1>6, <2>2
<1>8. ASSUME NEW i \in 1 .. Len(r) PROVE r[i] # e /\ \E n \in 1 .. Len(s) : s[n] = r[i]
  <2> DEFINE x == IF i < k THEN i ELSE i + 1
  <2>1. x \in 1 .. Len(s) /\ r[i] = s[x] /\ x # k
    BY <1>2, <1>6
  <2> QED BY <1>1, <2>1
<1>9. ASSUME NEW n \in 1 .. Len(s), s[n] # e PROVE \E i \in 1 .. Len(r) : r[i] = s[n]
  <2>1. CASE n < k
    BY <1>2, <1>6, <2>1
  <2>2. CASE n > k
    <3>1. n - 1 \in 1 .. Len(s) - 1 /\ ~(n - 1 < k) /\ (n - 1) + 1 = n
      BY <1>2, <2>2
    <3>2. r[n - 1] = s[n]
      BY <1>6, <3>1
    <3> QED BY <1>6, <3>1, <3>2
  <2> QED BY <1>1, <1>2, <1>9, <2>1, <2>2
<1> QED BY <1>6, <1>7, <1>8, <1>9 DEF r

\* A list without duplicates has as many elements as its set.
LEMMA AllDifferent ==
    ASSUME NEW S, NEW s \in Seq(S), \A i, j \in 1 .. Len(s) : s[i] = s[j] => i = j
    PROVE  Len(s) = Cardinality({s[i] : i \in 1 .. Len(s)})
<1> DEFINE T == {s[i] : i \in 1 .. Len(s)}
           f == [i \in 1 .. Len(s) |-> s[i]]
<1>1. Len(s) \in Nat
  OBVIOUS
<1>2. f \in Bijection(1 .. Len(s), T)
  <2>1. f \in [1 .. Len(s) -> T]
    OBVIOUS
  <2>2. \A i, j \in 1 .. Len(s) : f[i] = f[j] => i = j
    OBVIOUS
  <2>3. \A t \in T : \E i \in 1 .. Len(s) : f[i] = t
    OBVIOUS
  <2> QED BY <2>1, <2>2, <2>3 DEF Bijection, Injection, Surjection, IsInjective
<1>3. ExistsBijection(1 .. Len(s), T)
  BY <1>2 DEF ExistsBijection
<1> QED BY <1>1, <1>3, FS_CountingElements

\* A list and its set of elements, one longer.
LEMMA ListMore ==
    ASSUME NEW S, NEW s \in Seq(S), NEW p \in S, NEW T, p \notin T,
           {s[i] : i \in 1 .. Len(s)} = T,
           \A i, j \in 1 .. Len(s) : s[i] = s[j] => i = j
    PROVE  LET r == Append(s, p) IN
           /\ {r[i] : i \in 1 .. Len(r)} = T \cup {p}
           /\ \A i, j \in 1 .. Len(r) : r[i] = r[j] => i = j
<1> DEFINE r == Append(s, p)
<1>1. /\ Len(s) \in Nat /\ Len(r) = Len(s) + 1 /\ r[Len(s) + 1] = p
      /\ \A i \in 1 .. Len(s) : r[i] = s[i] /\ s[i] # p
  OBVIOUS
<1> HIDE DEF r
<1>2. {r[i] : i \in 1 .. Len(r)} = T \cup {p}
  <2>1. ASSUME NEW i \in 1 .. Len(r) PROVE r[i] \in T \cup {p}
    BY <1>1
  <2>2. ASSUME NEW x \in T \cup {p} PROVE \E i \in 1 .. Len(r) : r[i] = x
    BY <1>1
  <2> QED BY <2>1, <2>2
<1>3. \A i, j \in 1 .. Len(r) : r[i] = r[j] => i = j
  BY <1>1
<1> QED BY <1>2, <1>3 DEF r

-----------------------------------------------------------------------------
(* Functions defined by recursion on a set whose elements have a depth.    *)

\* The least element of a set of elements with a depth.
LEMMA LeastDepth ==
    ASSUME NEW S, NEW D \in [S -> Nat], NEW F, F \subseteq S, F # {}
    PROVE  \E e \in F : \A f \in S : D[f] < D[e] => f \notin F
<1> DEFINE T == {D[e] : e \in F}
<1>1. T \subseteq Nat /\ T # {}
  OBVIOUS
<1>2. PICK n \in T : \A m \in T : ~(<<m, n>> \in OpToRel(<, Nat))
  BY <1>1, NatLessThanWellFounded, WFMin
<1>3. \A m \in T : ~(m < n)
  BY <1>1, <1>2 DEF OpToRel
<1>4. PICK e \in F : D[e] = n
  BY <1>2
<1> QED BY <1>3, <1>4

\* What h is below the depth n, if G computes an element of it from those
\* that are less deep.
Solves(S, D, G, h, n) == \A e \in S : D[e] < n => h[e] = G[<<e, h>>]

\* G looks at less deep elements only.
Local(S, D, V, G) ==
    \A e \in S, g \in [S -> V], h \in [S -> V] :
        (\A f \in S : D[f] < D[e] => g[f] = h[f]) => G[<<e, g>>] = G[<<e, h>>]

\* The equation has one solution, as far as it holds.
LEMMA SolutionsAgree ==
    ASSUME NEW S, NEW D \in [S -> Nat], NEW V, NEW G, Local(S, D, V, G),
           NEW g \in [S -> V], NEW h \in [S -> V], NEW n \in Nat,
           Solves(S, D, G, g, n), Solves(S, D, G, h, n)
    PROVE  \A e \in S : D[e] < n => g[e] = h[e]
<1> DEFINE F == {e \in S : D[e] < n /\ g[e] # h[e]}
<1>1. SUFFICES ASSUME F # {} PROVE FALSE
  OBVIOUS
<1>2. PICK e \in F : \A f \in S : D[f] < D[e] => f \notin F
  <2>1. F \subseteq S
    OBVIOUS
  <2> HIDE DEF F
  <2> QED BY <1>1, <2>1, LeastDepth
<1>3. \A f \in S : D[f] < D[e] => g[f] = h[f]
  BY <1>2
<1>4. G[<<e, g>>] = G[<<e, h>>]
  BY <1>3 DEF Local
<1>5. g[e] = G[<<e, g>>] /\ h[e] = G[<<e, h>>]
  BY DEF Solves
<1> QED BY <1>2, <1>4, <1>5

\* A function that solves the equation up to a depth can be made to solve it
\* one level deeper.
LEMMA SolutionGrows ==
    ASSUME NEW S, NEW D \in [S -> Nat], NEW V, NEW G \in [S \X [S -> V] -> V],
           Local(S, D, V, G),
           NEW h \in [S -> V], NEW n \in Nat, Solves(S, D, G, h, n)
    PROVE  \E g \in [S -> V] : Solves(S, D, G, g, n + 1)
<1>1. PICK g : g = [e \in S |-> IF D[e] <= n THEN G[<<e, h>>] ELSE h[e]]
  OBVIOUS
<1>2. g \in [S -> V]
  BY <1>1
<1>3. \A e \in S : D[e] < n => g[e] = h[e]
  BY <1>1 DEF Solves
<1>4. ASSUME NEW e \in S, D[e] < n + 1 PROVE g[e] = G[<<e, g>>]
  <2>1. \A f \in S : D[f] < D[e] => g[f] = h[f]
    BY <1>3, <1>4
  <2>2. G[<<e, g>>] = G[<<e, h>>]
    BY <1>2, <2>1 DEF Local
  <2>3. D[e] <= n
    BY <1>4
  <2> QED BY <1>1, <2>2, <2>3
<1> QED BY <1>2, <1>4 DEF Solves

\* So there is one for any depth.
LEMMA SolutionUpTo ==
    ASSUME NEW S, NEW D \in [S -> Nat], NEW V, NEW G \in [S \X [S -> V] -> V],
           Local(S, D, V, G), V # {}
    PROVE  \A n \in Nat : \E h \in [S -> V] : Solves(S, D, G, h, n)
<1> DEFINE F == {n \in Nat : ~\E h \in [S -> V] : Solves(S, D, G, h, n)}
<1>1. SUFFICES ASSUME F # {} PROVE FALSE
  OBVIOUS
<1>2. PICK n \in F : \A m \in F : ~(m < n)
  <2>1. F \subseteq Nat
    OBVIOUS
  <2> HIDE DEF F
  <2>2. PICK n \in F : \A m \in F : ~(<<m, n>> \in OpToRel(<, Nat))
    BY <1>1, <2>1, NatLessThanWellFounded, WFMin
  <2> QED BY <2>1, <2>2 DEF OpToRel
<1>3. CASE n = 0
  <2>1. PICK v \in V : TRUE
    OBVIOUS
  <2>2. [e \in S |-> v] \in [S -> V]
    OBVIOUS
  <2>3. Solves(S, D, G, [e \in S |-> v], n)
    BY <1>3 DEF Solves
  <2> QED BY <2>2, <2>3
<1>4. CASE n # 0
  <2>1. n - 1 \in Nat /\ n - 1 < n /\ (n - 1) + 1 = n
    BY <1>4
  <2>2. PICK h \in [S -> V] : Solves(S, D, G, h, n - 1)
    BY <1>2, <2>1
  <2>3. PICK g \in [S -> V] : Solves(S, D, G, g, (n - 1) + 1)
    BY <2>1, <2>2, SolutionGrows
  <2> QED BY <2>1, <2>3
<1> QED BY <1>3, <1>4

\* What a definition by recursion on the depth asks for, and what it defines.
Recursive(S, D, V, G) ==
    /\ D \in [S -> Nat] /\ V # {}
    /\ G \in [S \X [S -> V] -> V]
    /\ Local(S, D, V, G)

Solution(S, V, G, h) == h \in [S -> V] /\ \A e \in S : h[e] = G[<<e, h>>]

LEMMA Recursion ==
    ASSUME NEW S, NEW D, NEW V, NEW G, Recursive(S, D, V, G)
    PROVE  \E h : Solution(S, V, G, h)
<1> SUFFICES ASSUME D \in [S -> Nat], V # {}, G \in [S \X [S -> V] -> V],
                    Local(S, D, V, G)
             PROVE  \E h : Solution(S, V, G, h)
  BY DEF Recursive
<1> DEFINE sol(n) == CHOOSE h \in [S -> V] : Solves(S, D, G, h, n)
<1>1. ASSUME NEW n \in Nat
      PROVE  sol(n) \in [S -> V] /\ Solves(S, D, G, sol(n), n)
  BY SolutionUpTo
<1> HIDE DEF sol
<1>2. PICK h : h = [e \in S |-> sol(D[e] + 1)[e]]
  OBVIOUS
<1>3. h \in [S -> V]
  BY <1>1, <1>2
<1>4. ASSUME NEW e \in S PROVE h[e] = G[<<e, h>>]
  <2> DEFINE g == sol(D[e] + 1)
  <2>1. D[e] + 1 \in Nat /\ D[e] < D[e] + 1
    OBVIOUS
  <2>2. g \in [S -> V] /\ Solves(S, D, G, g, D[e] + 1)
    BY <1>1, <2>1
  <2>3. ASSUME NEW f \in S, D[f] < D[e] PROVE h[f] = g[f]
    <3>1. D[f] + 1 \in Nat /\ D[f] < D[f] + 1 /\ D[f] + 1 <= D[e] + 1
      BY <2>3
    <3>2. sol(D[f] + 1) \in [S -> V] /\ Solves(S, D, G, sol(D[f] + 1), D[f] + 1)
      BY <1>1, <3>1
    <3>3. Solves(S, D, G, g, D[f] + 1)
      <4>1. \A c \in S : D[c] < D[f] + 1 => D[c] < D[e] + 1
        BY <3>1
      <4> HIDE DEF g
      <4> QED BY <2>2, <4>1 DEF Solves
    <3>4. sol(D[f] + 1)[f] = g[f]
      <4> HIDE DEF g
      <4> QED BY <2>2, <3>1, <3>2, <3>3, SolutionsAgree
    <3> QED BY <1>2, <3>4
  <2>4. g[e] = G[<<e, g>>]
    BY <2>1, <2>2 DEF Solves
  <2>5. G[<<e, g>>] = G[<<e, h>>]
    <3> HIDE DEF g
    <3> QED BY <1>3, <2>2, <2>3 DEF Local
  <2> QED BY <1>2, <2>4, <2>5
<1> QED BY <1>3, <1>4 DEF Solution

\* A finite set of integers has a least and a greatest element.
LEMMA LeastAndGreatest ==
  ASSUME NEW S, IsFiniteSet(S), S # {}, \A x \in S : x \in Int
  PROVE  /\ Min(S) \in S /\ \A x \in S : Min(S) <= x
         /\ Max(S) \in S /\ \A x \in S : x <= Max(S)
<1>0. IsFiniteSet(S)
  OBVIOUS
<1> DEFINE Between(X) == \E a, b \in X : \A x \in X : a <= x /\ x <= b
           F == {X \in SUBSET S : X # {} /\ ~Between(X)}
<1>1. F = {}
  <2>1. SUFFICES ASSUME F # {} PROVE FALSE
    OBVIOUS
  <2>2. PICK X \in F : \A Y \in F : Y \subseteq X => Y = X
    <3>1. F \subseteq SUBSET S
      OBVIOUS
    <3> HIDE DEF F, Between
    <3> QED
      BY <1>0, <2>1, <3>1, MinimalSubset
  <2>3. X \subseteq Int /\ X # {} /\ ~Between(X) /\ X \subseteq S
    BY <2>2
  <2>4. PICK p : p \in X
    BY <2>3
  <2>5. CASE X \ {p} = {}
    <3>1. \A x \in X : x = p
      BY <2>5
    <3>2. Between(X)
      BY <2>3, <2>4, <3>1
    <3> QED
      BY <2>3, <3>2
  <2>6. CASE X \ {p} # {}
    <3>1. Between(X \ {p})
      <4>1. X \ {p} \subseteq S
        BY <2>3
      <4>2. X \ {p} \notin F
        BY <2>2, <2>4, X \ {p} \subseteq X, p \notin X \ {p}
      <4> QED
        BY <2>6, <4>1, <4>2
    <3>2. PICK a \in X \ {p}, b \in X \ {p} : \A x \in X \ {p} : a <= x /\ x <= b
      BY <3>1
    <3>3. a \in Int /\ b \in Int /\ p \in Int /\ X \subseteq Int
      BY <2>3, <2>4
    <3>4. PICK c \in X : c <= p /\ c <= a
      BY <2>4, <3>3
    <3>5. PICK d \in X : p <= d /\ b <= d
      BY <2>4, <3>3
    <3>6. ASSUME NEW x \in X PROVE c <= x /\ x <= d
      <4>1. x \in Int /\ c \in Int /\ d \in Int
        BY <3>3
      <4>2. x = p \/ (a <= x /\ x <= b)
        BY <3>2
      <4>3. /\ c <= p /\ c <= a /\ p <= d /\ b <= d
            /\ a \in Int /\ b \in Int /\ p \in Int
        BY <3>3, <3>4, <3>5
      <4> HIDE DEF F, Between
      <4>4. CASE x = p
        BY <4>3, <4>4
      <4>5. CASE a <= x /\ x <= b
        BY <4>1, <4>3, <4>5
      <4> QED
        BY <4>2, <4>4, <4>5
    <3> QED
      BY <2>3, <3>6
  <2> QED
    BY <2>5, <2>6
<1>2. Between(S)
  BY <1>1
<1>3. PICK a \in S, b \in S : \A x \in S : a <= x /\ x <= b
  BY <1>2
<1>4. Min(S) \in S /\ \A x \in S : Min(S) <= x
  BY <1>3 DEF Min
<1>5. Max(S) \in S /\ \A x \in S : Max(S) >= x
  <2>1. \E x \in S : \A y \in S : x >= y
    BY <1>3
  <2> QED
    BY <2>1 DEF Max
<1> QED
  BY <1>4, <1>5
=============================================================================

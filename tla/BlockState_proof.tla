-------------------------- MODULE BlockState_proof --------------------------
(***************************************************************************)
(* The requests of the block provider, for any devices, sectors and        *)
(* layers. No request is pending twice nor notified twice, whatever the    *)
(* trace: the issue dates identify the requests.                           *)
(*                                                                         *)
(* In a complete trace the remappings are those of the bios in flight, at  *)
(* distinct places, so that the walk of the list finds the one of a bio,   *)
(* and a completion finds the request of its own issue if the volumes are  *)
(* not striped.                                                            *)
(***************************************************************************)
EXTENDS BlockState, DataTheorems

\* The issues are in the past.
Dated ==
    /\ now \in Nat
    /\ reported \subseteq 0 .. now
    /\ \A k \in DOMAIN pending : pending[k].begin \in 0 .. now

BlockInv == Dated /\ RequestsAreDistinct

LEMMA InitBlockInv == BlockInit => BlockInv
BY SMT DEF BlockInit, BlockInv, Dated, RequestsAreDistinct

\* What adds no request keeps the invariant while time passes.
LEMMA OtherEvents ==
  ASSUME BlockInv, UNCHANGED <<pending, reported>>, now' \in {now, now + 1}
  PROVE  BlockInv'
<1>1. now \in Nat /\ now' \in Nat /\ now <= now'
  BY SMT DEF BlockInv, Dated
<1>2. 0 .. now \subseteq 0 .. now'
  BY <1>1, SMT
<1>3. Dated'
  BY <1>1, <1>2 DEF BlockInv, Dated
<1>4. RequestsAreDistinct'
  BY DEF BlockInv, RequestsAreDistinct
<1> QED
  BY <1>3, <1>4 DEF BlockInv

\* The issue replaces a request of the same sector, if any: the date of the new
\* one is later than all others.
LEMMA IssueKeepsInv ==
  ASSUME BlockInv, NEW place, NEW size, Issue(place, size)
  PROVE  BlockInv'
<1>1. CASE size = 0
  <2>1. UNCHANGED <<pending, reported>> /\ now' = now + 1
    BY <1>1 DEF Issue, Tick, TraceIssue, NoReport
  <2> QED
    BY <2>1, OtherEvents
<1>2. CASE size # 0
  <2> DEFINE key == <<DiskOf(place), place.sector>>
             new == [begin |-> now', size |-> size]
  <2>1. /\ pending' = Put(pending, key, new) /\ reported' = reported
        /\ now' = now + 1
    BY <1>2 DEF Issue, Tick, TraceIssue, NoReport
  <2>2. new.begin = now'
    OBVIOUS
  <2> HIDE DEF key, new
  <2>3. /\ DOMAIN pending' = DOMAIN pending \cup {key}
        /\ pending'[key] = new
        /\ \A k \in DOMAIN pending \ {key} : pending'[k] = pending[k]
    BY <2>1 DEF Put
  <2>4. /\ now \in Nat /\ now' \in Nat /\ now < now' /\ reported \subseteq 0 .. now
        /\ \A k \in DOMAIN pending : pending[k].begin \in 0 .. now
    BY <2>1, SMT DEF BlockInv, Dated
  <2>5. 0 .. now \subseteq 0 .. now' /\ now' \notin 0 .. now /\ now' \in 0 .. now'
    BY <2>4, SMT
  <2>6. \A k \in DOMAIN pending' :
           \/ k = key /\ pending'[k].begin = now'
           \/ k \in DOMAIN pending /\ pending'[k].begin = pending[k].begin
    BY <2>2, <2>3
  <2>7. Dated'
    BY <2>1, <2>4, <2>5, <2>6 DEF Dated
  <2>8. \A j, k \in DOMAIN pending' : pending'[j].begin = pending'[k].begin => j = k
    BY <2>4, <2>5, <2>6 DEF BlockInv, RequestsAreDistinct
  <2>9. \A k \in DOMAIN pending' : pending'[k].begin \notin reported'
    BY <2>1, <2>4, <2>5, <2>6 DEF BlockInv, RequestsAreDistinct
  <2> QED
    BY <2>7, <2>8, <2>9 DEF BlockInv, RequestsAreDistinct
<1> QED
  BY <1>1, <1>2

\* A request that is notified is not pending any more.
LEMMA CompleteKeepsInv ==
  ASSUME BlockInv, NEW place, NEW size, Complete(place, size)
  PROVE  BlockInv'
<1> DEFINE key == <<DiskOf(place), place.sector>>
<1>1. now' = now + 1
  BY DEF Complete, Tick
<1>2. \/ UNCHANGED <<pending, reported>>
      \/ /\ key \in DOMAIN pending
         /\ pending' = Without(pending, key)
         /\ reported' = reported \cup {pending[key].begin}
  BY DEF Complete, TraceComplete, NoReport
<1> HIDE DEF key
<1>3. CASE UNCHANGED <<pending, reported>>
  BY <1>1, <1>3, OtherEvents
<1>4. CASE /\ key \in DOMAIN pending
           /\ pending' = Without(pending, key)
           /\ reported' = reported \cup {pending[key].begin}
  <2>1. /\ DOMAIN pending' = DOMAIN pending \ {key}
        /\ \A k \in DOMAIN pending \ {key} : pending'[k] = pending[k]
    BY <1>4 DEF Without
  <2>2. now \in Nat /\ now' \in Nat /\ 0 .. now \subseteq 0 .. now'
    BY <1>1, SMT DEF BlockInv, Dated
  <2>3. Dated'
    BY <1>4, <2>1, <2>2 DEF BlockInv, Dated
  <2>4. RequestsAreDistinct'
    BY <1>4, <2>1 DEF BlockInv, RequestsAreDistinct
  <2> QED
    BY <2>3, <2>4 DEF BlockInv
<1> QED
  BY <1>2, <1>3, <1>4

LEMMA NextBlockInv == BlockInv /\ [BlockNext]_blockVars => BlockInv'
<1> SUFFICES ASSUME BlockInv, [BlockNext]_blockVars
             PROVE  BlockInv'
  OBVIOUS
<1>1. ASSUME NEW place, KernelSubmit(place) PROVE BlockInv'
  BY <1>1, OtherEvents DEF KernelSubmit, stateVars
<1>2. ASSUME NEW place, Backmerge(place) PROVE BlockInv'
  BY <1>2, OtherEvents DEF Backmerge, Tick, TraceBackmerge, NoReport
<1>3. ASSUME NEW place, NEW new, Remap(place, new) PROVE BlockInv'
  BY <1>3, OtherEvents DEF Remap, Tick, TraceRemap, NoReport
<1>4. ASSUME NEW place, NEW size, Issue(place, size) PROVE BlockInv'
  BY <1>4, IssueKeepsInv
<1>5. ASSUME NEW place, NEW size, Complete(place, size) PROVE BlockInv'
  BY <1>5, CompleteKeepsInv
<1>6. CASE UNCHANGED blockVars
  BY <1>6, OtherEvents DEF blockVars, stateVars
<1>7. ASSUME NEW place, KernelFrontmerge(place) PROVE BlockInv'
  BY <1>7, OtherEvents DEF KernelFrontmerge, stateVars
<1> QED
  BY <1>1, <1>2, <1>3, <1>4, <1>5, <1>6, <1>7 DEF BlockNext

\* Whatever events are missing, a request is in one place only and is not
\* notified twice (block.py:82-155, core/io.py:289-301).
THEOREM BlockRequestsDistinct == BlockSpec => []RequestsAreDistinct
<1>1. BlockInv => RequestsAreDistinct
  BY DEF BlockInv
<1> QED
  BY InitBlockInv, NextBlockInv, <1>1, PTL DEF BlockSpec

-----------------------------------------------------------------------------
(* With a complete trace: the list of the remappings.                      *)

\* The elements of r are those of s at the indexes K, in their order.
Thinned(r, s, K) ==
    \E up \in [1 .. Len(r) -> K] :
      /\ \A i, j \in 1 .. Len(r) : i < j => up[i] < up[j]
      /\ \A k \in K : \E i \in 1 .. Len(r) : up[i] = k
      /\ \A i \in 1 .. Len(r) : r[i] = s[up[i]]

\* How many indexes of K there are up to one of them tells it apart.
LEMMA Ranks ==
    ASSUME NEW n \in Nat, NEW K, \A k \in K : k \in 1 .. n
    PROVE  /\ Cardinality(K) \in Nat
           /\ \A i \in K : Cardinality({k \in K : k <= i}) \in 1 .. Cardinality(K)
           /\ \A i, j \in K : i < j => Cardinality({k \in K : k <= i})
                                        < Cardinality({k \in K : k <= j})
           /\ \A x \in 1 .. Cardinality(K) : \E i \in K : Cardinality({k \in K : k <= i}) = x
<1> DEFINE Up(i) == {k \in K : k <= i}
           N == Cardinality(K)
           rank == [i \in K |-> Cardinality(Up(i))]
<1>1. IsFiniteSet(K) /\ N \in Nat
  <2>1. IsFiniteSet(1 .. n) /\ K \in SUBSET (1 .. n)
    BY FS_Interval
  <2> QED BY <2>1, FS_Subset, FS_CardinalityType
<1>2. \A i \in K : IsFiniteSet(Up(i)) /\ Cardinality(Up(i)) \in Nat /\ Cardinality(Up(i)) <= N
  <2> TAKE i \in K
  <2>1. Up(i) \in SUBSET K
    OBVIOUS
  <2> HIDE DEF Up
  <2> QED BY <1>1, <2>1, FS_Subset, FS_CardinalityType
<1>3. \A i \in K : Cardinality(Up(i)) # 0
  <2> TAKE i \in K
  <2>1. i \in Up(i)
    OBVIOUS
  <2> HIDE DEF Up
  <2> QED BY <1>2, <2>1, FS_EmptySet
<1>4. ASSUME NEW i \in K, NEW j \in K, i < j PROVE Cardinality(Up(i)) < Cardinality(Up(j))
  <2>0. \A k \in K : k \in Int
    OBVIOUS
  <2>1. Up(i) \in SUBSET Up(j) /\ j \in Up(j) /\ j \notin Up(i)
    BY <1>4, <2>0
  <2> HIDE DEF Up
  <2>2. /\ Cardinality(Up(i)) <= Cardinality(Up(j))
        /\ Cardinality(Up(j)) = Cardinality(Up(i)) => Up(j) = Up(i)
    BY <1>2, <2>1, FS_Subset
  <2> QED BY <1>2, <2>1, <2>2
<1>5. ASSUME NEW x \in 1 .. N PROVE \E i \in K : Cardinality(Up(i)) = x
  <2>1. IsFiniteSet(1 .. N) /\ Cardinality(1 .. N) = N
    <3>1. IsFiniteSet(1 .. N) /\ Cardinality(1 .. N) = IF 1 > N THEN 0 ELSE N - 1 + 1
      BY <1>1, FS_Interval
    <3> HIDE DEF N
    <3> QED BY <1>1, <3>1
  <2> HIDE DEF Up
  <2>2. \A i \in K : rank[i] = Cardinality(Up(i)) /\ rank[i] \in 1 .. N
    BY <1>1, <1>2, <1>3
  <2>3. \A i, j \in K : rank[i] = rank[j] => i = j
    BY <1>2, <1>4
  <2>4. rank \in [K -> 1 .. N]
    BY <2>2
  <2> HIDE DEF rank
  <2>5. rank \in Injection(K, 1 .. N)
    BY <2>3, <2>4 DEF Injection, IsInjective
  <2>6. rank \in Surjection(K, 1 .. N)
    BY <2>1, <2>5, FS_Injection
  <2>7. \E i \in K : rank[i] = x
    BY <2>6 DEF Surjection
  <2> QED BY <2>2, <2>7
<1>6. \A i \in K : Cardinality(Up(i)) \in 1 .. N
  <2> HIDE DEF Up, N
  <2> QED BY <1>1, <1>2, <1>3
<1>7. \A i, j \in K : i < j => Cardinality(Up(i)) < Cardinality(Up(j))
  BY <1>4
<1>8. \A x \in 1 .. N : \E i \in K : Cardinality(Up(i)) = x
  BY <1>5
<1> QED BY <1>1, <1>6, <1>7, <1>8

\* What remains after a merge.
LEMMA UnmergedParts ==
    ASSUME NEW S, remaps \in Seq(S), NEW place
    PROVE  /\ Unmerged(place) \in Seq(S)
           /\ Thinned(Unmerged(place), remaps, (1 .. Len(remaps)) \ Merged(place))
<1> DEFINE K == (1 .. Len(remaps)) \ Merged(place)
           N == Cardinality(K)
           Rank(i) == Cardinality({k \in K : k <= i})
           up == [x \in 1 .. N |-> Nth(K, x)]
           r == Unmerged(place)
<1>1. Len(remaps) \in Nat /\ DOMAIN remaps = 1 .. Len(remaps)
  OBVIOUS
<1>2. r = [x \in 1 .. N |-> remaps[Nth(K, x)]]
  BY <1>1 DEF Unmerged
<1>3. \A k \in K : k \in 1 .. Len(remaps)
  OBVIOUS
<1> HIDE DEF K, r
<1>4. /\ N \in Nat
      /\ \A i \in K : Rank(i) \in 1 .. N
      /\ \A i, j \in K : i < j => Rank(i) < Rank(j)
      /\ \A x \in 1 .. N : \E i \in K : Rank(i) = x
  BY <1>1, <1>3, Ranks
<1>5. \A x : Nth(K, x) = CHOOSE i \in K : Rank(i) = x
  BY DEF Nth
<1> HIDE DEF N, Rank
<1>6. \A x \in 1 .. N : Nth(K, x) \in K /\ Rank(Nth(K, x)) = x
  BY <1>4, <1>5
<1>7. \A i \in K : i \in Nat /\ Rank(i) \in Nat /\ remaps[i] \in S
  BY <1>3, <1>4
<1>8. r \in Seq(S) /\ Len(r) = N
  <2>1. r \in [1 .. N -> S]
    BY <1>2, <1>6, <1>7
  <2> QED BY <1>4, <2>1
<1>9. up \in [1 .. Len(r) -> K]
  BY <1>6, <1>8
<1>10. \A i, j \in 1 .. Len(r) : i < j => up[i] < up[j]
  <2> TAKE i, j \in 1 .. Len(r)
  <2> HAVE i < j
  <2>1. /\ Nth(K, i) \in K /\ Nth(K, j) \in K
        /\ Rank(Nth(K, i)) = i /\ Rank(Nth(K, j)) = j
    BY <1>6, <1>8
  <2>2. ~(Nth(K, j) < Nth(K, i)) /\ Nth(K, j) # Nth(K, i)
    BY <1>4, <1>7, <2>1
  <2>3. Nth(K, i) < Nth(K, j)
    BY <1>7, <2>1, <2>2
  <2> QED BY <1>8, <2>3
<1>11. \A k \in K : \E i \in 1 .. Len(r) : up[i] = k
  <2> TAKE k \in K
  <2>1. Rank(k) \in 1 .. N /\ Nth(K, Rank(k)) \in K /\ Rank(Nth(K, Rank(k))) = Rank(k)
    BY <1>4, <1>6
  <2>2. ~(Nth(K, Rank(k)) < k) /\ ~(k < Nth(K, Rank(k)))
    BY <1>4, <1>7, <2>1
  <2>3. Nth(K, Rank(k)) = k
    BY <1>7, <2>1, <2>2
  <2> QED BY <1>8, <2>1, <2>3
<1>12. \A i \in 1 .. Len(r) : r[i] = remaps[up[i]]
  BY <1>2, <1>8
<1>13. Thinned(r, remaps, K)
  <2> HIDE DEF up
  <2> QED BY <1>9, <1>10, <1>11, <1>12 DEF Thinned
<1> QED BY <1>8, <1>13 DEF K, r

\* The merge removes remappings of the place, and the only one of a place.
LEMMA MergedParts ==
    ASSUME NEW S, remaps \in Seq(S), NEW place
    PROVE  /\ \A i \in 1 .. Len(remaps) : remaps[i].at # place => i \notin Merged(place)
           /\ \A m \in 1 .. Len(remaps) :
                (\A i \in 1 .. Len(remaps) : remaps[i].at = place <=> i = m) => m \in Merged(place)
<1>1. Len(remaps) \in Nat /\ DOMAIN remaps = 1 .. Len(remaps)
  OBVIOUS
<1>2. ASSUME NEW i \in Merged(place) PROVE remaps[i].at = place
  <2>1. PICK j \in 1 .. i : \A m \in j .. i : remaps[m].at = place
    BY DEF Merged
  <2>2. i \in 1 .. Len(remaps) /\ i \in j .. i
    BY <1>1, <2>1 DEF Merged
  <2> QED BY <2>1, <2>2
<1>3. ASSUME NEW k \in 1 .. Len(remaps),
             \A i \in 1 .. Len(remaps) : remaps[i].at = place <=> i = k
      PROVE  k \in Merged(place)
  <2>1. /\ k \in 1 .. k /\ (k - k) % 2 = 0
        /\ \A m \in k .. k : remaps[m].at = place
    BY <1>1, <1>3
  <2>2. k = 1 \/ remaps[k - 1].at # place
    <3>1. k # 1 => k - 1 \in 1 .. Len(remaps) /\ k - 1 # k
      BY <1>1
    <3> QED BY <1>3, <3>1
  <2> QED BY <1>1, <2>1, <2>2 DEF Merged
<1> QED BY <1>2, <1>3

\* The completion removes one element.
LEMMA RemovedParts ==
    ASSUME NEW S, remaps \in Seq(S), NEW k \in 1 .. Len(remaps)
    PROVE  /\ RemoveAt(remaps, k) \in Seq(S)
           /\ Thinned(RemoveAt(remaps, k), remaps, (1 .. Len(remaps)) \ {k})
<1> DEFINE r == RemoveAt(remaps, k)
           K == (1 .. Len(remaps)) \ {k}
           up == [i \in 1 .. Len(r) |-> IF i < k THEN i ELSE i + 1]
<1>1. r \in Seq(S) /\ Len(r) = Len(remaps) - 1
      /\ \A i \in 1 .. Len(remaps) - 1 : r[i] = IF i < k THEN remaps[i] ELSE remaps[i + 1]
  BY RemoveAtParts
<1>2. Len(remaps) \in Nat /\ k \in 1 .. Len(remaps)
  OBVIOUS
<1> HIDE DEF r
<1>3. up \in [1 .. Len(r) -> K]
  BY <1>1, <1>2
<1>4. \A i, j \in 1 .. Len(r) : i < j => up[i] < up[j]
  BY <1>1, <1>2
<1>5. \A m \in K : \E i \in 1 .. Len(r) : up[i] = m
  <2> TAKE m \in K
  <2>1. CASE m < k
    <3>1. m \in 1 .. Len(r) /\ up[m] = m
      BY <1>1, <1>2, <2>1
    <3> QED BY <3>1
  <2>2. CASE m > k
    <3>1. m - 1 \in 1 .. Len(r) /\ up[m - 1] = m
      BY <1>1, <1>2, <2>2
    <3> QED BY <3>1
  <2> QED BY <1>2, <2>1, <2>2
<1>6. \A i \in 1 .. Len(r) : r[i] = remaps[up[i]]
  BY <1>1, <1>2
<1>7. Thinned(r, remaps, K)
  <2> HIDE DEF up, K
  <2> QED BY <1>3, <1>4, <1>5, <1>6 DEF Thinned
<1> QED BY <1>1, <1>7 DEF r

Remapping == [at : Places, old : Places]
Elements(s) == {s[i] : i \in 1 .. Len(s)}

\* No two elements are at the same place, but where a merge has left one.
Apart(s) ==
    \A i, j \in 1 .. Len(s) : s[i].at = s[j].at /\ s[i].at \notin strays => i = j

\* The disk charged at a place by a list.
Charges(s, place, dev) ==
    \/ /\ dev = place.dev
       /\ \A i \in 1 .. Len(s) : s[i].at # place
    \/ \E m \in 1 .. Len(s) :
         /\ s[m].at = place
         /\ \A i \in 1 .. Len(s) : i < m => s[i].at # place
         /\ dev = s[m].old.dev

\* What the list keeps at these indexes.
Keeps(r, s, K) ==
    /\ Apart(s) => Apart(r)
    /\ \A i \in 1 .. Len(r) : \E m \in K : r[i] = s[m]
    /\ \A m \in K : \E i \in 1 .. Len(r) : r[i] = s[m]
    /\ \A place, dev :
         (\A i \in 1 .. Len(s) : s[i].at = place => i \in K) /\ Charges(s, place, dev)
           => Charges(r, place, dev)

LEMMA ThinnedKeeps ==
    ASSUME NEW s \in Seq(Remapping), NEW r \in Seq(Remapping),
           NEW K, \A k \in K : k \in 1 .. Len(s), Thinned(r, s, K)
    PROVE  Keeps(r, s, K)
<1>1. PICK up \in [1 .. Len(r) -> K] :
        /\ \A i, j \in 1 .. Len(r) : i < j => up[i] < up[j]
        /\ \A k \in K : \E i \in 1 .. Len(r) : up[i] = k
        /\ \A i \in 1 .. Len(r) : r[i] = s[up[i]]
  BY DEF Thinned
<1>2. \A i \in 1 .. Len(r) : up[i] \in K /\ up[i] \in 1 .. Len(s) /\ up[i] \in Nat /\ i \in Nat
  <2> TAKE i \in 1 .. Len(r)
  <2>1. up[i] \in K
    OBVIOUS
  <2>2. Len(s) \in Nat /\ Len(r) \in Nat
    OBVIOUS
  <2> QED BY <2>1, <2>2
<1>3. \A i, j \in 1 .. Len(r) : up[i] = up[j] => i = j
  BY <1>1, <1>2
<1>4. Apart(s) => Apart(r)
  BY <1>1, <1>2, <1>3 DEF Apart
<1>5. ASSUME NEW place, NEW dev, \A i \in 1 .. Len(s) : s[i].at = place => i \in K,
             Charges(s, place, dev)
      PROVE  Charges(r, place, dev)
  <2>1. CASE dev = place.dev /\ \A i \in 1 .. Len(s) : s[i].at # place
    BY <1>1, <1>2, <2>1 DEF Charges
  <2>2. ASSUME NEW m \in 1 .. Len(s), s[m].at = place, dev = s[m].old.dev,
               \A i \in 1 .. Len(s) : i < m => s[i].at # place
        PROVE  Charges(r, place, dev)
    <3>1. PICK n \in 1 .. Len(r) : up[n] = m
      BY <1>1, <1>5, <2>2
    <3>2. r[n] = s[m]
      BY <1>1, <3>1
    <3>3. \A i \in 1 .. Len(r) : i < n => r[i].at # place
      BY <1>1, <1>2, <2>2, <3>1
    <3> QED BY <2>2, <3>2, <3>3 DEF Charges
  <2> QED BY <1>5, <2>1, <2>2 DEF Charges
<1>6. \A i \in 1 .. Len(r) : \E m \in K : r[i] = s[m]
  BY <1>1, <1>2
<1>7. \A m \in K : \E i \in 1 .. Len(r) : r[i] = s[m]
  <2> TAKE m \in K
  <2>1. PICK i \in 1 .. Len(r) : up[i] = m
    BY <1>1
  <2>2. r[i] = s[m]
    BY <1>1, <2>1
  <2> QED BY <2>2
<1> QED BY <1>4, <1>5, <1>6, <1>7 DEF Keeps

\* The first remapping at a place.
FirstIn(s, place) == SelectInSeq(s, LAMBDA r : r.at = place)
DiskIn(s, place)  ==
    IF FirstIn(s, place) = 0 THEN place.dev ELSE s[FirstIn(s, place)].old.dev

LEMMA FirstParts ==
    ASSUME NEW s \in Seq(Remapping), NEW place
    PROVE  LET m == FirstIn(s, place) IN
           \/ m = 0 /\ \A i \in 1 .. Len(s) : s[i].at # place
           \/ /\ m \in 1 .. Len(s) /\ s[m].at = place
              /\ \A i \in 1 .. Len(s) : i < m => s[i].at # place
<1> DEFINE m == FirstIn(s, place)
           I == {i \in 1 .. Len(s) : s[i].at = place}
<1>1. m = IF I # {} THEN Min(I) ELSE 0
  BY DEF FirstIn, SelectInSeq
<1> HIDE DEF m
<1>2. I = {} => m = 0 /\ \A i \in 1 .. Len(s) : s[i].at # place
  BY <1>1
<1>3. ASSUME I # {} PROVE m \in I /\ \A i \in I : m <= i
  <2>1. IsFiniteSet(1 .. Len(s)) /\ I \in SUBSET (1 .. Len(s))
    BY FS_Interval
  <2>2. \A i \in I : i \in Int
    OBVIOUS
  <2> HIDE DEF I
  <2>3. IsFiniteSet(I)
    BY <2>1, FS_Subset
  <2>4. Min(I) \in I /\ \A i \in I : Min(I) <= i
    BY <1>3, <2>2, <2>3, LeastAndGreatest
  <2> QED BY <1>1, <1>3, <2>4
<1>4. m \in I /\ (\A i \in I : m <= i) =>
        /\ m \in 1 .. Len(s) /\ s[m].at = place
        /\ \A i \in 1 .. Len(s) : i < m => s[i].at # place
  OBVIOUS
<1>5. \/ m = 0 /\ \A i \in 1 .. Len(s) : s[i].at # place
      \/ /\ m \in 1 .. Len(s) /\ s[m].at = place
         /\ \A i \in 1 .. Len(s) : i < m => s[i].at # place
  <2> HIDE DEF I
  <2> QED BY <1>2, <1>3, <1>4
<1> QED BY <1>5 DEF m

LEMMA FirstAt ==
    ASSUME remaps \in Seq(Remapping), NEW place
    PROVE  LET m == Matches(place) IN
           \/ m = 0 /\ \A i \in 1 .. Len(remaps) : remaps[i].at # place
           \/ /\ m \in 1 .. Len(remaps) /\ remaps[m].at = place
              /\ \A i \in 1 .. Len(remaps) : i < m => remaps[i].at # place
              /\ Apart(remaps) /\ place \notin strays =>
                   \A i \in 1 .. Len(remaps) : remaps[i].at = place <=> i = m
<1> DEFINE m == Matches(place)
<1>1. \/ m = 0 /\ \A i \in 1 .. Len(remaps) : remaps[i].at # place
      \/ /\ m \in 1 .. Len(remaps) /\ remaps[m].at = place
         /\ \A i \in 1 .. Len(remaps) : i < m => remaps[i].at # place
  BY FirstParts DEF Matches, FirstIn
<1> HIDE DEF m
<1>2. m \in 1 .. Len(remaps) /\ remaps[m].at = place /\ Apart(remaps) /\ place \notin strays =>
        \A i \in 1 .. Len(remaps) : remaps[i].at = place <=> i = m
  BY DEF Apart
<1>3. \/ m = 0 /\ \A i \in 1 .. Len(remaps) : remaps[i].at # place
      \/ /\ m \in 1 .. Len(remaps) /\ remaps[m].at = place
         /\ \A i \in 1 .. Len(remaps) : i < m => remaps[i].at # place
         /\ Apart(remaps) /\ place \notin strays =>
              \A i \in 1 .. Len(remaps) : remaps[i].at = place <=> i = m
  BY <1>1, <1>2
<1> QED BY <1>3 DEF m

\* The walk of the list charges what Charges says, and nothing else.
LEMMA DiskIs ==
    ASSUME NEW s \in Seq(Remapping), NEW place
    PROVE  \A dev : Charges(s, place, dev) <=> dev = DiskIn(s, place)
<1> DEFINE m == FirstIn(s, place)
           d == IF m = 0 THEN place.dev ELSE s[m].old.dev
<1>1. \/ m = 0 /\ \A i \in 1 .. Len(s) : s[i].at # place
      \/ /\ m \in 1 .. Len(s) /\ s[m].at = place
         /\ \A i \in 1 .. Len(s) : i < m => s[i].at # place
  BY FirstParts
<1> HIDE DEF m
<1>2. m = 0 => \A i \in 1 .. Len(s) : i # m
  OBVIOUS
<1>3. Charges(s, place, d)
  BY <1>1, <1>2 DEF Charges
<1>4. ASSUME NEW dev, Charges(s, place, dev) PROVE dev = d
  <2>1. ASSUME NEW n \in 1 .. Len(s), s[n].at = place, dev = s[n].old.dev,
               \A i \in 1 .. Len(s) : i < n => s[i].at # place
        PROVE  dev = d
    <3>1. m \in 1 .. Len(s) /\ m # 0
      BY <1>1, <1>2, <2>1
    <3>2. ~(m < n) /\ ~(n < m)
      BY <1>1, <2>1, <3>1
    <3>3. m = n
      BY <3>1, <3>2
    <3> QED BY <2>1, <3>1, <3>3
  <2>2. CASE dev = place.dev /\ \A i \in 1 .. Len(s) : s[i].at # place
    BY <1>1, <2>2
  <2> QED BY <1>4, <2>1, <2>2 DEF Charges
<1>5. \A dev : Charges(s, place, dev) <=> dev = d
  <2> HIDE DEF d
  <2> QED BY <1>3, <1>4
<1> QED BY <1>5 DEF m, d, DiskIn

LEMMA DiskCharged ==
    ASSUME remaps \in Seq(Remapping), NEW place
    PROVE  \A dev : Charges(remaps, place, dev) <=> dev = DiskOf(place)
<1>1. DiskOf(place) = DiskIn(remaps, place)
  BY DEF DiskOf, Matches, DiskIn, FirstIn, SelectInSeq
<1> QED BY <1>1, DiskIs

\* The same in the next state.
LEMMA DiskChargedNext ==
    ASSUME remaps' \in Seq(Remapping), NEW place,
           Charges(remaps', place, DiskOf(place))
    PROVE  DiskOf(place)' = DiskOf(place)
<1> PICK d : d = DiskOf(place)
  OBVIOUS
<1>1. DiskOf(place)' = DiskIn(remaps', place)
  BY DEF DiskOf, Matches, DiskIn, FirstIn, SelectInSeq
<1> PICK s : s = remaps'
  OBVIOUS
<1>2. d = DiskIn(s, place)
  BY DiskIs
<1> QED BY <1>1, <1>2

\* Without elements of a place, and without the only one of a place.
LEMMA RestOf ==
    ASSUME remaps \in Seq(Remapping), Apart(remaps), NEW place,
           \/ remaps' = Unmerged(place)
           \/ remaps' = IF Matches(place) = 0 THEN remaps ELSE RemoveAt(remaps, Matches(place))
    PROVE  \E K \in SUBSET (1 .. Len(remaps)) :
             /\ remaps' \in Seq(Remapping)
             /\ Thinned(remaps', remaps, K)
             /\ \A i \in 1 .. Len(remaps) : remaps[i].at # place => i \in K
             /\ place \notin strays => \A i \in K : remaps[i].at # place
<1> DEFINE m == Matches(place)
           N == 1 .. Len(remaps)
<1>1. \/ m = 0 /\ \A i \in N : remaps[i].at # place
      \/ /\ m \in N /\ remaps[m].at = place
         /\ place \notin strays => \A i \in N : remaps[i].at = place <=> i = m
  BY FirstAt
<1>2. CASE remaps' = Unmerged(place)
  <2> DEFINE K == N \ Merged(place)
  <2>1. remaps' \in Seq(Remapping) /\ Thinned(remaps', remaps, K)
    BY <1>2, UnmergedParts
  <2>2. \A i \in N : remaps[i].at # place => i \in K
    BY MergedParts
  <2>3. place \notin strays => \A i \in K : remaps[i].at # place
    <3> HIDE DEF m
    <3> QED BY <1>1, MergedParts
  <2>4. K \in SUBSET (1 .. Len(remaps))
    OBVIOUS
  <2> HIDE DEF K
  <2> QED BY <2>1, <2>2, <2>3, <2>4
<1> HIDE DEF m
<1>3. CASE m # 0 /\ remaps' = RemoveAt(remaps, m)
  <2> DEFINE K == N \ {m}
  <2>1. remaps' \in Seq(Remapping) /\ Thinned(remaps', remaps, K)
    BY <1>1, <1>3, RemovedParts
  <2>2. \A i \in N : remaps[i].at # place => i \in K
    BY <1>1, <1>3
  <2>3. place \notin strays => \A i \in K : remaps[i].at # place
    BY <1>1, <1>3
  <2>4. K \in SUBSET (1 .. Len(remaps))
    OBVIOUS
  <2> HIDE DEF K
  <2> QED BY <2>1, <2>2, <2>3, <2>4
<1>4. CASE m = 0 /\ remaps' = remaps
  <2> DEFINE up == [i \in N |-> i]
  <2>1. /\ up \in [1 .. Len(remaps) -> N]
        /\ \A i, j \in 1 .. Len(remaps) : i < j => up[i] < up[j]
        /\ \A k \in N : \E i \in 1 .. Len(remaps) : up[i] = k
        /\ \A i \in 1 .. Len(remaps) : remaps[i] = remaps[up[i]]
    OBVIOUS
  <2> HIDE DEF up
  <2>2. Thinned(remaps, remaps, N)
    BY <2>1 DEF Thinned
  <2>3. \A i \in N : remaps[i].at # place
    <3>1. 0 \notin N
      OBVIOUS
    <3> QED BY <1>1, <1>4, <3>1
  <2> QED BY <1>4, <2>2, <2>3
<1> QED BY <1>2, <1>3, <1>4 DEF m

\* What the list has at the other places, and what it charges there.
LEMMA RestKeeps ==
    ASSUME remaps \in Seq(Remapping), Apart(remaps), strays' = strays, NEW place,
           \/ remaps' = Unmerged(place)
           \/ remaps' = IF Matches(place) = 0 THEN remaps ELSE RemoveAt(remaps, Matches(place))
    PROVE  /\ remaps' \in Seq(Remapping) /\ Apart(remaps)'
           /\ \A e : e.at # place => (e \in Elements(remaps') <=> e \in Elements(remaps))
           /\ place \notin strays => \A e \in Elements(remaps') : e.at # place
           /\ \A e \in Elements(remaps') : e \in Elements(remaps)
           /\ \A p : p # place => DiskOf(p)' = DiskOf(p)
<1>1. PICK K \in SUBSET (1 .. Len(remaps)) :
        /\ remaps' \in Seq(Remapping)
        /\ Thinned(remaps', remaps, K)
        /\ \A i \in 1 .. Len(remaps) : remaps[i].at # place => i \in K
        /\ place \notin strays => \A i \in K : remaps[i].at # place
  BY RestOf
<1> PICK s : s = remaps
  OBVIOUS
<1> PICK r : r = remaps'
  OBVIOUS
<1>2. /\ s \in Seq(Remapping) /\ r \in Seq(Remapping)
      /\ \A k \in K : k \in 1 .. Len(s)
      /\ Thinned(r, s, K)
  BY <1>1
<1>3. /\ Apart(s) => Apart(r)
      /\ \A i \in 1 .. Len(r) : \E m \in K : r[i] = s[m]
      /\ \A m \in K : \E i \in 1 .. Len(r) : r[i] = s[m]
      /\ \A p, dev :
           (\A i \in 1 .. Len(s) : s[i].at = p => i \in K) /\ Charges(s, p, dev)
             => Charges(r, p, dev)
  <2>1. Keeps(r, s, K)
    BY <1>2, ThinnedKeeps
  <2> QED BY <2>1 DEF Keeps
<1>4. Apart(remaps)'
  BY <1>3 DEF Apart
<1>5. \A e \in Elements(r) : e \in Elements(s) /\ (place \notin strays => e.at # place)
  <2> TAKE e \in Elements(r)
  <2>1. PICK i \in 1 .. Len(r) : e = r[i]
    BY DEF Elements
  <2>2. PICK m \in K : r[i] = s[m]
    BY <1>3
  <2>3. m \in 1 .. Len(s) /\ (place \notin strays => s[m].at # place)
    BY <1>1, <1>2
  <2> QED BY <2>1, <2>2, <2>3 DEF Elements
<1>6. \A e \in Elements(s) : e.at # place => e \in Elements(r)
  BY <1>1, <1>2, <1>3 DEF Elements
<1>7. ASSUME NEW p, p # place PROVE DiskOf(p)' = DiskOf(p)
  <2>1. Charges(s, p, DiskOf(p))
    BY DiskCharged
  <2>2. \A i \in 1 .. Len(s) : s[i].at = p => i \in K
    BY <1>1, <1>7
  <2>3. Charges(r, p, DiskOf(p))
    BY <1>3, <2>1, <2>2
  <2> QED BY <1>1, <2>3, DiskChargedNext
<1> QED BY <1>1, <1>4, <1>5, <1>6, <1>7

-----------------------------------------------------------------------------
(* With a complete trace: the requests of the kernel.                      *)

Above == CHOOSE above \in SUBSET (Devs \X Devs) : Orders(above)

LEMMA AboveOrders == Orders(Above)
BY BlockAssumption DEF Above

Bios     == queued \cup issued
BioSet   == [top : Places, at : Places, size : Nat \ {0}]
Requests == [top : Places, at : Places, size : Nat \ {0}, begin : Nat]

\* A bio and a request are at different places, below where they began.
KernelInv ==
    /\ trace \in Traces
    /\ now \in Nat
    /\ trace.lossless =>
         /\ queued \subseteq BioSet /\ issued \subseteq Requests
         /\ \A b, c \in queued : b.at = c.at => b = c
         /\ \A b, c \in issued : b.at = c.at => b = c
         /\ \A b \in queued, c \in issued : b.at # c.at
         /\ \A b \in Bios : b.at = b.top \/ <<b.top.dev, b.at.dev>> \in Above
         /\ \A p \in strays : Layout[p] = None

\* What the list of the remappings should have.
Entry(b) == [at |-> b.at, old |-> b.top]
Entries  == {Entry(b) : b \in {q \in Bios : q.at # q.top}}

LEMMA KernelInit == BlockInit => KernelInv /\ Entries = {}
BY DEF BlockInit, KernelInv, Bios, Entries

LEMMA AtInFlight ==
    ASSUME KernelInv, trace.lossless, NEW b \in Bios PROVE b.at \in InFlight
<1>1. b.at \in Places /\ b.size \in Nat \ {0}
  BY DEF KernelInv, Bios, BioSet, Requests
<1>2. b.at.sector \in Nat /\ b.at = [dev |-> b.at.dev, sector |-> b.at.sector]
  BY <1>1, BlockAssumption DEF Places
<1>3. b.at.sector \in b.at.sector .. b.at.sector + b.size - 1
  BY <1>1, <1>2
<1>4. b.at \in Covers(b)
  BY <1>2, <1>3 DEF Covers
<1> QED BY <1>4 DEF InFlight, Bios

LEMMA SubmitKeepsKernel ==
    ASSUME KernelInv, NEW place \in Places, KernelSubmit(place)
    PROVE  KernelInv' /\ Entries' = Entries
<1> DEFINE c == [top |-> place, at |-> place, size |-> 1]
<1>1. /\ trace.lossless /\ trace' = trace /\ now' = now /\ issued' = issued /\ strays' = strays
      /\ queued' = queued \cup {c}
      /\ \A b \in Bios : b.at # place
  BY AtInFlight DEF KernelSubmit
<1>2. c \in BioSet /\ c.at = place /\ c.top = place
  BY DEF BioSet
<1> HIDE DEF c
<1>3. KernelInv'
  BY <1>1, <1>2 DEF KernelInv, Bios
<1>4. Entries' = Entries
  BY <1>1, <1>2 DEF Entries, Bios
<1> QED BY <1>3, <1>4

LEMMA RemapKeepsKernel ==
    ASSUME KernelInv, trace.lossless, NEW old \in Places, NEW new \in Places,
           KernelRemap(old, new), Tick
    PROVE  /\ KernelInv'
           /\ \E b \in queued :
                /\ b.at = old /\ b.top # new
                /\ Entries' = {e \in Entries : e.at # old} \cup {[at |-> new, old |-> b.top]}
<1>1. PICK b \in queued : b.at = old /\ queued' = (queued \ {b}) \cup {[b EXCEPT !.at = new]}
  BY DEF KernelRemap
<1> DEFINE c == [b EXCEPT !.at = new]
<1>2. b \in BioSet /\ b \in Bios
  BY DEF KernelInv, Bios
<1>3. c \in BioSet /\ c.at = new /\ c.top = b.top /\ b.top.dev \in Devs
  BY <1>2 DEF BioSet, Places
<1> HIDE DEF c
<1>4. /\ queued' = (queued \ {b}) \cup {c} /\ UNCHANGED <<issued, strays, trace>>
      /\ now' \in Nat /\ \A x \in Bios : x.at # new
  BY <1>1, AtInFlight DEF KernelRemap, Tick, c, KernelInv
<1>5. <<b.top.dev, new.dev>> \in Above /\ b.top # new
  <2>1. new # None /\ old.dev \in Devs /\ new.dev \in Devs
    BY BlockAssumption DEF Places
  <2>2. <<old.dev, new.dev>> \in Above
    BY <2>1, AboveOrders DEF Orders, KernelRemap
  <2>3. b.at = b.top \/ <<b.top.dev, old.dev>> \in Above
    BY <1>1, <1>2 DEF KernelInv
  <2>4. <<b.top.dev, new.dev>> \in Above
    BY <1>1, <1>3, <2>1, <2>2, <2>3, AboveOrders DEF Orders
  <2> QED BY <2>1, <2>4, AboveOrders DEF Orders
<1>6. KernelInv'
  BY <1>1, <1>3, <1>4, <1>5 DEF KernelInv, Bios
<1>7. \A x \in Bios : x # b => x.at # old
  BY <1>1 DEF KernelInv, Bios
<1>8. Entries' = {e \in Entries : e.at # old} \cup {[at |-> new, old |-> b.top]}
  <2>1. Bios' = (Bios \ {b}) \cup {c}
    BY <1>4, <1>7, <1>1 DEF Bios, KernelInv
  <2>2. ASSUME NEW x \in Bios', x.at # x.top
        PROVE  Entry(x) \in {e \in Entries : e.at # old} \cup {[at |-> new, old |-> b.top]}
    BY <1>3, <1>7, <2>1, <2>2 DEF Entries, Entry
  <2>3. ASSUME NEW x \in Bios, x.at # x.top, x.at # old PROVE Entry(x) \in Entries'
    BY <1>1, <2>1, <2>3 DEF Entries, Entry
  <2>4. [at |-> new, old |-> b.top] \in Entries'
    BY <1>3, <1>5, <2>1 DEF Entries, Entry
  <2>5. Entries' \subseteq {e \in Entries : e.at # old} \cup {[at |-> new, old |-> b.top]}
    BY <2>2 DEF Entries
  <2>6. ASSUME NEW e \in Entries, e.at # old PROVE e \in Entries'
    <3>1. PICK x \in Bios : x.at # x.top /\ e = Entry(x)
      BY DEF Entries
    <3>2. e.at = x.at
      BY <3>1 DEF Entry
    <3> QED BY <2>3, <2>6, <3>1, <3>2
  <2> QED BY <2>4, <2>5, <2>6
<1> QED BY <1>1, <1>5, <1>6, <1>8

\* Two bios become one request: only the first keeps its place.
LEMMA JoinKeepsKernel ==
    ASSUME KernelInv, trace.lossless, NEW place \in Places, KernelJoin(place),
           UNCHANGED <<trace, issued>>, now' \in Nat, \A p \in strays' : Layout[p] = None
    PROVE  /\ KernelInv'
           /\ Entries' = {e \in Entries : e.at # place}
           /\ \A x \in Bios' : \E y \in Bios : y.at = x.at /\ y.top = x.top
<1>1. PICK b \in queued, r \in queued :
         /\ b.at = place
         /\ r.at.sector + r.size = place.sector
         /\ queued' = (queued \ {b, r}) \cup {[r EXCEPT !.size = @ + b.size]}
  BY DEF KernelJoin
<1> DEFINE c == [r EXCEPT !.size = @ + b.size]
<1>2. b \in BioSet /\ r \in BioSet /\ b \in Bios /\ r \in Bios
  BY DEF KernelInv, Bios
<1>3. c \in BioSet /\ c.at = r.at /\ c.top = r.top
  BY <1>2 DEF BioSet
<1> HIDE DEF c
<1>4. /\ queued' = (queued \ {b, r}) \cup {c} /\ issued' = issued /\ trace' = trace
      /\ now' \in Nat
  BY <1>1 DEF c
<1>5. r.at # place
  <2>1. r.at.sector \in Nat /\ r.size \in Nat \ {0}
    BY <1>2, BlockAssumption DEF BioSet, Places
  <2> QED BY <1>1, <2>1
<1>6. KernelInv'
  BY <1>2, <1>3, <1>4 DEF KernelInv, Bios
<1>7. b \notin issued /\ \A x \in Bios : x.at = place <=> x = b
  BY <1>1 DEF KernelInv, Bios
<1>8. /\ \A x \in Bios' : x = c \/ x \in Bios \ {b}
      /\ c \in Bios' /\ \A x \in Bios : x = b \/ x = r \/ x \in Bios'
  BY <1>1, <1>2, <1>4, <1>7 DEF Bios
<1>9. \A x \in Bios' : x.at # place /\ \E y \in Bios : y.at = x.at /\ y.top = x.top
  BY <1>2, <1>3, <1>5, <1>7, <1>8
<1>10. \A x \in Bios : x.at # place => \E y \in Bios' : y.at = x.at /\ y.top = x.top
  BY <1>3, <1>7, <1>8
<1>11. Entries' = {e \in Entries : e.at # place}
  <2>1. Entries' \subseteq {e \in Entries : e.at # place}
    BY <1>9 DEF Entries, Entry
  <2>2. {e \in Entries : e.at # place} \subseteq Entries'
    BY <1>10 DEF Entries, Entry
  <2> QED BY <2>1, <2>2
<1> QED BY <1>6, <1>9, <1>11

LEMMA IssueKeepsKernel ==
    ASSUME KernelInv, trace.lossless, NEW place \in Places, NEW size, KernelIssue(place, size), Tick
    PROVE  /\ KernelInv'
           /\ Entries' = Entries
           /\ \E r \in Requests :
                /\ r.at = place /\ r.size = size /\ r.begin = now' /\ Layout[r.at] = None
                /\ issued' = issued \cup {r} /\ \A x \in issued : x.at # place
                /\ \E b \in queued : b.at = place /\ b.top = r.top
                /\ Bios' \subseteq Bios \cup {r}
<1>1. PICK b \in queued :
         /\ b.at = place /\ b.size = size
         /\ queued' = queued \ {b}
         /\ issued' = issued \cup {[top |-> b.top, at |-> place, size |-> size, begin |-> now']}
  BY DEF KernelIssue
<1> DEFINE r == [top |-> b.top, at |-> place, size |-> size, begin |-> now']
<1>2. b \in BioSet /\ b \in Bios /\ now' \in Nat /\ trace' = trace /\ strays' = strays
  BY DEF KernelInv, Bios, Tick, KernelIssue
<1>3. r \in Requests /\ r.at = b.at /\ r.top = b.top /\ r.size = size /\ r.begin = now'
  BY <1>1, <1>2 DEF BioSet, Requests
<1>4. issued' = issued \cup {r}
  BY <1>1
<1> HIDE DEF r
<1>5. /\ \A x \in issued : x.at # place
      /\ \A x \in queued' : x.at # place
  BY <1>1 DEF KernelInv
<1>6. KernelInv'
  BY <1>1, <1>2, <1>3, <1>4, <1>5 DEF KernelInv, Bios
<1>7. \A x \in Bios' : x = r \/ x \in Bios
  BY <1>1, <1>4 DEF Bios
<1>8. r \in Bios' /\ \A x \in Bios : x = b \/ x \in Bios'
  BY <1>1, <1>4 DEF Bios
<1>9. Entries' = Entries
  <2>1. Entries' \subseteq Entries
    BY <1>2, <1>3, <1>7 DEF Entries, Entry
  <2>2. Entries \subseteq Entries'
    BY <1>3, <1>8 DEF Entries, Entry
  <2> QED BY <2>1, <2>2
<1>10. Layout[r.at] = None
  BY <1>1, <1>3 DEF KernelIssue
<1> QED BY <1>1, <1>3, <1>4, <1>5, <1>6, <1>7, <1>9, <1>10

LEMMA CompleteKeepsKernel ==
    ASSUME KernelInv, trace.lossless, NEW place \in Places, NEW size,
           KernelComplete(place, size), Tick
    PROVE  /\ KernelInv'
           /\ Entries' = {e \in Entries : e.at # place}
           /\ size \in Nat \ {0}
           /\ \E r \in issued :
                /\ r.at = place /\ r.size = size
                /\ issued' = issued \ {r}
                /\ truth' = [disk |-> r.top.dev, begin |-> r.begin, size |-> size, at |-> place]
           /\ Bios' \subseteq Bios
<1>1. PICK r \in issued :
         /\ r.at = place /\ r.size = size
         /\ issued' = issued \ {r}
         /\ truth' = [disk |-> r.top.dev, begin |-> r.begin, size |-> size, at |-> place]
  BY DEF KernelComplete
<1>2. r \in Requests /\ UNCHANGED <<queued, trace, strays>> /\ now' \in Nat
  BY DEF KernelInv, Tick, KernelComplete
<1>3. KernelInv'
  BY <1>1, <1>2 DEF KernelInv, Bios
<1>4. \A x \in Bios : x \in Bios' <=> x.at # place
  BY <1>1, <1>2 DEF KernelInv, Bios
<1>5. Bios' \subseteq Bios
  BY <1>1, <1>2 DEF Bios
<1>6. Entries' = {e \in Entries : e.at # place}
  <2>1. Entries' \subseteq {e \in Entries : e.at # place}
    BY <1>4, <1>5 DEF Entries, Entry
  <2>2. {e \in Entries : e.at # place} \subseteq Entries'
    BY <1>4 DEF Entries, Entry
  <2> QED BY <2>1, <2>2
<1> QED BY <1>1, <1>2, <1>3, <1>5, <1>6 DEF Requests

-----------------------------------------------------------------------------
(* With a complete trace: the list follows the kernel.                     *)

ListInv ==
    trace.lossless =>
      /\ remaps \in Seq(Remapping) /\ Apart(remaps)
      /\ \A e : e.at \notin strays => (e \in Elements(remaps) <=> e \in Entries)

\* A place on which others lie has no remapping left behind.
LEMMA UpperPlaces ==
    ASSUME KernelInv, trace.lossless, NEW old \in Places, Layout[old] # None
    PROVE  old \notin strays
BY DEF KernelInv

\* A new first remapping, or one more layer of an older one.
LEMMA RemapFollows ==
    ASSUME KernelInv, ListInv, trace.lossless, NEW old \in Places, NEW new \in Places,
           Remap(old, new)
    PROVE  /\ KernelInv' /\ ListInv'
           /\ \A p : p # old /\ p # new => DiskOf(p)' = DiskOf(p)
           /\ \A i \in 1 .. Len(remaps') :
                \/ i \in 1 .. Len(remaps) /\ remaps'[i] = remaps[i]
                \/ i \in 1 .. Len(remaps) /\ remaps[i].at = old /\ remaps'[i].at = new
                   /\ remaps'[i].old = remaps[i].old
                \/ remaps'[i].at = new /\ remaps'[i].old = old
<1>1. /\ KernelRemap(old, new) /\ Tick /\ TraceRemap(old, new) /\ old # new /\ trace' = trace
      /\ strays' = strays
  BY DEF Remap, Tick, KernelRemap
<1>2. PICK b \in queued :
        /\ b.at = old /\ b.top # new
        /\ Entries' = {e \in Entries : e.at # old} \cup {[at |-> new, old |-> b.top]}
  BY <1>1, RemapKeepsKernel
<1>3. KernelInv'
  BY <1>1, RemapKeepsKernel
<1>4. /\ b \in Bios /\ b.top \in Places /\ \A x \in Bios : x.at = old => x = b
      /\ \A x \in Bios : x.at # new
  BY <1>1, <1>2, AtInFlight DEF KernelInv, Bios, BioSet, KernelRemap
<1>5. old \notin strays
  <2>1. Layout[old] # None
    BY <1>1, BlockAssumption DEF KernelRemap
  <2> QED BY <2>1, UpperPlaces
<1> PICK s : s = remaps
  OBVIOUS
<1> PICK r : r = remaps'
  OBVIOUS
<1> DEFINE m == Matches(old)
           z == [at |-> new, old |-> b.top]
<1>6. \/ m = 0 /\ \A i \in 1 .. Len(s) : s[i].at # old
      \/ m \in 1 .. Len(s) /\ \A i \in 1 .. Len(s) : s[i].at = old <=> i = m
  BY <1>5, FirstAt DEF ListInv
<1>7. r = IF m # 0 THEN [s EXCEPT ![m].at = new] ELSE Append(s, [at |-> new, old |-> old])
  BY <1>1 DEF TraceRemap
<1> HIDE DEF m
<1>8. /\ s \in Seq(Remapping) /\ Apart(s) /\ Len(s) \in Nat
      /\ \A i \in 1 .. Len(s) : s[i].at \notin strays => s[i] \in Entries
      /\ \A e \in Entries : e.at \notin strays => \E i \in 1 .. Len(s) : s[i] = e
  BY DEF ListInv, Elements
<1>9. \A i \in 1 .. Len(s) : s[i].at = new => new \in strays
  BY <1>4, <1>8 DEF Entries, Entry
<1>10. z \in Remapping /\ z.at = new /\ z.old = b.top
  BY <1>4 DEF Remapping
<1>11. ASSUME r \in Seq(Remapping), NEW n \in 1 .. Len(r), r[n] = z,
              \A i \in 1 .. Len(r) : i # n => i \in 1 .. Len(s) /\ r[i] = s[i] /\ s[i].at # old,
              \A i \in 1 .. Len(s) : s[i].at # old => i # n /\ i \in 1 .. Len(r)
       PROVE  /\ ListInv'
              /\ \A p : p # old /\ p # new => DiskOf(p)' = DiskOf(p)
  <2>1. Apart(r)
    <3> SUFFICES ASSUME NEW i \in 1 .. Len(r), NEW j \in 1 .. Len(r),
                        r[i].at = r[j].at, r[i].at \notin strays
                 PROVE  i = j
      BY DEF Apart
    <3>1. CASE i # n /\ j # n
      BY <1>8, <1>11, <3>1 DEF Apart
    <3>2. CASE i = n \/ j = n
      BY <1>9, <1>10, <1>11, <3>2
    <3> QED BY <3>1, <3>2
  <2>2. ASSUME NEW e, e.at \notin strays
        PROVE  e \in Elements(r) <=> e \in Entries'
    <3>1. ASSUME NEW i \in 1 .. Len(r), e = r[i] PROVE e \in Entries'
      <4>1. CASE i = n
        BY <1>2, <1>11, <3>1, <4>1
      <4>2. CASE i # n
        BY <1>2, <1>8, <1>11, <2>2, <3>1, <4>2
      <4> QED BY <4>1, <4>2
    <3>2. ASSUME e \in Entries, e.at # old PROVE e \in Elements(r)
      <4>1. PICK i \in 1 .. Len(s) : s[i] = e
        BY <1>8, <2>2, <3>2
      <4>2. i # n /\ i \in 1 .. Len(r) /\ r[i] = e
        BY <1>11, <3>2, <4>1
      <4> QED BY <4>2 DEF Elements
    <3>3. z \in Elements(r)
      BY <1>11 DEF Elements
    <3> QED BY <1>2, <3>1, <3>2, <3>3 DEF Elements
  <2>3. ListInv'
    <3>1. Apart(remaps)'
      BY <1>1, <2>1 DEF Apart
    <3> QED BY <1>1, <1>11, <2>2, <3>1 DEF ListInv
  <2>4. ASSUME NEW p, p # old, p # new PROVE DiskOf(p)' = DiskOf(p)
    <3>1. Charges(s, p, DiskOf(p))
      BY <1>8, DiskCharged
    <3>2. \A i \in 1 .. Len(s) : s[i].at = p => i \in 1 .. Len(r) /\ r[i] = s[i]
      BY <1>11, <2>4
    <3>3. \A i \in 1 .. Len(r) : r[i].at = p => i \in 1 .. Len(s) /\ r[i] = s[i]
      BY <1>10, <1>11, <2>4
    <3>4. Charges(r, p, DiskOf(p))
      <4> DEFINE d == DiskOf(p)
      <4>1. Charges(s, p, d)
        BY <3>1
      <4> HIDE DEF d
      <4>2. ASSUME d = p.dev, \A i \in 1 .. Len(s) : s[i].at # p
            PROVE  Charges(r, p, d)
        BY <3>3, <4>2 DEF Charges
      <4>3. ASSUME NEW x \in 1 .. Len(s), s[x].at = p, d = s[x].old.dev,
                   \A i \in 1 .. Len(s) : i < x => s[i].at # p
            PROVE  Charges(r, p, d)
        <5>1. x \in 1 .. Len(r) /\ r[x] = s[x]
          BY <3>2, <4>3
        <5>2. \A i \in 1 .. Len(r) : i < x => r[i].at # p
          BY <3>3, <4>3
        <5> QED BY <4>3, <5>1, <5>2 DEF Charges
      <4>4. Charges(r, p, d)
        BY <4>1, <4>2, <4>3 DEF Charges
      <4> QED BY <4>4 DEF d
    <3> QED BY <1>11, <3>4, DiskChargedNext
  <2> QED BY <2>3, <2>4
<1>12. CASE m # 0
  <2>1. m \in 1 .. Len(s) /\ s[m] \in Remapping /\ s[m].at = old /\ s[m].old = b.top
    <3>1. m \in 1 .. Len(s) /\ s[m] \in Remapping /\ s[m].at = old
      BY <1>6, <1>8, <1>12
    <3>2. PICK x \in Bios : s[m] = Entry(x)
      BY <1>5, <1>8, <3>1 DEF Entries
    <3>3. s[m].at = x.at /\ s[m].old = x.top
      BY <3>2 DEF Entry
    <3> QED BY <1>4, <3>1, <3>3
  <2>2. r = [s EXCEPT ![m] = z]
    <3>1. [s[m] EXCEPT !.at = new] = z
      BY <2>1 DEF Remapping
    <3> QED BY <1>7, <1>12, <3>1
  <2> HIDE DEF z
  <2>3. /\ r \in Seq(Remapping) /\ Len(r) = Len(s) /\ r[m] = z
        /\ \A i \in 1 .. Len(s) : i # m => r[i] = s[i]
    BY <1>8, <1>10, <2>1, <2>2
  <2>4. \A i \in 1 .. Len(s) : s[i].at = old <=> i = m
    BY <1>6, <1>12
  <2>5. ListInv' /\ \A p : p # old /\ p # new => DiskOf(p)' = DiskOf(p)
    BY <1>11, <2>1, <2>3, <2>4
  <2>6. \A i \in 1 .. Len(r) :
          \/ i \in 1 .. Len(s) /\ r[i] = s[i]
          \/ i \in 1 .. Len(s) /\ s[i].at = old /\ r[i].at = new /\ r[i].old = s[i].old
    BY <1>10, <2>1, <2>3
  <2> QED BY <1>3, <2>5, <2>6
<1>13. CASE m = 0
  <2>1. \A i \in 1 .. Len(s) : s[i].at # old
    <3>1. 0 \notin 1 .. Len(s)
      OBVIOUS
    <3> QED BY <1>6, <1>13, <3>1
  <2>2. b.top = old
    <3>1. Entry(b).at = old
      BY <1>2 DEF Entry
    <3>2. b.at # b.top => Entry(b) \in Entries
      BY <1>4 DEF Entries
    <3> QED BY <1>2, <1>5, <1>8, <2>1, <3>1, <3>2
  <2>3. r = Append(s, z)
    BY <1>7, <1>13, <2>2
  <2> HIDE DEF z
  <2>4. /\ r \in Seq(Remapping) /\ Len(r) = Len(s) + 1 /\ r[Len(s) + 1] = z
        /\ \A i \in 1 .. Len(s) : r[i] = s[i]
    BY <1>8, <1>10, <2>3
  <2>5. /\ Len(s) + 1 \in 1 .. Len(r)
        /\ \A i \in 1 .. Len(r) : i # Len(s) + 1 => i \in 1 .. Len(s)
        /\ \A i \in 1 .. Len(s) : i \in 1 .. Len(r) /\ i # Len(s) + 1
    BY <1>8, <2>4
  <2>6. ListInv' /\ \A p : p # old /\ p # new => DiskOf(p)' = DiskOf(p)
    BY <1>11, <2>1, <2>4, <2>5
  <2>7. \A i \in 1 .. Len(r) :
          \/ i \in 1 .. Len(s) /\ r[i] = s[i]
          \/ r[i].at = new /\ r[i].old = old
    BY <1>10, <2>2, <2>4, <2>5
  <2> QED BY <1>3, <2>6, <2>7
<1> QED BY <1>12, <1>13

\* A merge that the provider does not handle.
LEMMA FrontmergeFollows ==
    ASSUME KernelInv, ListInv, trace.lossless, NEW place \in Places, KernelFrontmerge(place)
    PROVE  KernelInv' /\ ListInv'
<1>1. /\ KernelJoin(place) /\ UNCHANGED <<trace, now, issued, remaps>>
      /\ Layout[place] = None
  BY DEF KernelFrontmerge, KernelJoin, stateVars
<1>2. PICK b \in queued :
        b.at = place /\ strays' = IF b.top = place THEN strays ELSE strays \cup {place}
  BY DEF KernelFrontmerge
<1>3. KernelInv' /\ Entries' = {e \in Entries : e.at # place}
  <2>1. \A p \in strays' : Layout[p] = None
    BY <1>1, <1>2 DEF KernelInv
  <2>2. now' \in Nat
    BY <1>1 DEF KernelInv
  <2> QED BY <1>1, <2>1, <2>2, JoinKeepsKernel
<1>4. \A p : p \notin strays' => p \notin strays /\ (b.top = place \/ p # place)
  BY <1>2
<1>5. b.top = place => \A e \in Entries : e.at # place
  <2> SUFFICES ASSUME b.top = place, NEW e \in Entries PROVE e.at # place
    OBVIOUS
  <2>1. PICK x \in Bios : x.at # x.top /\ e = Entry(x)
    BY DEF Entries
  <2>2. e.at = x.at /\ (x.at = place => x = b)
    BY <1>2, <2>1 DEF Entry, KernelInv, Bios
  <2> QED BY <1>2, <2>1, <2>2
<1>6. ASSUME NEW e, e.at \notin strays' PROVE e \in Elements(remaps') <=> e \in Entries'
  <2>1. e \in Elements(remaps) <=> e \in Entries
    BY <1>4, <1>6 DEF ListInv
  <2>2. e \in Entries <=> e \in Entries'
    BY <1>3, <1>4, <1>5, <1>6
  <2> QED BY <1>1, <2>1, <2>2
<1>7. Apart(remaps)'
  BY <1>1, <1>4 DEF ListInv, Apart
<1> QED BY <1>1, <1>3, <1>6, <1>7 DEF ListInv

\* A merge at the back, or a completion.
LEMMA RestFollows ==
    ASSUME KernelInv, ListInv, trace.lossless, UNCHANGED <<trace, strays>>, NEW place,
           Entries' = {e \in Entries : e.at # place},
           \/ remaps' = Unmerged(place)
           \/ remaps' = IF Matches(place) = 0 THEN remaps ELSE RemoveAt(remaps, Matches(place))
    PROVE  /\ ListInv'
           /\ \A e \in Elements(remaps') : e \in Elements(remaps)
           /\ \A p : p # place => DiskOf(p)' = DiskOf(p)
<1>1. /\ remaps' \in Seq(Remapping) /\ Apart(remaps)'
      /\ \A e : e.at # place => (e \in Elements(remaps') <=> e \in Elements(remaps))
      /\ place \notin strays => \A e \in Elements(remaps') : e.at # place
      /\ \A e \in Elements(remaps') : e \in Elements(remaps)
      /\ \A p : p # place => DiskOf(p)' = DiskOf(p)
  BY RestKeeps DEF ListInv
<1>2. ASSUME NEW e, e.at \notin strays PROVE e \in Elements(remaps') <=> e \in Entries'
  <2>1. e \in Elements(remaps) <=> e \in Entries
    BY <1>2 DEF ListInv
  <2>2. CASE e.at = place
    BY <1>1, <1>2, <2>2
  <2>3. CASE e.at # place
    BY <1>1, <2>1, <2>3
  <2> QED BY <2>2, <2>3
<1>3. ListInv'
  BY <1>1, <1>2 DEF ListInv
<1> QED BY <1>1, <1>3

LEMMA BackmergeFollows ==
    ASSUME KernelInv, ListInv, trace.lossless, NEW place \in Places, Backmerge(place)
    PROVE  /\ KernelInv' /\ ListInv'
           /\ \A e \in Elements(remaps') : e \in Elements(remaps)
           /\ \A p : p # place => DiskOf(p)' = DiskOf(p)
<1>1. /\ KernelJoin(place) /\ remaps' = Unmerged(place)
      /\ UNCHANGED <<trace, issued, strays>> /\ now' \in Nat
  BY DEF Backmerge, KernelBackmerge, TraceBackmerge, Tick, KernelInv
<1>2. \A p \in strays' : Layout[p] = None
  BY <1>1 DEF KernelInv
<1>3. KernelInv' /\ Entries' = {e \in Entries : e.at # place}
  BY <1>1, <1>2, JoinKeepsKernel
<1> QED BY <1>1, <1>3, RestFollows

LEMMA CompleteRest ==
    ASSUME KernelInv, ListInv, trace.lossless, NEW place \in Places, NEW size,
           Complete(place, size)
    PROVE  /\ KernelInv' /\ ListInv'
           /\ \A e \in Elements(remaps') : e \in Elements(remaps)
           /\ \A p : p # place => DiskOf(p)' = DiskOf(p)
<1>1. /\ KernelComplete(place, size) /\ Tick /\ TraceComplete(place, size)
      /\ UNCHANGED <<trace, strays>>
  BY DEF Complete, Tick, KernelComplete
<1>2. KernelInv' /\ Entries' = {e \in Entries : e.at # place} /\ size \in Nat \ {0}
  BY <1>1, CompleteKeepsKernel
<1>3. remaps' = IF Matches(place) = 0 THEN remaps ELSE RemoveAt(remaps, Matches(place))
  BY <1>1, <1>2 DEF TraceComplete
<1> QED BY <1>1, <1>2, <1>3, RestFollows

LEMMA ListNext ==
    ASSUME KernelInv, ListInv, [BlockNext]_blockVars PROVE KernelInv' /\ ListInv'
<1>1. ASSUME ~trace.lossless PROVE KernelInv' /\ ListInv'
  BY <1>1 DEF BlockNext, KernelSubmit, KernelFrontmerge, Backmerge, Remap, Issue, Complete, Tick,
              KernelInv, ListInv, blockVars
<1> SUFFICES ASSUME trace.lossless PROVE KernelInv' /\ ListInv'
  BY <1>1
<1>2. trace.places \subseteq Places
  BY BlockAssumption DEF KernelInv
<1>3. ASSUME NEW place \in Places, KernelSubmit(place) PROVE KernelInv' /\ ListInv'
  BY <1>3, SubmitKeepsKernel DEF KernelSubmit, stateVars, ListInv, Elements, Apart
<1>4. ASSUME NEW place \in Places, Backmerge(place) PROVE KernelInv' /\ ListInv'
  BY <1>4, BackmergeFollows
<1>5. ASSUME NEW place \in Places, NEW new \in Places, Remap(place, new)
      PROVE  KernelInv' /\ ListInv'
  BY <1>5, RemapFollows
<1>6. ASSUME NEW place \in Places, NEW size, Issue(place, size) PROVE KernelInv' /\ ListInv'
  <2>1. KernelIssue(place, size) /\ Tick /\ UNCHANGED <<remaps, trace, strays>>
    BY <1>6 DEF Issue, TraceIssue, Tick, KernelIssue
  <2> QED BY <2>1, IssueKeepsKernel DEF ListInv, Elements, Apart
<1>7. ASSUME NEW place \in Places, NEW size, Complete(place, size) PROVE KernelInv' /\ ListInv'
  BY <1>7, CompleteRest
<1>8. CASE UNCHANGED blockVars
  <2>1. UNCHANGED <<trace, now, remaps, queued, issued, strays>>
    BY <1>8 DEF blockVars, stateVars, kernelVars
  <2>2. Bios' = Bios /\ Entries' = Entries
    BY <2>1 DEF Bios, Entries
  <2>3. KernelInv'
    BY <2>1, <2>2 DEF KernelInv
  <2>4. Apart(remaps)' /\ Elements(remaps)' = Elements(remaps)
    BY <2>1 DEF ListInv, Apart, Elements
  <2> QED BY <2>1, <2>2, <2>3, <2>4 DEF ListInv
<1>9. ASSUME NEW place \in Places, KernelFrontmerge(place) PROVE KernelInv' /\ ListInv'
  BY <1>9, FrontmergeFollows
<1> QED BY <1>2, <1>3, <1>4, <1>5, <1>6, <1>7, <1>8, <1>9 DEF BlockNext

\* With a complete trace the list of remappings holds, once each, those of the
\* bios in flight and no other, but where a merge which the provider does not
\* handle has left one (block.py:39-62, 94-98).
THEOREM BlockRemaps == BlockSpec => []RemapsAreLive
<1>1. BlockInit => KernelInv /\ ListInv
  BY KernelInit DEF ListInv, Elements, Apart, BlockInit
<1>2. ListInv => RemapsAreLive
  <2> SUFFICES ASSUME ListInv, trace.lossless
               PROVE  /\ {r \in ToSet(remaps) : r.at \notin strays}
                           = {[at |-> b.at, old |-> b.top] :
                                b \in {q \in queued \cup issued : q.at \notin strays \cup {q.top}}}
                      /\ \A i, j \in DOMAIN remaps :
                           remaps[i].at = remaps[j].at /\ remaps[i].at \notin strays => i = j
    BY DEF RemapsAreLive
  <2>1. DOMAIN remaps = 1 .. Len(remaps)
    BY DEF ListInv
  <2>2. \A e : e.at \notin strays => (e \in ToSet(remaps) <=> e \in Entries)
    BY <2>1 DEF ListInv, ToSet, Elements
  <2> DEFINE Live == {[at |-> b.at, old |-> b.top] :
                        b \in {q \in queued \cup issued : q.at \notin strays \cup {q.top}}}
  <2>3. \A e : e \in Live <=> e \in Entries /\ e.at \notin strays
    BY DEF Entries, Entry, Bios
  <2> HIDE DEF Live
  <2>4. {r \in ToSet(remaps) : r.at \notin strays} = Live
    BY <2>2, <2>3
  <2>5. \A i, j \in DOMAIN remaps :
          remaps[i].at = remaps[j].at /\ remaps[i].at \notin strays => i = j
    BY <2>1 DEF ListInv, Apart
  <2> QED BY <2>4, <2>5 DEF Live
<1> QED BY <1>1, <1>2, ListNext, PTL DEF BlockSpec

-----------------------------------------------------------------------------
(* With a complete trace, and no device striped over several disks: the    *)
(* notified requests.                                                      *)

Disk == CHOOSE disk \in [Devs -> Devs] : Carries(disk)

\* What the device that a request is charged to, and its sector, are.
KeyOf(r) == <<DiskOf(r.at), r.at.sector>>

\* The pending requests are those issued, at the keys that they are looked up
\* by. All remappings, those left behind too, are within one disk.
PendingInv ==
    trace.lossless =>
      /\ \A i \in 1 .. Len(remaps) : Disk[remaps[i].old.dev] = Disk[remaps[i].at.dev]
      /\ \A r \in issued : Layout[r.at] = None
      /\ DOMAIN pending = {KeyOf(r) : r \in issued}
      /\ \A r \in issued : pending[KeyOf(r)].begin = r.begin /\ pending[KeyOf(r)].size = r.size
      /\ ReportIsExact

\* The device of the oldest remapping is the one that the bio began at.
LEMMA ChargedToTop ==
    ASSUME KernelInv, ListInv, trace.lossless, NEW b \in Bios, b.at \notin strays
    PROVE  DiskOf(b.at) = b.top.dev
<1> DEFINE m == Matches(b.at)
<1>1. \/ m = 0 /\ \A i \in 1 .. Len(remaps) : remaps[i].at # b.at
      \/ m \in 1 .. Len(remaps) /\ remaps[m].at = b.at
  BY FirstAt DEF ListInv
<1>2. DiskOf(b.at) = IF m = 0 THEN b.at.dev ELSE remaps[m].old.dev
  BY DEF DiskOf
<1>0. m = 0 => m \notin 1 .. Len(remaps)
  OBVIOUS
<1> HIDE DEF m
<1>3. CASE m = 0
  <2>1. b.at # b.top => Entry(b) \in Entries /\ Entry(b).at = b.at
    BY DEF Entries, Entry
  <2>2. b.at # b.top => Entry(b) \in Elements(remaps)
    BY <2>1 DEF ListInv
  <2> QED BY <1>0, <1>1, <1>2, <1>3, <2>1, <2>2 DEF Elements
<1>4. CASE m # 0
  <2>1. m \in 1 .. Len(remaps) /\ remaps[m] \in Entries /\ remaps[m].at = b.at
    <3>1. m \in 1 .. Len(remaps) /\ remaps[m] \in Elements(remaps) /\ remaps[m].at = b.at
      BY <1>1, <1>4 DEF Elements
    <3> QED BY <3>1 DEF ListInv
  <2>2. PICK c \in Bios : remaps[m] = Entry(c)
    BY <2>1 DEF Entries
  <2>3. c.at = b.at /\ remaps[m].old = c.top
    BY <2>1, <2>2 DEF Entry
  <2>4. c.top = b.top
    BY <2>3 DEF KernelInv, Bios
  <2> QED BY <1>2, <1>4, <2>3, <2>4
<1> QED BY <1>3, <1>4

LEMMA DiskIsDev ==
    ASSUME ListInv, trace.lossless, NEW place \in Places PROVE DiskOf(place) \in Devs
<1> DEFINE m == Matches(place)
<1>1. m = 0 \/ m \in 1 .. Len(remaps)
  BY FirstAt DEF ListInv
<1>2. DiskOf(place) = IF m = 0 THEN place.dev ELSE remaps[m].old.dev
  BY DEF DiskOf
<1> HIDE DEF m
<1>3. m \in 1 .. Len(remaps) => remaps[m] \in Remapping
  BY DEF ListInv
<1> QED BY <1>1, <1>2, <1>3 DEF Remapping, Places

\* Wherever a request is charged is on its disk.
LEMMA ChargedOnDisk ==
    ASSUME KernelInv, ListInv, PendingInv, trace.lossless, NEW place
    PROVE  Disk[DiskOf(place)] = Disk[place.dev]
<1> DEFINE m == Matches(place)
<1>1. m = 0 \/ (m \in 1 .. Len(remaps) /\ remaps[m].at = place)
  BY FirstAt DEF ListInv
<1>2. DiskOf(place) = IF m = 0 THEN place.dev ELSE remaps[m].old.dev
  BY DEF DiskOf
<1> HIDE DEF m
<1> QED BY <1>1, <1>2 DEF PendingInv

\* Two requests on disks have different keys.
LEMMA KeysDiffer ==
    ASSUME OneDisk, KernelInv, ListInv, PendingInv, trace.lossless,
           NEW a, NEW b, a.at \in Places, b.at \in Places, KeyOf(a) = KeyOf(b),
           Layout[a.at] = None, Layout[b.at] = None
    PROVE  a.at = b.at
<1>1. Carries(Disk)
  BY DEF OneDisk, Disk
<1>2. Disk[a.at.dev] = a.at.dev /\ Disk[b.at.dev] = b.at.dev
  BY <1>1 DEF Carries
<1>3. Disk[DiskOf(a.at)] = a.at.dev /\ Disk[DiskOf(b.at)] = b.at.dev
  BY <1>2, ChargedOnDisk
<1>4. DiskOf(a.at) = DiskOf(b.at) /\ a.at.sector = b.at.sector
  BY DEF KeyOf
<1>5. a.at.dev = b.at.dev
  BY <1>3, <1>4
<1> QED BY <1>4, <1>5 DEF Places

\* A layer below is on the same disk.
LEMMA SameDisk ==
    ASSUME OneDisk, NEW old \in Places, Layout[old] \in Places, Layout[old] # None
    PROVE  Disk[old.dev] = Disk[Layout[old].dev]
<1>1. Carries(Disk)
  BY DEF OneDisk, Disk
<1> QED BY <1>1 DEF Carries

\* The requests issued keep their keys.
LEMMA KeysStay ==
    ASSUME PendingInv, trace.lossless, trace' = trace, issued' = issued, pending' = pending,
           \A r \in issued : DiskOf(r.at)' = DiskOf(r.at),
           \A i \in 1 .. Len(remaps') : Disk[remaps'[i].old.dev] = Disk[remaps'[i].at.dev],
           ReportIsExact'
    PROVE  PendingInv'
<1>1. \A r \in issued : KeyOf(r)' = KeyOf(r)
  BY DEF KeyOf
<1>2. DOMAIN pending' = {KeyOf(r)' : r \in issued'}
  BY <1>1 DEF PendingInv
<1>3. \A r \in issued' : /\ pending'[KeyOf(r)'].begin = r.begin
                         /\ pending'[KeyOf(r)'].size = r.size
  BY <1>1 DEF PendingInv
<1> QED BY <1>2, <1>3 DEF PendingInv

LEMMA IssueFollows ==
    ASSUME OneDisk, KernelInv, ListInv, PendingInv, trace.lossless, NEW place \in Places, NEW size,
           Issue(place, size)
    PROVE  PendingInv'
<1>1. /\ KernelIssue(place, size) /\ Tick /\ TraceIssue(place, size)
      /\ UNCHANGED <<trace, remaps>>
  BY DEF Issue, Tick, TraceIssue
<1>2. PICK r \in Requests :
         /\ r.at = place /\ r.size = size /\ r.begin = now' /\ Layout[r.at] = None
         /\ issued' = issued \cup {r} /\ \A x \in issued : x.at # place
         /\ \E b \in queued : b.at = place /\ b.top = r.top
         /\ Bios' \subseteq Bios \cup {r}
  BY <1>1, IssueKeepsKernel
<1>3. \A x \in issued : x \in Requests
  BY DEF KernelInv
<1>4. size # 0
  BY <1>2 DEF Requests
<1> DEFINE new == [begin |-> now', size |-> size]
<1>5. pending' = Put(pending, KeyOf(r), new)
  BY <1>1, <1>2, <1>4 DEF TraceIssue, KeyOf
<1>6. new.begin = r.begin /\ new.size = r.size
  BY <1>2
<1> HIDE DEF new
<1>7. \A x : KeyOf(x)' = KeyOf(x)
  BY <1>1 DEF KeyOf, DiskOf, Matches, SelectInSeq
<1>8. \A x \in issued : KeyOf(x) # KeyOf(r)
  <2> TAKE x \in issued
  <2>1. x.at # r.at /\ x.at \in Places /\ r.at \in Places /\ Layout[x.at] = None
    BY <1>2, <1>3 DEF PendingInv, Requests
  <2> QED BY <1>2, <2>1, KeysDiffer
<1>9. /\ DOMAIN pending' = DOMAIN pending \cup {KeyOf(r)} /\ pending'[KeyOf(r)] = new
      /\ \A k \in DOMAIN pending : k # KeyOf(r) => pending'[k] = pending[k]
  BY <1>5 DEF Put
<1>10. ReportIsExact'
  BY <1>1 DEF TraceIssue, NoReport, KernelIssue, ReportIsExact
<1>11. \A x \in issued : KeyOf(x) \in DOMAIN pending
  BY DEF PendingInv
<1>12. DOMAIN pending' = {KeyOf(x)' : x \in issued'}
  <2>1. DOMAIN pending' = {KeyOf(x) : x \in issued'}
    BY <1>2, <1>9 DEF PendingInv
  <2> QED BY <1>7, <2>1
<1>13. \A x \in issued' : /\ pending'[KeyOf(x)'].begin = x.begin
                          /\ pending'[KeyOf(x)'].size = x.size
  <2>1. \A x \in issued' : pending'[KeyOf(x)].begin = x.begin /\ pending'[KeyOf(x)].size = x.size
    BY <1>2, <1>6, <1>8, <1>9, <1>11 DEF PendingInv
  <2> QED BY <1>7, <2>1
<1>14. /\ \A i \in 1 .. Len(remaps') : Disk[remaps'[i].old.dev] = Disk[remaps'[i].at.dev]
       /\ \A x \in issued' : Layout[x.at] = None
  BY <1>1, <1>2 DEF PendingInv
<1> QED BY <1>10, <1>12, <1>13, <1>14 DEF PendingInv

\* What the list may still have after a removal.
LEMMA StaysOnDisk ==
    ASSUME PendingInv, trace.lossless, \A e \in Elements(remaps') : e \in Elements(remaps)
    PROVE  \A i \in 1 .. Len(remaps') : Disk[remaps'[i].old.dev] = Disk[remaps'[i].at.dev]
<1> TAKE i \in 1 .. Len(remaps')
<1>1. remaps'[i] \in Elements(remaps)
  BY DEF Elements
<1>2. PICK j \in 1 .. Len(remaps) : remaps'[i] = remaps[j]
  BY <1>1 DEF Elements
<1> QED BY <1>2 DEF PendingInv

LEMMA CompleteFollows ==
    ASSUME OneDisk, KernelInv, ListInv, PendingInv, trace.lossless, NEW place \in Places, NEW size,
           Complete(place, size)
    PROVE  PendingInv'
<1>1. /\ KernelComplete(place, size) /\ Tick /\ TraceComplete(place, size)
      /\ UNCHANGED <<trace, strays>>
  BY DEF Complete, Tick, KernelComplete
<1>2. PICK r \in issued :
         /\ r.at = place /\ r.size = size
         /\ issued' = issued \ {r}
         /\ truth' = [disk |-> r.top.dev, begin |-> r.begin, size |-> size, at |-> place]
  BY <1>1, CompleteKeepsKernel
<1>3. size \in Nat \ {0}
  BY <1>1, CompleteKeepsKernel
<1>4. \A x \in issued : x \in Bios /\ x \in Requests /\ x.at \in Places /\ Layout[x.at] = None
  BY DEF Bios, Requests, KernelInv, PendingInv
<1>5. place \notin strays => DiskOf(place) = r.top.dev
  BY <1>2, <1>4, ChargedToTop
<1>0. /\ \A e \in Elements(remaps') : e \in Elements(remaps)
      /\ \A p : p # place => DiskOf(p)' = DiskOf(p)
  BY CompleteRest
<1> DEFINE key == KeyOf(r)
<1>6. /\ key \in DOMAIN pending /\ pending[key].size = size /\ pending[key].begin = r.begin
      /\ key = <<DiskOf(place), place.sector>> /\ key[1] = DiskOf(place)
  BY <1>2 DEF PendingInv, KeyOf
<1> HIDE DEF key
<1>7. /\ pending' = Without(pending, key)
      /\ report' = [disk |-> DiskOf(place), begin |-> r.begin, size |-> size]
  BY <1>1, <1>3, <1>6 DEF TraceComplete
<1>8. \A x \in issued : x # r => KeyOf(x) # key /\ x.at # place
  <2> SUFFICES ASSUME NEW x \in issued, x # r PROVE KeyOf(x) # KeyOf(r) /\ x.at # place
    BY DEF key
  <2>1. x.at # r.at
    BY DEF KernelInv
  <2>2. x.at \in Places /\ r.at \in Places /\ Layout[x.at] = None /\ Layout[r.at] = None
    BY <1>4
  <2> QED BY <1>2, <2>1, <2>2, KeysDiffer
<1>9. /\ DOMAIN pending' = DOMAIN pending \ {key}
      /\ \A k \in DOMAIN pending' : pending'[k] = pending[k]
  BY <1>7 DEF Without
<1>10. \A x \in issued' : KeyOf(x)' = KeyOf(x)
  BY <1>0, <1>2, <1>8 DEF KeyOf
<1>11. DOMAIN pending' = {KeyOf(x) : x \in issued'}
  BY <1>2, <1>8, <1>9 DEF PendingInv, key
<1>12. \A x \in issued' : pending'[KeyOf(x)].begin = x.begin /\ pending'[KeyOf(x)].size = x.size
  BY <1>2, <1>9, <1>11 DEF PendingInv
<1>13. ReportIsExact'
  <2>1. report' # None /\ truth' # None
    <3>1. r.top.dev \in Devs /\ r.begin \in Nat /\ size \in Nat /\ DiskOf(place) \in Devs
      BY <1>3, <1>4, DiskIsDev DEF Requests, Places
    <3>2. /\ report' \in [disk : Devs, begin : Nat, size : Nat]
          /\ truth' \in [disk : Devs, begin : Nat, size : Nat, at : Places]
      BY <1>2, <1>7, <3>1
    <3> QED BY <3>2, BlockAssumption
  <2> QED BY <1>1, <1>2, <1>5, <1>7, <2>1 DEF ReportIsExact
<1>14. \A i \in 1 .. Len(remaps') : Disk[remaps'[i].old.dev] = Disk[remaps'[i].at.dev]
  BY <1>0, StaysOnDisk
<1>15. /\ DOMAIN pending' = {KeyOf(x)' : x \in issued'}
       /\ \A x \in issued' : /\ pending'[KeyOf(x)'].begin = x.begin
                             /\ pending'[KeyOf(x)'].size = x.size
       /\ \A x \in issued' : Layout[x.at] = None
  BY <1>2, <1>4, <1>10, <1>11, <1>12
<1> QED BY <1>13, <1>14, <1>15 DEF PendingInv

LEMMA PendingNext ==
    ASSUME OneDisk, KernelInv, ListInv, PendingInv, [BlockNext]_blockVars PROVE PendingInv'
<1>1. ASSUME ~trace.lossless PROVE PendingInv'
  BY <1>1 DEF BlockNext, KernelSubmit, KernelFrontmerge, Backmerge, Remap, Issue, Complete, Tick,
              PendingInv, blockVars
<1> SUFFICES ASSUME trace.lossless PROVE PendingInv'
  BY <1>1
<1>2. trace.places \subseteq Places
  BY BlockAssumption DEF KernelInv
<1>3. ASSUME UNCHANGED <<trace, issued, pending, remaps>>, ReportIsExact' PROVE PendingInv'
  <2>1. \A r \in issued : DiskOf(r.at)' = DiskOf(r.at)
    BY <1>3 DEF DiskOf, Matches, SelectInSeq
  <2>2. \A i \in 1 .. Len(remaps') : Disk[remaps'[i].old.dev] = Disk[remaps'[i].at.dev]
    BY <1>3 DEF PendingInv
  <2> QED BY <1>3, <2>1, <2>2, KeysStay
<1>4. ASSUME NEW place \in Places, KernelSubmit(place) PROVE PendingInv'
  <2>1. ReportIsExact'
    BY <1>4 DEF KernelSubmit, stateVars, PendingInv, ReportIsExact
  <2> QED BY <1>3, <1>4, <2>1 DEF KernelSubmit, stateVars
<1>5. ASSUME NEW place \in Places, KernelFrontmerge(place) PROVE PendingInv'
  <2>1. strays \subseteq strays' /\ UNCHANGED <<trace, report, truth, issued, pending, remaps>>
    BY <1>5 DEF KernelFrontmerge, stateVars
  <2>2. ReportIsExact'
    BY <2>1 DEF PendingInv, ReportIsExact
  <2> QED BY <1>3, <2>1, <2>2
<1>6. ASSUME NEW place \in Places, Backmerge(place) PROVE PendingInv'
  <2>1. /\ KernelBackmerge(place) /\ UNCHANGED <<trace, issued, pending>>
        /\ report' = None /\ truth' = None
    BY <1>6 DEF Backmerge, TraceBackmerge, Tick, KernelBackmerge, NoReport
  <2>2. \A r \in issued : r.at # place
    BY <2>1 DEF KernelBackmerge, KernelJoin, KernelInv
  <2>3. \A r \in issued : DiskOf(r.at)' = DiskOf(r.at)
    BY <1>6, <2>2, BackmergeFollows
  <2>4. \A i \in 1 .. Len(remaps') : Disk[remaps'[i].old.dev] = Disk[remaps'[i].at.dev]
    BY <1>6, BackmergeFollows, StaysOnDisk
  <2>5. ReportIsExact'
    BY <2>1 DEF ReportIsExact
  <2> QED BY <2>1, <2>3, <2>4, <2>5, KeysStay
<1>7. ASSUME NEW place \in Places, NEW new \in Places, Remap(place, new)
      PROVE  PendingInv'
  <2>1. /\ KernelRemap(place, new) /\ UNCHANGED <<trace, issued, pending>>
        /\ report' = None /\ truth' = None /\ Layout[place] = new /\ new # None
    BY <1>7, BlockAssumption DEF Remap, TraceRemap, Tick, KernelRemap, NoReport
  <2>2. \A r \in issued : r.at # place /\ r.at # new
    <3> TAKE r \in issued
    <3>1. r \in Bios /\ Layout[r.at] = None
      BY DEF Bios, PendingInv
    <3>2. r.at # new
      BY <2>1, <3>1, AtInFlight DEF KernelRemap
    <3> QED BY <2>1, <3>1, <3>2
  <2>3. \A r \in issued : DiskOf(r.at)' = DiskOf(r.at)
    BY <1>7, <2>2, RemapFollows
  <2>4. Disk[place.dev] = Disk[new.dev]
    BY <2>1, SameDisk
  <2>5. \A i \in 1 .. Len(remaps') : Disk[remaps'[i].old.dev] = Disk[remaps'[i].at.dev]
    <3> TAKE i \in 1 .. Len(remaps')
    <3>1. \/ i \in 1 .. Len(remaps) /\ remaps'[i] = remaps[i]
          \/ i \in 1 .. Len(remaps) /\ remaps[i].at = place /\ remaps'[i].at = new
             /\ remaps'[i].old = remaps[i].old
          \/ remaps'[i].at = new /\ remaps'[i].old = place
      BY <1>7, RemapFollows
    <3> QED BY <2>4, <3>1 DEF PendingInv
  <2>6. ReportIsExact'
    BY <2>1 DEF ReportIsExact
  <2> QED BY <2>1, <2>3, <2>5, <2>6, KeysStay
<1>8. ASSUME NEW place \in Places, NEW size, Issue(place, size) PROVE PendingInv'
  BY <1>8, IssueFollows
<1>9. ASSUME NEW place \in Places, NEW size, Complete(place, size) PROVE PendingInv'
  BY <1>9, CompleteFollows
<1>10. CASE UNCHANGED blockVars
  <2>1. UNCHANGED <<trace, pending, report, truth, issued, remaps, strays>>
    BY <1>10 DEF blockVars, stateVars, kernelVars
  <2>2. ReportIsExact'
    BY <2>1 DEF PendingInv, ReportIsExact
  <2> QED BY <1>3, <2>1, <2>2
<1> QED BY <1>2, <1>4, <1>5, <1>6, <1>7, <1>8, <1>9, <1>10 DEF BlockNext

\* With a complete trace each completion notifies the request that completed,
\* with its own issue date, and charges it to the device it was submitted to
\* unless a merge which the provider does not handle has left a remapping at its
\* place, when no device is striped over several disks: the pending requests of
\* a device are told apart by the sector of the disk alone (block.py:74-82,
\* 94-120).
THEOREM BlockReports ==
    ASSUME OneDisk PROVE BlockSpec => []ReportIsExact
<1>1. BlockInit => KernelInv /\ ListInv /\ PendingInv
  BY KernelInit DEF ListInv, Elements, Apart, BlockInit, PendingInv, ReportIsExact
<1>2. KernelInv /\ ListInv /\ PendingInv /\ [BlockNext]_blockVars
        => (KernelInv /\ ListInv /\ PendingInv)'
  BY ListNext, PendingNext
<1>3. PendingInv => ReportIsExact
  BY DEF PendingInv, ReportIsExact
<1> QED BY <1>1, <1>2, <1>3, PTL DEF BlockSpec
=============================================================================

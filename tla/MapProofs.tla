-------------------------------- MODULE MapProofs ------------------------------
(***************************************************************************)
(* The two maps of the mapper, of whatever size.                           *)
(*                                                                         *)
(* The voxel map, for any depth of the octree, any cells and thresholds: a *)
(* node of the tree has only split nodes above it and a split node never   *)
(* becomes anything else, so no plane is hidden; and every node is either  *)
(* waiting for few points, learning with a fit that is at most as old as   *)
(* UpdateThreshold points, or stopped, so planes are fresh and memory is   *)
(* bounded.                                                                *)
(*                                                                         *)
(* The visual map, for any world, image and thresholds: every point keeps  *)
(* its reference among its observations, at least one and at most MaxObs   *)
(* of them, and none is made twice while the map fills the image's cells.  *)
(***************************************************************************)
EXTENDS VoxelOctree, VisualMap, FiniteSetTheorems, SequenceTheorems, WellFoundedInduction, TLAPS

(* The nodes above cell c, by their layer.                                 *)
Above(c, n) == SubSeq(c, 1, n)

Layers == 0 .. MaxLayer

\* A node on layer n knows the leaf numbers that lead to it, and no more.
LEMMA AboveIsPath ==
  ASSUME NEW c \in Cells, NEW n \in Layers
  PROVE  /\ Above(c, n) \in Seq(0 .. 7) /\ Len(Above(c, n)) = n
         /\ \A i \in 1 .. n : Above(c, n)[i] = c[i]
<1>1. c \in Seq(0 .. 7) /\ Len(c) = MaxLayer
  BY CellsAssumption
<1> QED BY <1>1, CellsAssumption DEF Above, Layers

\* Nodes above a node are those above its cells.
LEMMA AboveAbove ==
  ASSUME NEW c \in Cells, NEW n \in Layers, NEW m \in 0 .. n
  PROVE  SubSeq(Above(c, n), 1, m) = Above(c, m)
<1>1. m \in Layers
  BY CellsAssumption DEF Layers
<1>2. c \in Seq(0 .. 7) /\ Len(c) = MaxLayer
  BY CellsAssumption
<1>3. /\ Above(c, n) \in Seq(0 .. 7) /\ Len(Above(c, n)) = n
      /\ \A i \in 1 .. n : Above(c, n)[i] = c[i]
  BY AboveIsPath
<1>4. SubSeq(Above(c, n), 1, m) = [i \in 1 .. m |-> Above(c, n)[i]]
  BY <1>3, CellsAssumption DEF Layers
<1>5. Above(c, m) = [i \in 1 .. m |-> c[i]]
  BY <1>1, <1>2, CellsAssumption DEF Above, Layers
<1>6. \A i \in 1 .. m : Above(c, n)[i] = c[i]
  BY <1>3, CellsAssumption DEF Layers
<1> QED BY <1>4, <1>5, <1>6

\* The nodes above a node, by layers.
LEMMA PrefixesAbove ==
  ASSUME NEW c \in Cells, NEW n \in Layers
  PROVE  Prefixes(Above(c, n)) = {Above(c, m) : m \in 0 .. n}
<1>1. Len(Above(c, n)) = n
  BY AboveIsPath
<1>2. \A m \in 0 .. n : SubSeq(Above(c, n), 1, m) = Above(c, m)
  BY AboveAbove
<1> QED BY <1>1, <1>2 DEF Prefixes

LEMMA CellItself == ASSUME NEW c \in Cells PROVE Above(c, MaxLayer) = c
<1>1. c \in Seq(0 .. 7) /\ Len(c) = MaxLayer
  BY CellsAssumption
<1> QED BY <1>1, CellsAssumption DEF Above

LEMMA PathsAbove == Paths = {Above(c, n) : c \in Cells, n \in Layers}
<1>1. \A c \in Cells : Prefixes(c) = {Above(c, n) : n \in Layers}
  <2> SUFFICES ASSUME NEW c \in Cells PROVE Prefixes(c) = {Above(c, n) : n \in Layers}
    OBVIOUS
  <2>1. MaxLayer \in Layers
    BY CellsAssumption DEF Layers
  <2> QED BY <2>1, PrefixesAbove, CellItself DEF Layers
<1> QED BY <1>1 DEF Paths

\* A node is above another of the same cell when its layer is.
LEMMA PrefixOrder ==
  ASSUME NEW c \in Cells, NEW m \in Layers, NEW n \in Layers
  PROVE  /\ IsPrefix(Above(c, m), Above(c, n)) <=> m <= n
         /\ IsStrictPrefix(Above(c, m), Above(c, n)) <=> m < n
         /\ Above(c, m) = Above(c, n) <=> m = n
<1>1. Len(Above(c, m)) = m /\ Len(Above(c, n)) = n /\ m \in Nat /\ n \in Nat
  BY AboveIsPath, CellsAssumption DEF Layers
<1>2. IsPrefix(Above(c, m), Above(c, n)) <=> m <= n
  <2>1. CASE m <= n
    <3>1. SubSeq(Above(c, n), 1, m) = Above(c, m)
      BY <1>1, <2>1, AboveAbove
    <3>2. SubSeq(Above(c, m), 1, m) = Above(c, m)
      BY <1>1, AboveAbove
    <3> QED BY <1>1, <2>1, <3>1, <3>2 DEF IsPrefix
  <2>2. CASE ~(m <= n)
    BY <1>1, <2>2 DEF IsPrefix
  <2> QED BY <2>1, <2>2
<1>3. Above(c, m) = Above(c, n) <=> m = n
  BY <1>1
<1> QED BY <1>1, <1>2, <1>3 DEF IsStrictPrefix

\* A node that has a node of the tree below it is above the same cells.
LEMMA BelowSameCell ==
  ASSUME NEW c \in Cells, NEW n \in Layers, NEW p \in Paths, IsPrefix(p, Above(c, n))
  PROVE  Len(p) \in 0 .. n /\ p = Above(c, Len(p))
<1>1. PICK d \in Cells, m \in Layers : p = Above(d, m)
  BY PathsAbove
<1>2. Len(p) = m /\ m \in Nat /\ n \in Nat
  BY <1>1, AboveIsPath, CellsAssumption DEF Layers
<1>3. Len(Above(c, n)) = n
  BY AboveIsPath
<1>4. m <= n
  BY <1>2, <1>3 DEF IsPrefix
<1>5. SubSeq(p, 1, m) = p
  BY <1>1, <1>2, AboveAbove
<1>6. SubSeq(Above(c, n), 1, m) = Above(c, m)
  BY <1>2, <1>4, AboveAbove
<1> QED BY <1>2, <1>4, <1>5, <1>6 DEF IsPrefix

-------------------------------------------------------------------------------
(* The shape of the tree.                                                  *)

Fields == {"made", "temp_points", "new_points", "init_octo", "update_enable", "is_plane",
           "points_size"}

Shape(t) == t = [p \in Paths |-> t[p]] /\ \A p \in Paths : DOMAIN t[p] = Fields

(* Whatever is in the tree hangs below split nodes only.                   *)
SplitAbove(t) ==
  \A c \in Cells, n \in Layers :
    t[Above(c, n)].made => \A m \in 0 .. n - 1 : IsSplit(t, Above(c, m))

\* What SplitAbove says of a path, and back.
LEMMA SplitAbovePaths ==
  ASSUME NEW t
  PROVE  SplitAbove(t) <=>
           \A q, r \in Paths : t[q].made /\ IsStrictPrefix(r, q) => IsSplit(t, r)
<1>1. ASSUME SplitAbove(t), NEW q \in Paths, NEW r \in Paths, t[q].made, IsStrictPrefix(r, q)
      PROVE  IsSplit(t, r)
  <2>1. PICK c \in Cells, n \in Layers : q = Above(c, n)
    BY PathsAbove
  <2>2. Len(r) \in 0 .. n /\ r = Above(c, Len(r))
    BY <1>1, <2>1, BelowSameCell DEF IsStrictPrefix
  <2>3. Len(r) # n
    BY <1>1, <2>1, <2>2 DEF IsStrictPrefix
  <2>4. Len(r) \in 0 .. n - 1
    BY <2>2, <2>3, CellsAssumption DEF Layers
  <2> QED BY <1>1, <2>1, <2>2, <2>4 DEF SplitAbove
<1>2. ASSUME \A q, r \in Paths : t[q].made /\ IsStrictPrefix(r, q) => IsSplit(t, r),
             NEW c \in Cells, NEW n \in Layers, t[Above(c, n)].made, NEW m \in 0 .. n - 1
      PROVE  IsSplit(t, Above(c, m))
  <2>1. m \in Layers /\ m < n
    BY CellsAssumption DEF Layers
  <2>2. Above(c, m) \in Paths /\ Above(c, n) \in Paths
    BY <2>1, PathsAbove
  <2>3. IsStrictPrefix(Above(c, m), Above(c, n))
    BY <2>1, PrefixOrder
  <2> QED BY <1>2, <2>2, <2>3
<1> QED BY <1>1, <1>2 DEF SplitAbove

\* Above is above: nodes over the same node are over each other.
LEMMA StrictPrefixes ==
  ASSUME NEW p \in Paths, NEW q \in Paths, NEW r \in Paths, IsStrictPrefix(r, q)
  PROVE  /\ IsStrictPrefix(q, p) => IsStrictPrefix(r, p)
         /\ IsStrictPrefix(p, q) => r = p \/ IsStrictPrefix(r, p) \/ IsStrictPrefix(p, r)
         /\ q # r
         /\ ~IsStrictPrefix(q, r)
         /\ \A c \in Cells : IsPrefix(q, c) => IsPrefix(r, c)
<1>1. PICK c \in Cells, n \in Layers : q = Above(c, n)
  BY PathsAbove
<1>2. n \in Nat /\ MaxLayer \in Nat
  BY CellsAssumption DEF Layers
<1>3. Len(r) \in 0 .. n /\ r = Above(c, Len(r)) /\ Len(r) \in Layers
  BY <1>1, <1>2, BelowSameCell DEF IsStrictPrefix, Layers
<1>4. Len(r) < n
  BY <1>1, <1>3, PrefixOrder
<1>5. ASSUME IsStrictPrefix(q, p) PROVE IsStrictPrefix(r, p)
  <2>1. PICK d \in Cells, k \in Layers : p = Above(d, k)
    BY PathsAbove
  <2>2. Len(q) \in 0 .. k /\ q = Above(d, Len(q)) /\ Len(q) \in Layers /\ k \in Nat
    BY <1>2, <1>5, <2>1, BelowSameCell DEF IsStrictPrefix, Layers
  <2>3. r = Above(d, Len(r)) /\ Len(r) \in 0 .. Len(q)
    BY <2>2, BelowSameCell DEF IsStrictPrefix
  <2>4. Len(q) = n /\ Len(q) < k
    BY <1>1, <1>5, <2>1, <2>2, AboveIsPath, PrefixOrder
  <2> QED BY <1>3, <1>4, <2>1, <2>2, <2>3, <2>4, PrefixOrder
<1>6. ASSUME IsStrictPrefix(p, q)
      PROVE  r = p \/ IsStrictPrefix(r, p) \/ IsStrictPrefix(p, r)
  <2>1. Len(p) \in 0 .. n /\ p = Above(c, Len(p)) /\ Len(p) \in Layers
    BY <1>1, <1>2, <1>6, BelowSameCell DEF IsStrictPrefix, Layers
  <2>2. Len(p) < Len(r) \/ Len(r) < Len(p) \/ Len(p) = Len(r)
    BY <1>2, <1>3, <2>1
  <2>3. Len(p) < Len(r) => IsStrictPrefix(p, r)
    BY <1>3, <2>1, PrefixOrder
  <2>4. Len(r) < Len(p) => IsStrictPrefix(r, p)
    BY <1>3, <2>1, PrefixOrder
  <2> QED BY <1>3, <2>1, <2>2, <2>3, <2>4
<1>7. q # r /\ ~IsStrictPrefix(q, r)
  BY <1>1, <1>2, <1>3, <1>4, PrefixOrder DEF IsStrictPrefix
<1>8. ASSUME NEW d \in Cells, IsPrefix(q, d) PROVE IsPrefix(r, d)
  <2>1. MaxLayer \in Layers /\ d = Above(d, MaxLayer)
    BY <1>2, CellItself DEF Layers
  <2>2. Len(q) \in 0 .. MaxLayer /\ q = Above(d, Len(q)) /\ Len(q) \in Layers
    BY <1>8, <2>1, BelowSameCell DEF Layers
  <2>3. r = Above(d, Len(r))
    BY <2>2, BelowSameCell DEF IsStrictPrefix
  <2>4. IsPrefix(r, Above(d, MaxLayer))
    BY <1>2, <1>3, <2>1, <2>3, PrefixOrder DEF Layers
  <2> QED BY <2>1, <2>4
<1> QED BY <1>5, <1>6, <1>7, <1>8

-------------------------------------------------------------------------------
(* The operations on the tree.                                             *)

(* A node no point goes further down from.                                 *)
CanLand(t, p) ==
  /\ p \in Paths
  /\ ~IsSplit(t, p)
  /\ \A q \in Paths : IsStrictPrefix(q, p) => IsSplit(t, q)

\* Such a node may be replaced by anything.
LEMMA Replaced ==
  ASSUME NEW t, NEW p, NEW node, Shape(t), SplitAbove(t), CanLand(t, p),
         DOMAIN node = Fields, NEW u, u = [t EXCEPT ![p] = node]
  PROVE  /\ Shape(u) /\ SplitAbove(u) /\ u[p] = node
         /\ \A q \in Paths : IsStrictPrefix(p, q) => ~u[q].made
<1>1. p \in Paths
  BY DEF CanLand
<1>2. u[p] = node /\ \A q \in Paths : q # p => u[q] = t[q]
  BY <1>1 DEF Shape
<1>3. Shape(u)
  BY <1>1 DEF Shape
<1>4. \A q, r \in Paths : t[q].made /\ IsStrictPrefix(r, q) => IsSplit(t, r)
  BY SplitAbovePaths
<1>5. \A q \in Paths : IsStrictPrefix(p, q) => ~u[q].made
  <2> SUFFICES ASSUME NEW q \in Paths, IsStrictPrefix(p, q), u[q].made PROVE FALSE
    OBVIOUS
  <2>1. q # p
    BY DEF IsStrictPrefix
  <2>2. t[q].made
    BY <1>2, <2>1
  <2>3. IsSplit(t, p)
    BY <1>1, <1>4, <2>2
  <2> QED BY <2>3 DEF CanLand
<1>6. ASSUME NEW q \in Paths, NEW r \in Paths, u[q].made, IsStrictPrefix(r, q)
      PROVE  IsSplit(u, r)
  <2>1. r # p
    BY <1>5, <1>6
  <2>2. IsSplit(t, r)
    <3>1. CASE q = p
      BY <1>6, <3>1 DEF CanLand
    <3>2. CASE q # p
      BY <1>2, <1>4, <1>6, <3>2
    <3> QED BY <3>1, <3>2
  <2> QED BY <1>2, <2>1, <2>2 DEF IsSplit
<1>7. SplitAbove(u)
  BY <1>6, SplitAbovePaths
<1> QED BY <1>2, <1>3, <1>5, <1>7

\* cut_octo_tree makes nodes below p under nodes it splits.
LEMMA CutPreserves ==
  ASSUME NEW t, NEW p \in Paths, NEW planes, Shape(t), SplitAbove(t), IsSplit(t, p),
         \A q \in Paths : IsStrictPrefix(p, q) => ~t[q].made,
         NEW u, u = CutBelow(t, p, planes)
  PROVE  Shape(u) /\ SplitAbove(u)
<1> DEFINE points == t[p].temp_points
           reached(q) ==
             /\ IsStrictPrefix(p, q)
             /\ \E c \in CellsUnder(q) : points[c] > 0
             /\ \A r \in Between(p, q) : r \notin planes /\ Enough(Under(points, r))
           leaf(q) == CutLeaf(Under(points, q), q \in planes)
<1>1. /\ u = [q \in Paths |-> IF reached(q) THEN leaf(q) ELSE t[q]]
  BY DEF CutBelow
<1>2. /\ \A q \in Paths : reached(q) => u[q] = leaf(q)
      /\ \A q \in Paths : ~reached(q) => u[q] = t[q]
      /\ u = [q \in Paths |-> u[q]]
  BY <1>1
<1>3. \A q \in Paths : DOMAIN leaf(q) = Fields
  BY DEF CutLeaf, FirstFit, Fitted, NewNode, Absent, Fields
<1>4. ASSUME NEW q \in Paths, q \notin planes, Enough(Under(points, q))
      PROVE  leaf(q).made /\ leaf(q).init_octo /\ ~leaf(q).is_plane
  BY <1>4 DEF CutLeaf, FirstFit, Fitted, NewNode, Absent
<1>5. ASSUME NEW q \in Paths, NEW r \in Paths, reached(q), IsStrictPrefix(r, q),
             IsStrictPrefix(p, r)
      PROVE  reached(r) /\ r \notin planes /\ Enough(Under(points, r))
  <2>1. r \in Prefixes(q)
    <3>1. PICK c \in Cells, n \in Layers : q = Above(c, n)
      BY PathsAbove
    <3>2. Len(r) \in 0 .. n /\ r = Above(c, Len(r))
      BY <1>5, <3>1, BelowSameCell DEF IsStrictPrefix
    <3> QED BY <3>1, <3>2, PrefixesAbove
  <2>2. r \in Between(p, q)
    BY <1>5, <2>1 DEF Between
  <2>3. CellsUnder(q) \subseteq CellsUnder(r)
    BY <1>5, StrictPrefixes DEF CellsUnder
  <2>4. Between(p, r) \subseteq Between(p, q)
    <3> SUFFICES ASSUME NEW s \in Between(p, r) PROVE s \in Between(p, q)
      OBVIOUS
    <3>1. IsStrictPrefix(p, s) /\ IsStrictPrefix(s, r) /\ s \in Prefixes(r)
      BY DEF Between
    <3>2. PICK c \in Cells, n \in Layers : q = Above(c, n)
      BY PathsAbove
    <3>3. Len(r) \in 0 .. n /\ r = Above(c, Len(r)) /\ Len(r) \in Layers /\ n \in Nat
      BY <1>5, <3>2, BelowSameCell, CellsAssumption DEF IsStrictPrefix, Layers
    <3>4. PICK m \in 0 .. Len(r) : s = Above(c, m)
      BY <3>1, <3>3, PrefixesAbove
    <3>5. m \in 0 .. n /\ m \in Layers
      BY <3>3, <3>4, CellsAssumption DEF Layers
    <3>6. s \in Prefixes(q) /\ s \in Paths
      BY <3>2, <3>4, <3>5, PrefixesAbove, PathsAbove
    <3>7. IsStrictPrefix(s, q)
      BY <1>5, <3>1, <3>6, StrictPrefixes
    <3> QED BY <3>1, <3>6, <3>7 DEF Between
  <2> QED BY <1>5, <2>2, <2>3, <2>4
<1>6. ~reached(p)
  BY DEF IsStrictPrefix
<1>7. \A q, r \in Paths : t[q].made /\ IsStrictPrefix(r, q) => IsSplit(t, r)
  BY SplitAbovePaths
<1> HIDE DEF points, reached, leaf
<1>8. IsSplit(u, p)
  BY <1>2, <1>6 DEF IsSplit
<1>9. ASSUME NEW r \in Paths, IsStrictPrefix(r, p) PROVE IsSplit(u, r)
  <2>1. IsSplit(t, r)
    BY <1>7, <1>9 DEF IsSplit
  <2>2. ~reached(r)
    BY <1>9, StrictPrefixes DEF reached
  <2> QED BY <1>2, <2>1, <2>2 DEF IsSplit
<1>10. ASSUME NEW q \in Paths, NEW r \in Paths, u[q].made, IsStrictPrefix(r, q)
       PROVE  IsSplit(u, r)
  <2>1. CASE ~reached(q)
    <3>1. t[q].made
      BY <1>2, <1>10, <2>1
    <3>2. IsSplit(t, r) /\ ~IsStrictPrefix(p, q)
      BY <1>7, <1>10, <3>1
    <3>3. ~IsStrictPrefix(p, r)
      BY <1>10, <3>2, StrictPrefixes
    <3>4. ~reached(r)
      BY <3>3 DEF reached
    <3> QED BY <1>2, <3>2, <3>4 DEF IsSplit
  <2>2. CASE reached(q)
    <3>1. IsStrictPrefix(p, q)
      BY <2>2 DEF reached
    <3>2. r = p \/ IsStrictPrefix(r, p) \/ IsStrictPrefix(p, r)
      BY <1>10, <3>1, StrictPrefixes
    <3>3. CASE IsStrictPrefix(p, r)
      <4>1. reached(r) /\ r \notin planes /\ Enough(Under(points, r))
        BY <1>5, <1>10, <2>2, <3>3
      <4>2. u[r] = leaf(r) /\ leaf(r).made /\ leaf(r).init_octo /\ ~leaf(r).is_plane
        BY <1>2, <1>4, <4>1
      <4>3. ~AtMaxLayer(r)
        <5>1. PICK c \in Cells, n \in Layers : q = Above(c, n)
          BY PathsAbove
        <5>2. Len(r) \in 0 .. n /\ r = Above(c, Len(r)) /\ Len(r) \in Layers /\ n \in Nat
          BY <1>10, <5>1, BelowSameCell, CellsAssumption DEF IsStrictPrefix, Layers
        <5>3. Len(r) < n
          BY <1>10, <5>1, <5>2, PrefixOrder
        <5> QED BY <5>1, <5>2, <5>3, CellsAssumption DEF AtMaxLayer, Layers
      <4> QED BY <4>2, <4>3 DEF IsSplit
    <3> QED BY <1>8, <1>9, <3>2, <3>3
  <2> QED BY <2>1, <2>2
<1>11. Shape(u)
  BY <1>2, <1>3 DEF Shape
<1>12. SplitAbove(u)
  BY <1>10, SplitAbovePaths
<1> QED BY <1>11, <1>12

\* init_octo_tree of a node no point goes further down from.
LEMMA InitOctoTreePreserves ==
  ASSUME NEW t, NEW p, NEW planes, NEW node, Shape(t), SplitAbove(t), CanLand(t, p),
         DOMAIN node = Fields, node.made,
         NEW u, u = InitOctoTree([t EXCEPT ![p] = node], p, planes)
  PROVE  Shape(u) /\ SplitAbove(u)
<1> DEFINE pushed == [t EXCEPT ![p] = node]
           first == FirstFit(node, p \in planes)
           fit == [pushed EXCEPT ![p] = first]
<1>1. p \in Paths
  BY DEF CanLand
<1>2. Shape(pushed) /\ SplitAbove(pushed) /\ pushed[p] = node
  <2>1. pushed[p] = node
    BY <1>1 DEF Shape
  <2>2. Shape(pushed)
    BY Replaced
  <2>3. SplitAbove(pushed)
    BY Replaced
  <2> QED BY <2>1, <2>2, <2>3
<1>3. DOMAIN first = Fields /\ first.made /\ first.init_octo /\ first.is_plane = (p \in planes)
  BY DEF FirstFit, Fitted, Fields
<1>4. fit = [t EXCEPT ![p] = first]
  BY <1>1 DEF Shape
<1> HIDE DEF first
<1>5. /\ Shape(fit) /\ SplitAbove(fit) /\ fit[p] = first
      /\ \A q \in Paths : IsStrictPrefix(p, q) => ~fit[q].made
  BY <1>3, <1>4, Replaced
<1>6. u = IF ~Enough(node.temp_points) THEN pushed
          ELSE IF p \in planes \/ AtMaxLayer(p) THEN fit ELSE CutBelow(fit, p, planes)
  <2>1. u = InitOctoTree(pushed, p, planes) /\ FirstFit(pushed[p], p \in planes) = first
    BY <1>2 DEF first
  <2> HIDE DEF pushed
  <2> QED BY <1>2, <2>1 DEF InitOctoTree
<1>7. ASSUME ~(p \in planes \/ AtMaxLayer(p)), u = CutBelow(fit, p, planes)
      PROVE  Shape(u) /\ SplitAbove(u)
  <2>1. IsSplit(fit, p)
    BY <1>3, <1>5, <1>7 DEF IsSplit
  <2> HIDE DEF fit
  <2> QED BY <1>1, <1>5, <1>7, <2>1, CutPreserves
<1> QED BY <1>2, <1>5, <1>6, <1>7

-------------------------------------------------------------------------------
(* The loop of UpdateVoxelMap.                                             *)

\* Every point lands somewhere: the node on the last layer is never split.
LEMMA LandingCanLand ==
  ASSUME NEW t, NEW c \in Cells
  PROVE  CanLand(t, Landing(t, c)) /\ IsPrefix(Landing(t, c), c)
<1> DEFINE Lands(p) == /\ ~IsSplit(t, p)
                       /\ \A r \in Prefixes(p) \ {p} : IsSplit(t, r)
           T == {n \in Layers : ~IsSplit(t, Above(c, n))}
<1>1. MaxLayer \in Layers /\ Layers \subseteq Nat /\ c = Above(c, MaxLayer)
  BY CellItself, CellsAssumption DEF Layers
<1>2. Prefixes(c) = {Above(c, n) : n \in Layers}
  BY <1>1, PrefixesAbove DEF Layers
<1>3. MaxLayer \in T
  BY <1>1, AboveIsPath DEF IsSplit, AtMaxLayer
<1>4. PICK n \in T : \A m \in T : ~(<<m, n>> \in OpToRel(<, Nat))
  <2>1. T \subseteq Nat /\ T # {}
    BY <1>1, <1>3
  <2> HIDE DEF T
  <2> QED BY <2>1, NatLessThanWellFounded, WFMin
<1>5. n \in Layers /\ n \in Nat /\ \A m \in T : ~(m < n)
  BY <1>1, <1>4 DEF OpToRel
<1>6. \A r \in Prefixes(Above(c, n)) \ {Above(c, n)} : IsSplit(t, r)
  <2> SUFFICES ASSUME NEW r \in Prefixes(Above(c, n)), r # Above(c, n) PROVE IsSplit(t, r)
    OBVIOUS
  <2>1. PICK m \in 0 .. n : r = Above(c, m)
    BY <1>5, PrefixesAbove
  <2>2. m # n
    BY <2>1
  <2>3. m \in Layers /\ m < n
    BY <1>5, <2>2, CellsAssumption DEF Layers
  <2> QED BY <1>5, <2>1, <2>3
<1>7. \E p \in Prefixes(c) : Lands(p)
  BY <1>2, <1>4, <1>5, <1>6
<1> DEFINE p == Landing(t, c)
<1>8. p \in Prefixes(c) /\ Lands(p)
  BY <1>7 DEF Landing
<1> HIDE DEF p
<1>9. PICK k \in Layers : p = Above(c, k)
  BY <1>2, <1>8
<1>10. p \in Paths
  BY <1>9, PathsAbove
<1>11. ASSUME NEW q \in Paths, IsStrictPrefix(q, p) PROVE IsSplit(t, q)
  <2>1. Len(q) \in 0 .. k /\ q = Above(c, Len(q))
    BY <1>9, <1>11, BelowSameCell DEF IsStrictPrefix
  <2>2. q \in Prefixes(p) /\ q # p
    BY <1>9, <1>11, <2>1, PrefixesAbove DEF IsStrictPrefix
  <2> QED BY <1>8, <2>2
<1>12. IsPrefix(p, c)
  <2>1. k <= MaxLayer
    BY CellsAssumption DEF Layers
  <2>2. IsPrefix(Above(c, k), Above(c, MaxLayer))
    BY <1>1, <2>1, PrefixOrder
  <2> QED BY <1>1, <1>9, <2>2
<1> QED BY <1>8, <1>10, <1>11, <1>12 DEF CanLand, p

LEMMA UpdatePreserves ==
  ASSUME NEW t, Shape(t), SplitAbove(t), NEW c \in Cells, NEW planes,
         NEW u, u = UpdateOctoTree(t, c, planes)
  PROVE  Shape(u) /\ SplitAbove(u)
<1> DEFINE p == Landing(t, c)
           node == t[p]
           limit == IF node.is_plane THEN MaxPoints ELSE MaxPoints + 1
           pushed == Pushed(node, c)
           learnt == Learn(node, c, p \in planes, limit)
<1>1. CanLand(t, p) /\ p \in Paths
  BY LandingCanLand DEF CanLand
<1>2. DOMAIN node = Fields
  BY <1>1 DEF Shape
<1>3. u = IF ~node.init_octo THEN InitOctoTree([t EXCEPT ![p] = pushed], p, planes)
          ELSE [t EXCEPT ![p] = learnt]
  BY DEF UpdateOctoTree
<1> HIDE DEF p, node, limit
<1>4. DOMAIN pushed = Fields /\ pushed.made
  BY <1>2 DEF Pushed, Fields
<1>5. DOMAIN learnt = Fields
  <2>1. \A n, planar : DOMAIN n = Fields => DOMAIN Refit(n, planar) = Fields
    BY DEF Refit, Fitted
  <2>2. \A n, l : DOMAIN n = Fields => DOMAIN Full(n, l) = Fields
    BY DEF Full
  <2> HIDE DEF pushed
  <2>3. learnt = IF node.update_enable THEN Full(Refit(pushed, p \in planes), limit) ELSE node
    BY DEF Learn, pushed
  <2> QED BY <1>2, <1>4, <2>1, <2>2, <2>3
<1> HIDE DEF pushed, learnt
<1>6. CASE ~node.init_octo
  <2>1. u = InitOctoTree([t EXCEPT ![p] = pushed], p, planes)
    BY <1>3, <1>6
  <2>2. Shape(t) /\ SplitAbove(t) /\ DOMAIN pushed = Fields /\ pushed.made
    BY <1>4
  <2>3. Shape(u)
    BY <1>1, <2>1, <2>2, InitOctoTreePreserves
  <2>4. SplitAbove(u)
    BY <1>1, <2>1, <2>2, InitOctoTreePreserves
  <2> QED BY <2>3, <2>4
<1>7. CASE node.init_octo
  <2>1. u = [t EXCEPT ![p] = learnt]
    BY <1>3, <1>7
  <2> DEFINE other == [t EXCEPT ![p] = learnt]
  <2>2. Shape(other)
    BY <1>1, <1>5, Replaced
  <2>3. SplitAbove(other)
    BY <1>1, <1>5, Replaced
  <2> QED BY <2>1, <2>2, <2>3
<1> QED BY <1>6, <1>7

LEMMA EmptyShape == Shape(EmptyTree) /\ SplitAbove(EmptyTree)
<1>1. Shape(EmptyTree)
  BY DEF Shape, EmptyTree, Absent, Fields
<1>2. \A q \in Paths : ~EmptyTree[q].made
  BY DEF EmptyTree, Absent
<1> QED BY <1>1, <1>2, SplitAbovePaths

-------------------------------------------------------------------------------
(* The invariant.                                                          *)
IInv ==
  /\ Shape(tree)
  /\ SplitAbove(tree)
  /\ lidar_map_inited \in BOOLEAN
  /\ ~lidar_map_inited => tree = EmptyTree

LEMMA Initial == VoxelInit => IInv
BY EmptyShape DEF VoxelInit, IInv

LEMMA BuildKeepsShape ==
  ASSUME IInv, BuildVoxelMap
  PROVE  Shape(tree)' /\ SplitAbove(tree)'
<1>1. PICK points \in [Cells -> 0 .. FirstScan], planes \in SUBSET Paths :
        LET batch == [NewNode EXCEPT !.temp_points = points, !.new_points = Size(points)]
        IN  tree' = IF Size(points) = 0 THEN tree
                    ELSE InitOctoTree([tree EXCEPT ![Root] = batch], Root, planes)
  BY DEF BuildVoxelMap
<1> DEFINE batch == [NewNode EXCEPT !.temp_points = points, !.new_points = Size(points)]
           built == InitOctoTree([EmptyTree EXCEPT ![Root] = batch], Root, planes)
<1>2. tree = EmptyTree
  BY DEF BuildVoxelMap, IInv
<1>3. DOMAIN batch = Fields /\ batch.made
  BY DEF NewNode, Absent, Fields
<1>4. tree' = EmptyTree \/ tree' = built
  BY <1>1, <1>2
<1> HIDE DEF batch
<1>5. CASE Cells = {}
  <2>1. Paths = {}
    BY <1>5 DEF Paths
  <2>2. \A u : SplitAbove(u)
    BY <1>5 DEF SplitAbove
  <2>3. Shape(built)
    <3>1. [EmptyTree EXCEPT ![Root] = batch] = EmptyTree
      BY <2>1 DEF EmptyTree
    <3>2. [EmptyTree EXCEPT ![Root] = FirstFit(EmptyTree[Root], Root \in planes)] = EmptyTree
      BY <2>1 DEF EmptyTree
    <3>3. \A q : CutBelow(EmptyTree, q, planes) = [r \in Paths |-> EmptyTree[r]]
      BY <2>1 DEF CutBelow
    <3>4. built \in {EmptyTree, CutBelow(EmptyTree, Root, planes)}
      BY <3>1, <3>2 DEF InitOctoTree
    <3> QED BY <2>1, <3>3, <3>4, EmptyShape DEF Shape
  <2> QED BY <1>4, <2>2, <2>3, EmptyShape
<1>6. CASE Cells # {}
  <2>1. PICK c \in Cells : TRUE
    BY <1>6
  <2>2. Root = Above(c, 0) /\ 0 \in Layers
    BY AboveIsPath, CellsAssumption DEF Root, Layers
  <2>3. Root \in Paths
    BY <2>2, PathsAbove
  <2>4. \A q \in Paths : ~IsStrictPrefix(q, Root)
    BY <2>2, BelowSameCell DEF IsStrictPrefix, Root
  <2>5. ~IsSplit(EmptyTree, Root)
    BY <2>3 DEF IsSplit, EmptyTree, Absent
  <2>6. CanLand(EmptyTree, Root)
    BY <2>3, <2>4, <2>5 DEF CanLand
  <2>7. Shape(built) /\ SplitAbove(built)
    BY <1>3, <2>6, EmptyShape, InitOctoTreePreserves
  <2> QED BY <1>4, <2>7, EmptyShape
<1> QED BY <1>5, <1>6

LEMMA Inductive == IInv /\ [VoxelNext]_voxelVars => IInv'
<1> SUFFICES ASSUME IInv, [VoxelNext]_voxelVars PROVE IInv'
  OBVIOUS
<1>1. CASE BuildVoxelMap
  BY <1>1, BuildKeepsShape DEF IInv, BuildVoxelMap
<1>2. ASSUME NEW c \in Cells, UpdateVoxelMap(c) PROVE IInv'
  <2>1. PICK planes : tree' = UpdateOctoTree(tree, c, planes)
    BY <1>2 DEF UpdateVoxelMap
  <2>2. Shape(tree') /\ SplitAbove(tree')
    BY <2>1, UpdatePreserves DEF IInv
  <2> QED BY <1>2, <2>2 DEF UpdateVoxelMap, IInv
<1>3. CASE ClearMemOutOfMap
  BY <1>3, EmptyShape DEF ClearMemOutOfMap, IInv
<1>4. CASE UNCHANGED voxelVars
  BY <1>4 DEF voxelVars, IInv
<1> QED BY <1>1, <1>2, <1>3, <1>4 DEF VoxelNext

\* The search for residuals meets every plane.
LEMMA EveryPlaneReached == ASSUME IInv PROVE MatchablePlanes(tree) = Planes(tree)
<1> SUFFICES ASSUME NEW p \in Planes(tree), NEW r \in Prefixes(p), r # p
             PROVE  ~tree[r].is_plane
  BY DEF MatchablePlanes, Reached, Planes
<1>1. p \in Paths /\ tree[p].made
  BY DEF Planes, Nodes
<1>2. PICK c \in Cells, n \in Layers : p = Above(c, n)
  BY <1>1, PathsAbove
<1>3. PICK m \in 0 .. n : r = Above(c, m)
  BY <1>2, PrefixesAbove
<1>4. m \in 0 .. n - 1
  BY <1>2, <1>3, CellsAssumption DEF Layers
<1>5. IsSplit(tree, r)
  BY <1>1, <1>2, <1>3, <1>4 DEF IInv, SplitAbove
<1> QED BY <1>5 DEF IsSplit

\* The camera's search for the plane of a point ends at the plane it is in.
LEMMA CorrespondFound ==
  ASSUME IInv, NEW p \in Planes(tree), NEW c \in CellsUnder(p)
  PROVE  FindCorrespond(tree, c) = p
<1> DEFINE ends(q) == \/ ~tree[q].init_octo \/ tree[q].is_plane \/ AtMaxLayer(q)
                      \/ ~tree[SubSeq(c, 1, Len(q) + 1)].made
           First(q) == ends(q) /\ \A r \in Prefixes(q) \ {q} : ~ends(r)
<1>1. p \in Paths /\ tree[p].made /\ tree[p].is_plane /\ c \in Cells
  BY DEF Planes, Nodes, CellsUnder
<1>2. MaxLayer \in Layers /\ MaxLayer \in Nat /\ c = Above(c, MaxLayer)
  BY <1>1, CellItself, CellsAssumption DEF Layers
<1> DEFINE n == Len(p)
<1>3. n \in Layers /\ p = Above(c, n)
  BY <1>1, <1>2, BelowSameCell DEF CellsUnder, Layers
<1> HIDE DEF n
<1>4. Prefixes(c) = {Above(c, k) : k \in Layers}
  BY <1>1, <1>2, PrefixesAbove DEF Layers
<1>5. \A q, r \in Paths : tree[q].made /\ IsStrictPrefix(r, q) => IsSplit(tree, r)
  BY SplitAbovePaths DEF IInv
<1>6. ASSUME NEW m \in 0 .. n - 1 PROVE ~ends(Above(c, m))
  <2>1. m \in Layers /\ m + 1 \in Layers /\ m < n /\ m + 1 <= n
    BY <1>3, CellsAssumption DEF Layers
  <2>2. IsSplit(tree, Above(c, m))
    BY <1>1, <1>3 DEF IInv, SplitAbove
  <2>3. Len(Above(c, m)) = m
    BY <1>1, <2>1, AboveIsPath
  <2>4. tree[Above(c, m + 1)].made
    <3>1. CASE m + 1 = n
      BY <1>1, <1>3, <3>1
    <3>2. CASE m + 1 # n
      <4>1. m + 1 \in 0 .. n - 1
        BY <1>3, <2>1, <3>2 DEF Layers
      <4>2. IsSplit(tree, Above(c, m + 1))
        BY <1>1, <1>3, <4>1 DEF IInv, SplitAbove
      <4> QED BY <4>2 DEF IsSplit
    <3> QED BY <3>1, <3>2
  <2> QED BY <2>2, <2>3, <2>4 DEF IsSplit, Above
<1>7. ends(p)
  BY <1>1
<1> HIDE DEF ends
<1>8. \A k \in Layers : Prefixes(Above(c, k)) = {Above(c, m) : m \in 0 .. k}
  BY <1>1, PrefixesAbove
<1>9. p \in Prefixes(c) /\ First(p)
  <2>1. ASSUME NEW r \in Prefixes(p), r # p PROVE ~ends(r)
    <3>1. PICK m \in 0 .. n : r = Above(c, m)
      BY <1>3, <1>8, <2>1
    <3>2. m \in 0 .. n - 1
      BY <1>3, <2>1, <3>1, CellsAssumption DEF Layers
    <3> QED BY <1>6, <3>1, <3>2
  <2> QED BY <1>3, <1>4, <1>7, <2>1
<1>10. ASSUME NEW q \in Prefixes(c), First(q) PROVE q = p
  <2>1. PICK k \in Layers : q = Above(c, k)
    BY <1>4
  <2>2. k \in Nat /\ n \in Nat
    BY <1>3, <2>1, CellsAssumption DEF Layers
  <2>3. ~(k < n)
    <3> SUFFICES ASSUME k < n PROVE FALSE
      OBVIOUS
    <3>1. k \in 0 .. n - 1
      BY <2>2
    <3> QED BY <1>6, <1>10, <2>1, <3>1
  <2>4. ~(n < k)
    <3> SUFFICES ASSUME n < k PROVE FALSE
      OBVIOUS
    <3>1. p \in Prefixes(q)
      BY <1>3, <1>8, <2>1, <2>2
    <3>2. p # q
      BY <1>1, <1>3, <2>1, <2>2, PrefixOrder
    <3> QED BY <1>7, <1>10, <3>1, <3>2
  <2> QED BY <1>3, <2>1, <2>2, <2>3, <2>4
<1>11. FindCorrespond(tree, c) = CHOOSE q \in Prefixes(c) : First(q)
  BY DEF FindCorrespond, ends
<1> HIDE DEF First
<1> QED BY <1>9, <1>10, <1>11

\* No plane of the map is hidden from the searches, for any depth of the octree,
\* any thresholds and any points: a node that was split never becomes a plane
\* over its leaves.
THEOREM NoPlaneHidden == VoxelSpec => []EveryPlaneFound
<1>1. IInv => EveryPlaneFound
  BY EveryPlaneReached, CorrespondFound DEF EveryPlaneFound
<1> QED BY <1>1, Initial, Inductive, PTL DEF VoxelSpec

-------------------------------------------------------------------------------
(* What a node holds: the sizes of sets of points.                         *)

Points == [Cells -> Nat]

\* A node has finitely many points.
LEMMA SizeIsNat ==
  ASSUME NEW points \in Points
  PROVE  IsFiniteSet(Numbered(points)) /\ Size(points) \in Nat
<1> DEFINE of == [c \in Cells |-> {c} \X (1 .. points[c])]
           T == {of[c] : c \in Cells}
<1>1. IsFiniteSet(T)
  <2>1. of \in Surjection(Cells, T)
    BY DEF Surjection
  <2> HIDE DEF of, T
  <2> QED BY <2>1, FS_Surjection, CellsAssumption
<1>2. ASSUME NEW c \in Cells PROVE IsFiniteSet({c} \X (1 .. points[c]))
  <2>1. points[c] \in Int
    BY DEF Points
  <2>2. IsFiniteSet(1 .. points[c])
    BY <2>1, FS_Interval
  <2>3. IsFiniteSet({c})
    BY FS_Singleton
  <2> QED BY <2>2, <2>3, FS_Product
<1>3. Numbered(points) = UNION T
  BY DEF Numbered
<1>4. \A s \in T : IsFiniteSet(s)
  BY <1>2
<1> HIDE DEF T
<1>5. IsFiniteSet(Numbered(points))
  BY <1>1, <1>3, <1>4, FS_UNION
<1> QED BY <1>5, FS_CardinalityType DEF Size

LEMMA NumberedMember ==
  ASSUME NEW points, NEW x
  PROVE  x \in Numbered(points) <=> \E c \in Cells : \E k \in 1 .. points[c] : x = <<c, k>>
BY DEF Numbered

LEMMA SizeNone == NoPoints \in Points /\ Size(NoPoints) = 0
<1>1. NoPoints \in Points
  BY DEF NoPoints, Points
<1>2. Numbered(NoPoints) = {}
  BY DEF Numbered, NoPoints
<1> QED BY <1>1, <1>2, FS_EmptySet DEF Size

LEMMA SizeUnder ==
  ASSUME NEW points \in Points, NEW p
  PROVE  Under(points, p) \in Points /\ Size(Under(points, p)) <= Size(points)
<1>1. Under(points, p) \in Points
  BY DEF Under, Points
<1>2. \A c \in Cells : 1 .. Under(points, p)[c] \subseteq 1 .. points[c]
  BY DEF Under, Points
<1>3. Numbered(Under(points, p)) \subseteq Numbered(points)
  BY <1>2 DEF Numbered
<1> QED BY <1>1, <1>3, SizeIsNat, FS_Subset DEF Size

\* A point that is pushed makes one more.
LEMMA SizePushed ==
  ASSUME NEW points \in Points, NEW c \in Cells
  PROVE  /\ [points EXCEPT ![c] = @ + 1] \in Points
         /\ Size([points EXCEPT ![c] = @ + 1]) = Size(points) + 1
<1> DEFINE more == [points EXCEPT ![c] = @ + 1]
           x == <<c, points[c] + 1>>
<1>1. more \in Points
  BY DEF Points
<1>2. \A d \in Cells : more[d] = IF d = c THEN points[c] + 1 ELSE points[d]
  BY DEF Points
<1>3. points[c] \in Nat /\ 1 .. points[c] + 1 = (1 .. points[c]) \cup {points[c] + 1}
  BY DEF Points
<1> HIDE DEF more
<1>4. Numbered(more) = Numbered(points) \cup {x}
  BY <1>2, <1>3 DEF Numbered
<1>5. x \notin Numbered(points)
  BY <1>3 DEF Numbered
<1> HIDE DEF x
<1>6. Cardinality(Numbered(more)) = Cardinality(Numbered(points)) + 1
  BY <1>4, <1>5, SizeIsNat, FS_AddElement
<1> QED BY <1>1, <1>6 DEF Size, more

\* A scan with few points in every cell leaves few in a node.
LEMMA SizeOfScan ==
  ASSUME NEW points \in Points, \A c \in Cells : points[c] <= FirstScan, NEW p
  PROVE  /\ Cardinality(CellsUnder(p)) * FirstScan \in Nat
         /\ Size(Under(points, p)) <= Cardinality(CellsUnder(p)) * FirstScan
<1>1. FirstScan \in Nat
  BY SizesAssumption
<1>2. IsFiniteSet(CellsUnder(p)) /\ Cardinality(CellsUnder(p)) \in Nat
  BY CellsAssumption, FS_Subset, FS_CardinalityType DEF CellsUnder
<1>3. IsFiniteSet(1 .. FirstScan) /\ Cardinality(1 .. FirstScan) = FirstScan
  BY <1>1, FS_Interval
<1>4. /\ IsFiniteSet(CellsUnder(p) \X (1 .. FirstScan))
      /\ Cardinality(CellsUnder(p) \X (1 .. FirstScan)) = Cardinality(CellsUnder(p)) * FirstScan
  BY <1>2, <1>3, FS_Product
<1>5. Numbered(Under(points, p)) \subseteq CellsUnder(p) \X (1 .. FirstScan)
  <2> SUFFICES ASSUME NEW x \in Numbered(Under(points, p))
               PROVE  x \in CellsUnder(p) \X (1 .. FirstScan)
    OBVIOUS
  <2>1. PICK c \in Cells : \E i \in 1 .. Under(points, p)[c] : x = <<c, i>>
    BY NumberedMember
  <2>2. PICK k \in 1 .. Under(points, p)[c] : x = <<c, k>>
    BY <2>1
  <2>3. c \in CellsUnder(p)
    BY <2>2 DEF Under
  <2>4. k \in 1 .. points[c] /\ points[c] \in Nat
    BY <2>2, <2>3 DEF Under, Points
  <2>5. k \in 1 .. FirstScan
    BY <1>1, <2>4
  <2> QED BY <2>2, <2>3, <2>5
<1>6. Cardinality(CellsUnder(p) \X (1 .. FirstScan)) \in Nat
  BY <1>4, FS_CardinalityType
<1> QED BY <1>4, <1>5, <1>6, FS_Subset DEF Size

LEMMA BoundIsMax ==
  ASSUME NEW p
  PROVE  /\ Bound(p) \in Nat
         /\ Cardinality(CellsUnder(p)) * FirstScan <= Bound(p)
         /\ PointsThreshold + 1 <= Bound(p)
         /\ MaxPoints <= Bound(p)
<1> DEFINE share == Cardinality(CellsUnder(p)) * FirstScan
<1>1. share \in Nat
  BY SizesAssumption, CellsAssumption, FS_Subset, FS_CardinalityType DEF CellsUnder
<1>2. PointsThreshold \in Nat /\ MaxPoints \in Nat
  BY SizesAssumption
<1> HIDE DEF share
<1>3. \E x \in {share, PointsThreshold + 1, MaxPoints} :
        \A y \in {share, PointsThreshold + 1, MaxPoints} : x >= y
  BY <1>1, <1>2
<1>4. Bound(p) = CHOOSE x \in {share, PointsThreshold + 1, MaxPoints} :
                   \A y \in {share, PointsThreshold + 1, MaxPoints} : x >= y
  BY DEF Bound, Max, share
<1>5. /\ Bound(p) \in {share, PointsThreshold + 1, MaxPoints}
      /\ \A y \in {share, PointsThreshold + 1, MaxPoints} : Bound(p) >= y
  BY <1>3, <1>4
<1>6. Bound(p) \in Nat
  BY <1>1, <1>2, <1>5
<1> QED BY <1>1, <1>2, <1>5, <1>6 DEF share

\* Either way points come to be cut: those of the first scan, or as many as a
\* first fit takes.
Few(points) ==
  /\ points \in Points
  /\ (\A c \in Cells : points[c] <= FirstScan) \/ Size(points) <= PointsThreshold + 1

LEMMA UnderBounded ==
  ASSUME NEW points, Few(points), NEW p
  PROVE  Under(points, p) \in Points /\ Size(Under(points, p)) <= Bound(p)
<1>1. Under(points, p) \in Points /\ Size(Under(points, p)) <= Size(points)
  BY SizeUnder DEF Few
<1>2. Size(points) \in Nat /\ Size(Under(points, p)) \in Nat /\ PointsThreshold \in Nat
  BY <1>1, SizeIsNat, SizesAssumption DEF Few
<1>3. CASE \A c \in Cells : points[c] <= FirstScan
  BY <1>1, <1>2, <1>3, SizeOfScan, BoundIsMax DEF Few
<1>4. CASE Size(points) <= PointsThreshold + 1
  BY <1>1, <1>2, <1>4, BoundIsMax
<1> QED BY <1>1, <1>3, <1>4 DEF Few

-------------------------------------------------------------------------------
(* Every node, whatever the tree around it.                                *)

NodeType ==
  [made : BOOLEAN, temp_points : Points, new_points : Nat, init_octo : BOOLEAN,
   update_enable : BOOLEAN, is_plane : BOOLEAN, points_size : Nat]

(* A node that learns is within its bound and knows how many of its points *)
(* the fit has not seen; one that stopped had been fitted to almost all.   *)
Waits(node) == Size(node.temp_points) <= PointsThreshold /\ node.update_enable

Learns(node, p) ==
  /\ Size(node.temp_points) <= Bound(p)
  /\ node.new_points <= UpdateThreshold
  /\ node.points_size + node.new_points = Size(node.temp_points)

Stopped(node) == node.is_plane => node.points_size >= MaxPoints - UpdateThreshold

NodeOK(node, p) ==
  /\ node \in NodeType
  /\ Size(node.temp_points) <= Bound(p) + 1
  /\ node.is_plane => node.init_octo
  /\ ~node.init_octo => Waits(node)
  /\ node.init_octo /\ node.update_enable => Learns(node, p)
  /\ ~node.update_enable => Stopped(node)

Kept(t) == t = [p \in Paths |-> t[p]] /\ \A p \in Paths : NodeOK(t[p], p)

\* What init_octo_tree makes of a node with points enough.
LEMMA FirstFitOK ==
  ASSUME NEW node \in NodeType, NEW planar \in BOOLEAN, NEW p,
         Size(node.temp_points) <= Bound(p)
  PROVE  NodeOK(FirstFit(node, planar), p)
<1> DEFINE fit == FirstFit(node, planar)
           size == Size(node.temp_points)
<1>1. size \in Nat /\ Bound(p) \in Nat /\ {MaxPoints, UpdateThreshold} \subseteq Nat
  BY SizeIsNat, BoundIsMax, SizesAssumption DEF NodeType
<1>2. /\ fit \in NodeType /\ fit.temp_points = node.temp_points /\ fit.new_points = 0
      /\ fit.init_octo /\ fit.is_plane = planar /\ fit.points_size = size
      /\ fit.update_enable = ~(planar /\ size > MaxPoints)
  BY <1>1 DEF FirstFit, Fitted, NodeType
<1> HIDE DEF fit
<1>3. Size(fit.temp_points) = size
  BY <1>2
<1>4. Learns(fit, p)
  BY <1>1, <1>2, <1>3 DEF Learns
<1>5. ~fit.update_enable => Stopped(fit)
  <2> SUFFICES ASSUME ~fit.update_enable PROVE Stopped(fit)
    OBVIOUS
  <2>1. size > MaxPoints
    BY <1>2
  <2>2. fit.points_size >= MaxPoints - UpdateThreshold
    BY <1>1, <1>2, <2>1
  <2> QED BY <2>2 DEF Stopped
<1>6. size <= Bound(p) + 1
  BY <1>1
<1> HIDE DEF size
<1>7. NodeOK(fit, p)
  BY <1>2, <1>3, <1>4, <1>5, <1>6 DEF NodeOK
<1> QED BY <1>7 DEF fit

LEMMA AbsentOK == ASSUME NEW p PROVE Absent \in NodeType /\ NodeOK(Absent, p)
<1>1. Absent \in NodeType
  BY SizeNone DEF Absent, NodeType
<1>2. /\ Absent.temp_points = NoPoints /\ ~Absent.init_octo /\ Absent.update_enable
      /\ ~Absent.is_plane
  BY DEF Absent
<1> HIDE DEF Absent
<1>3. Bound(p) \in Nat /\ PointsThreshold \in Nat
  BY BoundIsMax, SizesAssumption
<1>4. Size(Absent.temp_points) = 0
  BY <1>2, SizeNone
<1>5. Waits(Absent)
  BY <1>2, <1>3, <1>4 DEF Waits
<1>6. Size(Absent.temp_points) <= Bound(p) + 1
  BY <1>3, <1>4
<1> QED BY <1>1, <1>2, <1>5, <1>6 DEF NodeOK

\* A node that has just come to be.
LEMMA BatchOK ==
  ASSUME NEW points \in Points, NEW node,
         node = [NewNode EXCEPT !.temp_points = points, !.new_points = Size(points)]
  PROVE  /\ node \in NodeType /\ node.temp_points = points
         /\ ~node.init_octo /\ node.update_enable /\ ~node.is_plane
<1>1. Size(points) \in Nat
  BY SizeIsNat
<1>2. Absent \in NodeType
  BY AbsentOK
<1> QED BY <1>1, <1>2 DEF NewNode, Absent, NodeType

\* A node that waits for more points.
LEMMA WaitingOK ==
  ASSUME NEW node \in NodeType, ~node.init_octo, node.update_enable, ~node.is_plane,
         ~Enough(node.temp_points), NEW p
  PROVE  NodeOK(node, p)
<1>1. Size(node.temp_points) \in Nat /\ PointsThreshold \in Nat
  BY SizeIsNat, SizesAssumption DEF NodeType
<1>2. Size(node.temp_points) <= PointsThreshold
  BY <1>1 DEF Enough
<1>3. Size(node.temp_points) <= Bound(p) + 1
  BY <1>1, <1>2, BoundIsMax
<1>4. Waits(node)
  BY <1>2 DEF Waits
<1> QED BY <1>3, <1>4 DEF NodeOK

LEMMA CutLeafOK ==
  ASSUME NEW points \in Points, NEW planar \in BOOLEAN, NEW p, Size(points) <= Bound(p)
  PROVE  NodeOK(CutLeaf(points, planar), p)
<1> DEFINE leaf == [NewNode EXCEPT !.temp_points = points, !.new_points = Size(points)]
           fit == FirstFit(leaf, planar)
           emptied == [fit EXCEPT !.temp_points = NoPoints]
<1>1. /\ leaf \in NodeType /\ leaf.temp_points = points
      /\ ~leaf.init_octo /\ leaf.update_enable /\ ~leaf.is_plane
  BY BatchOK
<1>2. CutLeaf(points, planar) = IF ~Enough(points) THEN leaf
                                ELSE IF fit.update_enable THEN fit ELSE emptied
  BY DEF CutLeaf
<1> HIDE DEF leaf
<1>3. NodeOK(fit, p)
  BY <1>1, FirstFitOK
<1>4. fit.init_octo
  BY DEF FirstFit, Fitted
<1> HIDE DEF fit
<1>5. CASE ~Enough(points)
  BY <1>1, <1>2, <1>5, WaitingOK
<1>6. CASE Enough(points) /\ fit.update_enable
  BY <1>2, <1>3, <1>6
<1>7. CASE Enough(points) /\ ~fit.update_enable
  <2>1. /\ emptied \in NodeType /\ emptied.temp_points = NoPoints
        /\ emptied.init_octo /\ ~emptied.update_enable
        /\ emptied.is_plane = fit.is_plane /\ emptied.points_size = fit.points_size
    BY <1>3, <1>4, <1>7, SizeNone DEF NodeOK, NodeType
  <2> HIDE DEF emptied
  <2>2. Size(emptied.temp_points) <= Bound(p) + 1
    BY <2>1, SizeNone, BoundIsMax
  <2>3. Stopped(emptied)
    BY <1>3, <1>7, <2>1 DEF NodeOK, Stopped
  <2>4. NodeOK(emptied, p)
    BY <2>1, <2>2, <2>3 DEF NodeOK
  <2> QED BY <1>2, <1>7, <2>4
<1> QED BY <1>5, <1>6, <1>7

LEMMA CutKept ==
  ASSUME NEW t, Kept(t), NEW p \in Paths, Few(t[p].temp_points), NEW planes,
         NEW u, u = CutBelow(t, p, planes)
  PROVE  Kept(u)
<1> DEFINE points == t[p].temp_points
<1>1. \A q : Under(points, q) \in Points /\ Size(Under(points, q)) <= Bound(q)
  BY UnderBounded
<1>2. ASSUME NEW q PROVE NodeOK(CutLeaf(Under(points, q), q \in planes), q)
  <2>1. (q \in planes) \in BOOLEAN
    OBVIOUS
  <2>2. Under(points, q) \in Points /\ Size(Under(points, q)) <= Bound(q)
    BY <1>1
  <2> HIDE DEF points
  <2> QED BY <2>1, <2>2, CutLeafOK
<1>3. u = [q \in Paths |-> u[q]]
  BY DEF CutBelow
<1>4. \A q \in Paths : u[q] \in {CutLeaf(Under(points, q), q \in planes), t[q]}
  BY DEF CutBelow
<1> QED BY <1>2, <1>3, <1>4 DEF Kept

LEMMA InitOctoTreeKept ==
  ASSUME NEW t, Kept(t), NEW p \in Paths, NEW planes, NEW node \in NodeType,
         ~node.init_octo, node.update_enable, ~node.is_plane,
         Few(node.temp_points), Size(node.temp_points) <= Bound(p),
         NEW u, u = InitOctoTree([t EXCEPT ![p] = node], p, planes)
  PROVE  Kept(u)
<1> DEFINE pushed == [t EXCEPT ![p] = node]
           first == FirstFit(node, p \in planes)
           fit == [pushed EXCEPT ![p] = first]
<1>1. pushed[p] = node /\ fit = [t EXCEPT ![p] = first]
  BY DEF Kept
<1>2. NodeOK(first, p) /\ first.temp_points = node.temp_points
  <2>1. first.temp_points = node.temp_points
    BY DEF FirstFit, Fitted
  <2>2. (p \in planes) \in BOOLEAN
    OBVIOUS
  <2>3. NodeOK(first, p)
    BY <2>2, FirstFitOK
  <2> QED BY <2>1, <2>3
<1>3. u = IF ~Enough(node.temp_points) THEN pushed
          ELSE IF p \in planes \/ AtMaxLayer(p) THEN fit ELSE CutBelow(fit, p, planes)
  <2>1. u = InitOctoTree(pushed, p, planes) /\ FirstFit(pushed[p], p \in planes) = first
    BY <1>1
  <2> HIDE DEF pushed, first
  <2> QED BY <1>1, <2>1 DEF InitOctoTree
<1> HIDE DEF first
<1>4. Kept(fit) /\ fit[p] = first
  <2>1. fit[p] = first /\ fit = [q \in Paths |-> fit[q]]
    BY <1>1 DEF Kept
  <2>2. \A q \in Paths : q # p => fit[q] = t[q]
    BY <1>1 DEF Kept
  <2> HIDE DEF fit
  <2> QED BY <1>2, <2>1, <2>2 DEF Kept
<1>5. CASE ~Enough(node.temp_points)
  <2>1. NodeOK(node, p)
    BY <1>5, WaitingOK
  <2>2. pushed = [q \in Paths |-> pushed[q]] /\ \A q \in Paths : q # p => pushed[q] = t[q]
    BY DEF Kept
  <2>3. u = pushed
    BY <1>3, <1>5
  <2> HIDE DEF pushed
  <2> QED BY <1>1, <2>1, <2>2, <2>3 DEF Kept
<1> HIDE DEF fit
<1>6. CASE Enough(node.temp_points) /\ ~(p \in planes \/ AtMaxLayer(p))
  <2>1. u = CutBelow(fit, p, planes) /\ Few(fit[p].temp_points)
    BY <1>2, <1>3, <1>4, <1>6
  <2> QED BY <1>4, <2>1, CutKept
<1> QED BY <1>3, <1>4, <1>5, <1>6

\* A point is pushed.
LEMMA PushedNode ==
  ASSUME NEW node \in NodeType, NEW c \in Cells, NEW pushed, pushed = Pushed(node, c)
  PROVE  /\ pushed \in NodeType
         /\ pushed.init_octo = node.init_octo /\ pushed.update_enable = node.update_enable
         /\ pushed.is_plane = node.is_plane /\ pushed.points_size = node.points_size
         /\ pushed.new_points = node.new_points + 1
         /\ Size(pushed.temp_points) = Size(node.temp_points) + 1
<1> DEFINE more == [node.temp_points EXCEPT ![c] = @ + 1]
<1>1. more \in Points /\ Size(more) = Size(node.temp_points) + 1
  BY SizePushed DEF NodeType
<1>2. pushed = [made |-> TRUE, temp_points |-> more, new_points |-> node.new_points + 1,
                init_octo |-> node.init_octo, update_enable |-> node.update_enable,
                is_plane |-> node.is_plane, points_size |-> node.points_size]
  BY DEF Pushed, NodeType
<1> HIDE DEF more
<1>3. node.new_points + 1 \in Nat
  BY DEF NodeType
<1> QED BY <1>1, <1>2, <1>3 DEF NodeType

\* A node that learns: the count of the plane follows the points, and the points
\* stay below the limit for as long as it learns.
LEMMA LearnOK ==
  ASSUME NEW p, NEW node, NodeOK(node, p), node.init_octo, NEW c \in Cells,
         NEW planar \in BOOLEAN, NEW limit \in {MaxPoints, MaxPoints + 1}
  PROVE  NodeOK(Learn(node, c, planar, limit), p)
<1> DEFINE pushed == Pushed(node, c)
           fitted == Refit(pushed, planar)
           full == Full(fitted, limit)
           size == Size(node.temp_points)
<1>1. node \in NodeType /\ size \in Nat /\ Bound(p) \in Nat /\ MaxPoints <= Bound(p)
      /\ MaxPoints \in Nat /\ UpdateThreshold \in Nat
  BY SizeIsNat, BoundIsMax, SizesAssumption DEF NodeOK, NodeType
<1>2. CASE ~node.update_enable
  BY <1>2 DEF Learn
<1>3. CASE node.update_enable
  <2>1. /\ size <= Bound(p) /\ node.new_points <= UpdateThreshold
        /\ node.points_size + node.new_points = size
    BY <1>3 DEF NodeOK, Learns
  <2>2. /\ pushed \in NodeType /\ pushed.init_octo /\ pushed.update_enable
        /\ pushed.new_points = node.new_points + 1 /\ pushed.points_size = node.points_size
        /\ Size(pushed.temp_points) = size + 1
    BY <1>1, <1>3, PushedNode
  <2> HIDE DEF pushed
  <2>5. /\ fitted \in NodeType /\ fitted.init_octo /\ fitted.update_enable
        /\ fitted.temp_points = pushed.temp_points
        /\ \/ fitted.new_points = 0 /\ fitted.points_size = size + 1
           \/ /\ fitted.new_points = node.new_points + 1
              /\ fitted.new_points <= UpdateThreshold
              /\ fitted.points_size = node.points_size
    <3>1. CASE pushed.new_points > UpdateThreshold
      <4>1. fitted = [Fitted(pushed, planar) EXCEPT !.new_points = 0]
        BY <3>1 DEF Refit
      <4>2. fitted = [made |-> pushed.made, temp_points |-> pushed.temp_points,
                      new_points |-> 0, init_octo |-> pushed.init_octo,
                      update_enable |-> pushed.update_enable, is_plane |-> planar,
                      points_size |-> Size(pushed.temp_points)]
        BY <2>2, <4>1 DEF Fitted, NodeType
      <4>3. size + 1 \in Nat
        BY <1>1
      <4> HIDE DEF fitted, size
      <4> QED BY <2>2, <4>2, <4>3 DEF NodeType
    <3>2. CASE ~(pushed.new_points > UpdateThreshold)
      <4>1. fitted = pushed
        BY <3>2 DEF Refit
      <4>2. pushed.new_points <= UpdateThreshold
        BY <1>1, <2>2, <3>2 DEF NodeType
      <4> QED BY <2>2, <4>1, <4>2
    <3> QED BY <3>1, <3>2
  <2>6. Size(fitted.temp_points) = size + 1
    BY <2>2, <2>5
  <2>7. fitted.new_points \in Nat /\ fitted.points_size \in Nat
        /\ node.new_points \in Nat /\ node.points_size \in Nat
    BY <1>1, <2>5 DEF NodeType
  <2> HIDE DEF fitted, size
  <2>8. /\ fitted.points_size + fitted.new_points = size + 1
        /\ fitted.new_points <= UpdateThreshold
    BY <1>1, <2>1, <2>5, <2>7
  <2>9. Learn(node, c, planar, limit) = full
    BY <1>3 DEF Learn, fitted, pushed
  <2>10. CASE size + 1 >= limit
    <3>1. full = [fitted EXCEPT !.update_enable = FALSE, !.new_points = 0]
      BY <2>6, <2>10 DEF Full
    <3>2. /\ full \in NodeType /\ full.init_octo /\ ~full.update_enable
          /\ full.temp_points = fitted.temp_points /\ full.points_size = fitted.points_size
      <4>1. full = [made |-> fitted.made, temp_points |-> fitted.temp_points, new_points |-> 0,
                    init_octo |-> fitted.init_octo, update_enable |-> FALSE,
                    is_plane |-> fitted.is_plane, points_size |-> fitted.points_size]
        BY <2>5, <3>1 DEF NodeType
      <4> HIDE DEF full
      <4> QED BY <2>5, <4>1 DEF NodeType
    <3> HIDE DEF full
    <3>3. Size(full.temp_points) <= Bound(p) + 1
      BY <1>1, <2>1, <2>6, <3>2
    <3>4. full.points_size >= MaxPoints - UpdateThreshold
      BY <1>1, <2>7, <2>8, <2>10, <3>2
    <3>5. Stopped(full)
      BY <3>4 DEF Stopped
    <3>6. NodeOK(full, p)
      BY <3>2, <3>3, <3>5 DEF NodeOK
    <3> QED BY <2>9, <3>6
  <2>11. CASE ~(size + 1 >= limit)
    <3>1. full = fitted
      BY <2>6, <2>11 DEF Full
    <3>2. size + 1 <= MaxPoints
      BY <1>1, <2>11
    <3>3. Learns(full, p)
      <4>1. Size(fitted.temp_points) <= Bound(p)
        BY <1>1, <2>6, <3>2
      <4> QED BY <2>6, <2>8, <3>1, <4>1 DEF Learns
    <3>4. Size(full.temp_points) <= Bound(p) + 1
      BY <1>1, <2>6, <3>1, <3>2
    <3>5. NodeOK(full, p)
      BY <2>5, <3>1, <3>3, <3>4 DEF NodeOK
    <3> QED BY <2>9, <3>5
  <2> QED BY <2>10, <2>11
<1> QED BY <1>2, <1>3

LEMMA UpdateKept ==
  ASSUME NEW t, Kept(t), NEW c \in Cells, NEW planes,
         NEW u, u = UpdateOctoTree(t, c, planes)
  PROVE  Kept(u)
<1> DEFINE p == Landing(t, c)
           node == t[p]
           limit == IF node.is_plane THEN MaxPoints ELSE MaxPoints + 1
           pushed == Pushed(node, c)
           learnt == Learn(node, c, p \in planes, limit)
<1>1. p \in Paths
  BY LandingCanLand DEF CanLand
<1>2. NodeOK(node, p) /\ limit \in {MaxPoints, MaxPoints + 1}
  BY <1>1 DEF Kept
<1>3. u = IF ~node.init_octo THEN InitOctoTree([t EXCEPT ![p] = pushed], p, planes)
          ELSE [t EXCEPT ![p] = learnt]
  BY DEF UpdateOctoTree
<1> HIDE DEF p, node, limit
<1>4. CASE ~node.init_octo
  <2>1. /\ node \in NodeType /\ node.update_enable /\ ~node.is_plane
        /\ Size(node.temp_points) <= PointsThreshold /\ Size(node.temp_points) \in Nat
    BY <1>2, <1>4, SizeIsNat DEF NodeOK, Waits, NodeType
  <2>2. /\ pushed \in NodeType /\ ~pushed.init_octo /\ pushed.update_enable /\ ~pushed.is_plane
        /\ Size(pushed.temp_points) = Size(node.temp_points) + 1
    BY <1>4, <2>1, PushedNode
  <2>3. pushed.temp_points \in Points
    BY <2>2 DEF NodeType
  <2> HIDE DEF pushed
  <2>4. /\ Size(pushed.temp_points) <= PointsThreshold + 1
        /\ Size(pushed.temp_points) <= Bound(p)
    BY <2>1, <2>2, BoundIsMax, SizesAssumption
  <2>5. Few(pushed.temp_points)
    BY <2>3, <2>4 DEF Few
  <2>6. u = InitOctoTree([t EXCEPT ![p] = pushed], p, planes)
    BY <1>3, <1>4
  <2> QED BY <1>1, <2>2, <2>4, <2>5, <2>6, InitOctoTreeKept
<1>5. CASE node.init_octo
  <2>1. (p \in planes) \in BOOLEAN
    OBVIOUS
  <2>2. NodeOK(learnt, p)
    BY <1>2, <1>5, <2>1, LearnOK
  <2> HIDE DEF learnt
  <2>3. u = [t EXCEPT ![p] = learnt]
    BY <1>3, <1>5
  <2>4. u = [q \in Paths |-> u[q]] /\ u[p] = learnt /\ \A q \in Paths : q # p => u[q] = t[q]
    BY <1>1, <2>3 DEF Kept
  <2> QED BY <2>2, <2>4 DEF Kept
<1> QED BY <1>4, <1>5

LEMMA EmptyKept == Kept(EmptyTree)
BY AbsentOK DEF Kept, EmptyTree

LEMMA BuildKept == ASSUME IInv, BuildVoxelMap PROVE Kept(tree')
<1>1. PICK points \in [Cells -> 0 .. FirstScan], planes \in SUBSET Paths :
        LET batch == [NewNode EXCEPT !.temp_points = points, !.new_points = Size(points)]
        IN  tree' = IF Size(points) = 0 THEN tree
                    ELSE InitOctoTree([tree EXCEPT ![Root] = batch], Root, planes)
  BY DEF BuildVoxelMap
<1> DEFINE batch == [NewNode EXCEPT !.temp_points = points, !.new_points = Size(points)]
           built == InitOctoTree([EmptyTree EXCEPT ![Root] = batch], Root, planes)
<1>2. tree = EmptyTree
  BY DEF BuildVoxelMap, IInv
<1>3. points \in Points /\ \A c \in Cells : points[c] <= FirstScan
  BY SizesAssumption DEF Points
<1>4. CASE Size(points) = 0
  BY <1>1, <1>2, <1>4, EmptyKept
<1>5. CASE Size(points) # 0
  <2>1. tree' = built
    BY <1>1, <1>2, <1>5
  <2>2. PICK c \in Cells : TRUE
    <3> SUFFICES ASSUME Cells = {} PROVE FALSE
      OBVIOUS
    <3>1. Numbered(points) = {}
      BY DEF Numbered
    <3> QED BY <1>5, <3>1, FS_EmptySet DEF Size
  <2>3. Root \in Paths
    <3>1. Root = Above(c, 0) /\ 0 \in Layers
      BY <2>2, AboveIsPath, CellsAssumption DEF Root, Layers
    <3> QED BY <2>2, <3>1, PathsAbove
  <2>4. Few(points)
    BY <1>3 DEF Few
  <2>5. Under(points, Root) = points
    <3>1. \A d \in Cells : d \in CellsUnder(Root)
      <4> SUFFICES ASSUME NEW d \in Cells PROVE IsPrefix(Root, d)
        BY DEF CellsUnder
      <4>1. MaxLayer \in Layers /\ 0 \in Layers /\ 0 <= MaxLayer
        BY CellsAssumption DEF Layers
      <4>2. Root = Above(d, 0) /\ d = Above(d, MaxLayer)
        BY <4>1, AboveIsPath, CellItself DEF Root
      <4> QED BY <4>1, <4>2, PrefixOrder
    <3> QED BY <1>3, <3>1 DEF Under, Points
  <2>6. Size(points) <= Bound(Root)
    BY <2>4, <2>5, UnderBounded
  <2>7. /\ batch \in NodeType /\ batch.temp_points = points
        /\ ~batch.init_octo /\ batch.update_enable /\ ~batch.is_plane
    BY <1>3, BatchOK
  <2> HIDE DEF batch
  <2> QED BY <2>1, <2>3, <2>4, <2>6, <2>7, EmptyKept, InitOctoTreeKept
<1> QED BY <1>4, <1>5

\* The nodes are kept well by every step.
LEMMA KeptAlways == VoxelSpec => [](IInv /\ Kept(tree))
<1>1. VoxelInit => Kept(tree)
  BY EmptyKept DEF VoxelInit
<1>2. IInv /\ Kept(tree) /\ [VoxelNext]_voxelVars => Kept(tree)'
  <2> SUFFICES ASSUME IInv, Kept(tree), [VoxelNext]_voxelVars PROVE Kept(tree')
    BY DEF Kept
  <2>1. CASE BuildVoxelMap
    BY <2>1, BuildKept
  <2>2. ASSUME NEW c \in Cells, UpdateVoxelMap(c) PROVE Kept(tree')
    <3>1. PICK planes : tree' = UpdateOctoTree(tree, c, planes)
      BY <2>2 DEF UpdateVoxelMap
    <3> QED BY <3>1, UpdateKept
  <2>3. CASE ClearMemOutOfMap
    BY <2>3, EmptyKept DEF ClearMemOutOfMap
  <2>4. CASE UNCHANGED voxelVars
    BY <2>4 DEF voxelVars
  <2> QED BY <2>1, <2>2, <2>3, <2>4 DEF VoxelNext
<1> QED BY <1>1, <1>2, Initial, Inductive, PTL DEF VoxelSpec

\* A plane is never more than UpdateThreshold points behind what the node holds,
\* and one that stopped learning was fitted to all but so many of MaxPoints
\* (init_octo_tree, cut_octo_tree and UpdateOctoTree fit it).
THEOREM PlanesFresh == VoxelSpec => []PlanesKeepUp
<1>1. Kept(tree) => PlanesKeepUp
  <2> SUFFICES ASSUME Kept(tree), NEW p \in Planes(tree)
               PROVE  LET node == tree[p]
                      IN  IF node.update_enable
                          THEN /\ node.new_points <= UpdateThreshold
                               /\ node.points_size + node.new_points = Size(node.temp_points)
                          ELSE node.points_size >= MaxPoints - UpdateThreshold
    BY DEF PlanesKeepUp
  <2>1. NodeOK(tree[p], p) /\ tree[p].is_plane
    BY DEF Kept, Planes, Nodes
  <2> QED BY <2>1 DEF NodeOK, Learns, Stopped
<1> QED BY <1>1, KeptAlways, PTL

\* However long the robot looks at a voxel, no node holds more points than its
\* share of the first scan or the limits allow, and one.
THEOREM MemorySafe == VoxelSpec => []MemoryBounded
<1>1. IInv /\ Kept(tree) => MemoryBounded
  <2> SUFFICES ASSUME IInv, Kept(tree) PROVE MemoryBounded
    OBVIOUS
  <2>1. tree \in [Paths -> NodeType]
    BY DEF Kept, NodeOK
  <2>2. VoxelTypeOK
    BY <2>1 DEF VoxelTypeOK, NodeType, Points, IInv
  <2>3. \A p \in Paths : Size(tree[p].temp_points) <= Bound(p) + 1
    BY DEF Kept, NodeOK
  <2> QED BY <2>2, <2>3 DEF MemoryBounded
<1> QED BY <1>1, KeptAlways, PTL

-------------------------------------------------------------------------------
(* The visual map.  Sequences first: where the least of finitely many      *)
(* values is, and what is left of a list without one of its elements.      *)

\* A pixel of the image lies in one of its cells.
LEMMA QuotientBelow ==
  ASSUME NEW x \in Int, NEW g \in Int, NEW l \in Int, 0 <= x, 0 < g, 0 < l, x < g * l
  PROVE  x \div g \in Int /\ 0 <= x \div g /\ x \div g < l
<1>1. x \div g < l
  BY Z3
<1>2. 0 <= x \div g
  BY Z3
<1>3. x \div g \in Int
  BY Z3
<1> QED BY <1>1, <1>2, <1>3

LEMMA CellInGrid ==
  ASSUME NEW cam, cam.at \in Int, NEW p \in Int, InFrame(cam, p)
  PROVE  Cell(cam, p) \in Grid
<1>1. grid_size \in Int /\ length \in Int /\ 0 < grid_size /\ 0 < length
  BY SizeAssumption
<1>2. p - cam.at \in 0 .. grid_size * length - 1
  BY DEF InFrame, Pixel
<1>3. p - cam.at \in Int /\ 0 <= p - cam.at /\ p - cam.at < grid_size * length
  BY <1>1, <1>2
<1>4. /\ (p - cam.at) \div grid_size \in Int
      /\ 0 <= (p - cam.at) \div grid_size /\ (p - cam.at) \div grid_size < length
  BY <1>1, <1>3, QuotientBelow
<1>5. Cell(cam, p) = (p - cam.at) \div grid_size
  BY DEF Cell, Pixel
<1>6. \A q \in Int : 0 <= q /\ q < length => q \in Grid
  BY <1>1 DEF Grid
<1> QED BY <1>4, <1>5, <1>6

LEMMA LeastOfNaturals ==
  ASSUME NEW S \in SUBSET Nat, S # {}
  PROVE  Min(S) \in S
<1>1. PICK n \in S : \A m \in S : ~(<<m, n>> \in OpToRel(<, Nat))
  BY NatLessThanWellFounded, WFMin
<1>2. \A m \in S : n <= m
  <2> SUFFICES ASSUME NEW m \in S, m < n PROVE FALSE
    OBVIOUS
  <2>1. <<m, n>> \in OpToRel(<, Nat)
    BY DEF OpToRel
  <2> QED BY <1>1, <2>1
<1> QED BY <1>2 DEF Min

\* Of finitely many numbers one is the least.
LEMMA LeastValue ==
  ASSUME NEW n \in Nat \ {0}, NEW f, \A k \in 1 .. n : f[k] \in Int
  PROVE  \E k \in 1 .. n : \A l \in 1 .. n : f[k] <= f[l]
<1> DEFINE Has(m) == \E k \in 1 .. m : \A l \in 1 .. m : f[k] <= f[l]
           Bad == {m \in 1 .. n : ~Has(m)}
<1>1. SUFFICES ASSUME Bad # {} PROVE FALSE
  <2>1. n \in 1 .. n
    OBVIOUS
  <2>2. Bad = {} => Has(n)
    BY <2>1
  <2> QED BY <2>2
<1>2. Bad \subseteq Nat
  OBVIOUS
<1> HIDE DEF Bad
<1>3. PICK b \in Bad : \A m \in Bad : ~(<<m, b>> \in OpToRel(<, Nat))
  BY <1>1, <1>2, NatLessThanWellFounded, WFMin
<1>4. b \in 1 .. n /\ ~Has(b) /\ \A m \in Bad : ~(m < b)
  BY <1>2, <1>3 DEF Bad, OpToRel
<1>5. CASE b = 1
  BY <1>4, <1>5
<1>6. CASE b # 1
  <2>1. b - 1 \in 1 .. n /\ b - 1 < b
    BY <1>4, <1>6
  <2>2. Has(b - 1)
    BY <1>4, <2>1 DEF Bad
  <2>3. PICK k \in 1 .. b - 1 : \A l \in 1 .. b - 1 : f[k] <= f[l]
    BY <2>2
  <2>4. \A l \in 1 .. b : l \in 1 .. b - 1 \/ l = b
    BY <1>4
  <2>5. k \in 1 .. b /\ b \in 1 .. b /\ f[k] \in Int /\ f[b] \in Int
    BY <1>4, <2>1, <2>3
  <2>6. CASE f[k] <= f[b]
    <3>1. \A l \in 1 .. b : f[k] <= f[l]
      BY <2>3, <2>4, <2>6
    <3> QED BY <1>4, <2>5, <3>1
  <2>7. CASE f[b] < f[k]
    <3>1. \A l \in 1 .. b : f[b] <= f[l]
      <4> SUFFICES ASSUME NEW l \in 1 .. b PROVE f[b] <= f[l]
        OBVIOUS
      <4>1. f[l] \in Int
        BY <1>4
      <4> QED BY <2>3, <2>4, <2>5, <2>7, <4>1
    <3> QED BY <1>4, <2>5, <3>1
  <2> QED BY <2>5, <2>6, <2>7
<1> QED BY <1>5, <1>6

\* A list without its k-th element.
LEMMA Removed ==
  ASSUME NEW S, NEW s \in Seq(S), NEW k \in 1 .. Len(s)
  PROVE  /\ RemoveAt(s, k) \in Seq(S) /\ Len(RemoveAt(s, k)) = Len(s) - 1
         /\ \A i \in 1 .. Len(s) - 1 : RemoveAt(s, k)[i] = s[IF i < k THEN i ELSE i + 1]
<1> DEFINE n == Len(s)
           r == RemoveAt(s, k)
           a == SubSeq(s, 1, k - 1)
           b == SubSeq(s, k + 1, n)
<1>1. n \in Nat /\ k \in 1 .. n
  BY LenProperties
<1>2. a \in Seq(S) /\ Len(a) = k - 1 /\ \A i \in 1 .. k - 1 : a[i] = s[i]
  BY <1>1
<1>3. b \in Seq(S) /\ Len(b) = n - k /\ \A i \in 1 .. n - k : b[i] = s[k + i]
  BY <1>1
<1>4. r = a \o b
  BY DEF RemoveAt
<1> HIDE DEF a, b, r
<1>5. /\ r \in Seq(S) /\ Len(r) = Len(a) + Len(b)
      /\ \A i \in 1 .. Len(a) + Len(b) : r[i] = IF i <= Len(a) THEN a[i] ELSE b[i - Len(a)]
  <2>1. a \in Seq(S) /\ b \in Seq(S)
    BY <1>2, <1>3
  <2>2. /\ a \o b \in Seq(S) /\ Len(a \o b) = Len(a) + Len(b)
        /\ \A i \in 1 .. Len(a) + Len(b) :
             (a \o b)[i] = IF i <= Len(a) THEN a[i] ELSE b[i - Len(a)]
    BY ONLY <2>1, ConcatProperties
  <2> QED BY <1>4, <2>2
<1> HIDE DEF n
<1>6. Len(r) = n - 1
  BY <1>1, <1>2, <1>3, <1>5
<1>7. ASSUME NEW i \in 1 .. n - 1 PROVE r[i] = s[IF i < k THEN i ELSE i + 1]
  <2>1. CASE i < k
    BY <1>1, <1>2, <1>3, <1>5, <2>1
  <2>2. CASE ~(i < k)
    <3>1. i - (k - 1) \in 1 .. n - k /\ k + (i - (k - 1)) = i + 1 /\ ~(i <= k - 1)
      BY <1>1, <2>2
    <3> QED BY <1>1, <1>2, <1>3, <1>5, <2>2, <3>1
  <2> QED BY <2>1, <2>2
<1> QED BY <1>5, <1>6, <1>7 DEF n, r

-------------------------------------------------------------------------------
(* One point of the visual map, in the n-th image or after.                *)

(* The newest observation comes first.                                     *)
ObsOK(obs, n) ==
  /\ obs \in Seq(Features)
  /\ Len(obs) \in 1 .. MaxObs
  /\ \A k \in DOMAIN obs : obs[k].id <= n
  /\ \A k, l \in DOMAIN obs : k < l => obs[k].id > obs[l].id

(* The reference is among the observations; a point that converged has one.*)
RefOK(pt) ==
  /\ pt.has_ref_patch <=> pt.ref_patch # NoRef
  /\ pt.has_ref_patch => \E k \in DOMAIN pt.obs : pt.obs[k].id = pt.ref_patch
  /\ pt.is_converged => pt.has_ref_patch

PointOK(pt, n) == pt \in VisualPoints /\ ObsOK(pt.obs, n) /\ RefOK(pt)

SamePlace(pt, old) == pt.pos = old.pos /\ pt.born = old.born

\* What the members of a point are.
LEMMA Members ==
  ASSUME NEW n, NEW pt, PointOK(pt, n)
  PROVE  /\ pt = [pos |-> pt.pos, obs |-> pt.obs, ref_patch |-> pt.ref_patch,
                  has_ref_patch |-> pt.has_ref_patch, is_converged |-> pt.is_converged,
                  born |-> pt.born]
         /\ pt.obs \in Seq(Features) /\ DOMAIN pt.obs = 1 .. Len(pt.obs)
         /\ Len(pt.obs) \in Nat \ {0} /\ Len(pt.obs) <= MaxObs
         /\ \A k \in 1 .. Len(pt.obs) : pt.obs[k] \in Features /\ pt.obs[k].id \in Nat \ {0}
                                        /\ pt.obs[k].id <= MaxFrames
<1>1. pt.obs \in Seq(Features) /\ Len(pt.obs) \in 1 .. MaxObs /\ MaxObs \in Nat
  BY LimitAssumption DEF PointOK, ObsOK
<1>2. DOMAIN pt.obs = 1 .. Len(pt.obs) /\ \A k \in 1 .. Len(pt.obs) : pt.obs[k] \in Features
  BY <1>1
<1>3. \A f \in Features : f.id \in Nat \ {0} /\ f.id <= MaxFrames
  BY LimitAssumption DEF Features
<1>4. pt = [pos |-> pt.pos, obs |-> pt.obs, ref_patch |-> pt.ref_patch,
            has_ref_patch |-> pt.has_ref_patch, is_converged |-> pt.is_converged,
            born |-> pt.born]
  BY DEF PointOK, VisualPoints
<1> QED BY <1>1, <1>2, <1>3, <1>4

LEMMA RefSetOK ==
  ASSUME NEW n, NEW pt, PointOK(pt, n), NEW k \in DOMAIN pt.obs,
         NEW new, new = RefSet(pt, pt.obs[k].id)
  PROVE  /\ PointOK(new, n) /\ new.has_ref_patch /\ new.obs = pt.obs
         /\ SamePlace(new, pt) /\ new.is_converged = pt.is_converged
<1>1. pt.obs[k].id \in 0 .. MaxFrames /\ pt.obs[k].id # NoRef
  BY Members, LimitAssumption DEF NoRef
<1>2. new = [pos |-> pt.pos, obs |-> pt.obs, ref_patch |-> pt.obs[k].id,
             has_ref_patch |-> TRUE, is_converged |-> pt.is_converged, born |-> pt.born]
  BY DEF RefSet, PointOK, VisualPoints
<1>3. new \in VisualPoints
  BY <1>1, <1>2 DEF PointOK, VisualPoints
<1>4. RefOK(new)
  BY <1>1, <1>2 DEF RefOK
<1> QED BY <1>2, <1>3, <1>4 DEF PointOK, SamePlace

\* Retrieving a point gives it a reference.
LEMMA WithRefOK ==
  ASSUME NEW n, NEW pt, PointOK(pt, n), NEW k \in DOMAIN pt.obs,
         NEW new, new = WithRef(pt, k)
  PROVE  PointOK(new, n) /\ new.has_ref_patch /\ new.obs = pt.obs /\ SamePlace(new, pt)
<1>1. 1 \in DOMAIN pt.obs
  BY Members
<1>2. \/ new = RefSet(pt, pt.obs[1].id)
      \/ new = pt /\ pt.has_ref_patch
      \/ new = RefSet(pt, pt.obs[k].id)
  BY DEF WithRef
<1> QED BY <1>1, <1>2, RefSetOK DEF SamePlace

LEMMA DeleteFeatureRefOK ==
  ASSUME NEW n, NEW pt, PointOK(pt, n), ~pt.is_converged, 2 <= Len(pt.obs),
         NEW k \in DOMAIN pt.obs, NEW new, new = DeleteFeatureRef(pt, k)
  PROVE  /\ PointOK(new, n) /\ Len(new.obs) = Len(pt.obs) - 1
         /\ SamePlace(new, pt) /\ ~new.is_converged
<1> DEFINE m == Len(pt.obs)
           left == RemoveAt(pt.obs, k)
           isRef == pt.ref_patch = pt.obs[k].id
           ref == IF isRef THEN NoRef ELSE pt.ref_patch
           has == IF isRef THEN FALSE ELSE pt.has_ref_patch
           at(i) == IF i < k THEN i ELSE i + 1
<1>1. /\ pt.obs \in Seq(Features) /\ DOMAIN pt.obs = 1 .. m /\ m \in Nat /\ 2 <= m /\ m <= MaxObs
      /\ k \in 1 .. m /\ MaxObs \in Nat
      /\ \A i \in 1 .. m : pt.obs[i].id \in Nat \ {0}
  BY Members, LimitAssumption
<1>2. /\ left \in Seq(Features) /\ Len(left) = m - 1
      /\ \A i \in 1 .. m - 1 : left[i] = pt.obs[at(i)]
  <2>1. pt.obs \in Seq(Features) /\ k \in 1 .. Len(pt.obs)
    BY <1>1
  <2>2. /\ left \in Seq(Features) /\ Len(left) = Len(pt.obs) - 1
        /\ \A i \in 1 .. Len(pt.obs) - 1 : left[i] = pt.obs[IF i < k THEN i ELSE i + 1]
    BY ONLY <2>1, Removed
  <2> QED BY <2>2
<1>3. new = [pos |-> pt.pos, obs |-> left, ref_patch |-> ref, has_ref_patch |-> has,
             is_converged |-> pt.is_converged, born |-> pt.born]
  BY DEF DeleteFeatureRef, PointOK, VisualPoints
<1>4. /\ \A i \in 1 .. m - 1 : at(i) \in 1 .. m
      /\ \A i, j \in 1 .. m - 1 : i < j => at(i) < at(j)
      /\ \A i \in 1 .. m : i # k => \E j \in 1 .. m - 1 : at(j) = i
  <2>1. \A i \in 1 .. m - 1 : at(i) \in 1 .. m
    BY <1>1
  <2>2. \A i, j \in 1 .. m - 1 : i < j => at(i) < at(j)
    BY <1>1
  <2>3. ASSUME NEW i \in 1 .. m, i # k PROVE \E j \in 1 .. m - 1 : at(j) = i
    <3>1. CASE i < k
      <4>1. i \in 1 .. m - 1 /\ at(i) = i
        BY <1>1, <3>1
      <4> QED BY <4>1
    <3>2. CASE k < i
      <4>1. i - 1 \in 1 .. m - 1 /\ ~(i - 1 < k) /\ (i - 1) + 1 = i
        BY <1>1, <3>2
      <4>2. at(i - 1) = i
        BY <4>1
      <4> QED BY <4>1, <4>2
    <3> QED BY <1>1, <2>3, <3>1, <3>2
  <2> QED BY <2>1, <2>2, <2>3
<1> HIDE DEF left, at
<1>5. DOMAIN left = 1 .. m - 1
  BY <1>2
<1>6. ObsOK(left, n)
  <2>1. Len(left) \in 1 .. MaxObs
    BY <1>1, <1>2
  <2>2. \A i \in DOMAIN left : left[i].id <= n
    BY <1>1, <1>2, <1>4, <1>5 DEF PointOK, ObsOK
  <2>3. ASSUME NEW i \in 1 .. m - 1, NEW j \in 1 .. m - 1, i < j
        PROVE  left[i].id > left[j].id
    <3>1. at(i) \in 1 .. m /\ at(j) \in 1 .. m /\ at(i) < at(j)
      BY <1>4, <2>3
    <3>2. left[i] = pt.obs[at(i)] /\ left[j] = pt.obs[at(j)]
      BY <1>2
    <3>3. \A x, y \in 1 .. m : x < y => pt.obs[x].id > pt.obs[y].id
      BY <1>1 DEF PointOK, ObsOK
    <3> QED BY <3>1, <3>2, <3>3
  <2> QED BY <1>2, <1>5, <2>1, <2>2, <2>3 DEF ObsOK
<1>7. new \in VisualPoints
  <2>1. ref \in 0 .. MaxFrames
    BY LimitAssumption DEF NoRef, PointOK, VisualPoints
  <2>2. has \in BOOLEAN
    BY DEF PointOK, VisualPoints
  <2>3. pt.pos \in Positions /\ pt.is_converged \in BOOLEAN
        /\ pt.born \in [behind : BOOLEAN, moved : BOOLEAN]
    BY DEF PointOK, VisualPoints
  <2> HIDE DEF ref, has
  <2> QED BY <1>2, <1>3, <2>1, <2>2, <2>3 DEF VisualPoints
<1>8. RefOK(new)
  <2>1. CASE isRef
    BY <1>3, <2>1 DEF RefOK
  <2>2. CASE ~isRef
    <3>1. new.has_ref_patch = pt.has_ref_patch /\ new.ref_patch = pt.ref_patch /\ new.obs = left
      BY <1>3, <2>2
    <3>2. ASSUME pt.has_ref_patch PROVE \E j \in DOMAIN left : left[j].id = pt.ref_patch
      <4>1. PICK i \in 1 .. m : pt.obs[i].id = pt.ref_patch
        BY <1>1, <3>2 DEF PointOK, RefOK
      <4>2. i # k
        BY <2>2, <4>1
      <4>3. PICK j \in 1 .. m - 1 : at(j) = i
        BY <1>4, <4>2
      <4>4. j \in DOMAIN left /\ left[j] = pt.obs[i]
        BY <1>2, <1>5, <4>3
      <4> QED BY <4>1, <4>4
    <3> QED BY <1>3, <3>1, <3>2 DEF PointOK, RefOK
  <2> QED BY <2>1, <2>2
<1> QED BY <1>2, <1>3, <1>6, <1>7, <1>8 DEF PointOK, SamePlace

\* A new observation goes to the front.
LEMMA AddFrameRefOK ==
  ASSUME NEW n \in Nat, NEW pt, PointOK(pt, n - 1),
         Len(pt.obs) < MaxObs, NEW f \in Features, f.id = n, ~pt.is_converged,
         NEW new, new = AddFrameRef(pt, f)
  PROVE  PointOK(new, n) /\ SamePlace(new, pt)
<1> DEFINE m == Len(pt.obs)
           more == <<f>> \o pt.obs
<1>1. /\ pt.obs \in Seq(Features) /\ DOMAIN pt.obs = 1 .. m /\ m \in Nat /\ m < MaxObs
      /\ MaxObs \in Nat
      /\ \A i \in 1 .. m : pt.obs[i].id \in Nat \ {0} /\ pt.obs[i].id <= n - 1
  BY Members, LimitAssumption DEF PointOK, ObsOK
<1>2. /\ more \in Seq(Features) /\ Len(more) = m + 1 /\ DOMAIN more = 1 .. m + 1
      /\ more[1] = f /\ \A i \in 1 .. m : more[i + 1] = pt.obs[i]
  <2>1. <<f>> \in Seq(Features) /\ Len(<<f>>) = 1 /\ <<f>>[1] = f
    OBVIOUS
  <2>2. pt.obs \in Seq(Features)
    BY <1>1
  <2>3. /\ more \in Seq(Features) /\ Len(more) = Len(<<f>>) + Len(pt.obs)
        /\ \A i \in 1 .. Len(<<f>>) + Len(pt.obs) :
             more[i] = IF i <= Len(<<f>>) THEN <<f>>[i] ELSE pt.obs[i - Len(<<f>>)]
    BY ONLY <2>1, <2>2, ConcatProperties
  <2> HIDE DEF more
  <2>4. Len(more) = m + 1 /\ DOMAIN more = 1 .. m + 1
    BY <1>1, <2>1, <2>3
  <2>5. more[1] = f
    BY <1>1, <2>1, <2>3
  <2>6. ASSUME NEW i \in 1 .. m PROVE more[i + 1] = pt.obs[i]
    <3>1. i + 1 \in 1 .. 1 + m /\ ~(i + 1 <= 1) /\ (i + 1) - 1 = i
      BY <1>1
    <3> QED BY <2>1, <2>3, <3>1
  <2> QED BY <2>3, <2>4, <2>5, <2>6
<1>3. new = [pos |-> pt.pos, obs |-> more, ref_patch |-> pt.ref_patch,
             has_ref_patch |-> pt.has_ref_patch, is_converged |-> pt.is_converged,
             born |-> pt.born]
  BY DEF AddFrameRef, PointOK, VisualPoints
<1> HIDE DEF more
<1>4. \A k \in 1 .. m + 1 : k = 1 \/ (k - 1 \in 1 .. m /\ more[k] = pt.obs[k - 1])
  <2> SUFFICES ASSUME NEW k \in 1 .. m + 1, k # 1
               PROVE  k - 1 \in 1 .. m /\ more[k] = pt.obs[k - 1]
    OBVIOUS
  <2>1. k - 1 \in 1 .. m /\ (k - 1) + 1 = k
    BY <1>1
  <2> QED BY <1>2, <2>1
<1>5. ObsOK(more, n)
  <2>1. Len(more) \in 1 .. MaxObs
    BY <1>1, <1>2
  <2>2. \A k \in 1 .. m + 1 : more[k].id <= n
    <3> SUFFICES ASSUME NEW k \in 1 .. m + 1 PROVE more[k].id <= n
      OBVIOUS
    <3>1. CASE k = 1
      BY <1>2, <3>1
    <3>2. CASE k # 1
      <4>1. k - 1 \in 1 .. m /\ more[k] = pt.obs[k - 1]
        BY <1>4, <3>2
      <4>2. pt.obs[k - 1].id \in Nat /\ pt.obs[k - 1].id <= n - 1
        BY <1>1, <4>1
      <4>3. more[k].id \in Nat /\ more[k].id <= n - 1
        BY <4>1, <4>2
      <4> QED BY ONLY n \in Nat, <4>3
    <3> QED BY <3>1, <3>2
  <2>3. ASSUME NEW k \in 1 .. m + 1, NEW l \in 1 .. m + 1, k < l
        PROVE  more[k].id > more[l].id
    <3>1. l - 1 \in 1 .. m /\ more[l] = pt.obs[l - 1]
      BY <1>1, <1>4, <2>3
    <3>2. CASE k = 1
      BY <1>1, <1>2, <3>1, <3>2
    <3>3. CASE k # 1
      <4>1. k - 1 \in 1 .. m /\ more[k] = pt.obs[k - 1] /\ k - 1 < l - 1
        BY <1>1, <1>4, <2>3, <3>3
      <4> QED BY <1>1, <3>1, <4>1 DEF PointOK, ObsOK
    <3> QED BY <3>2, <3>3
  <2> QED BY <1>2, <2>1, <2>2, <2>3 DEF ObsOK
<1>6. new \in VisualPoints
  BY <1>2, <1>3 DEF PointOK, VisualPoints
<1>7. RefOK(new)
  <2>1. ASSUME pt.has_ref_patch PROVE \E j \in DOMAIN more : more[j].id = pt.ref_patch
    <3>1. PICK i \in 1 .. m : pt.obs[i].id = pt.ref_patch
      BY <1>1, <2>1 DEF PointOK, RefOK
    <3>2. i + 1 \in DOMAIN more /\ more[i + 1] = pt.obs[i]
      BY <1>1, <1>2
    <3> QED BY <3>1, <3>2
  <2> QED BY <1>3, <2>1 DEF PointOK, RefOK
<1> QED BY <1>3, <1>5, <1>6, <1>7 DEF PointOK, SamePlace

\* A point that converged keeps its reference only.
LEMMA DeleteNonRefOK ==
  ASSUME NEW n, NEW pt, PointOK(pt, n), pt.is_converged,
         NEW new, new = DeleteNonRefPatchFeatures(pt)
  PROVE  PointOK(new, n) /\ SamePlace(new, pt)
<1> DEFINE k == Min(RefAt(pt))
           f == pt.obs[k]
<1>1. \E i \in DOMAIN pt.obs : pt.obs[i].id = pt.ref_patch
  BY DEF PointOK, RefOK
<1>2. RefAt(pt) # {} /\ RefAt(pt) \subseteq DOMAIN pt.obs /\ RefAt(pt) \in SUBSET Nat
  BY <1>1, Members DEF RefAt
<1>3. k \in RefAt(pt)
  BY <1>2, LeastOfNaturals
<1> HIDE DEF k
<1>4. f \in Features /\ f.id = pt.ref_patch /\ f.id <= n
  BY <1>3, Members DEF RefAt, PointOK, ObsOK
<1>5. new = [pos |-> pt.pos, obs |-> <<f>>, ref_patch |-> pt.ref_patch,
             has_ref_patch |-> pt.has_ref_patch, is_converged |-> pt.is_converged,
             born |-> pt.born]
  BY <1>2 DEF DeleteNonRefPatchFeatures, PointOK, VisualPoints, k
<1> HIDE DEF f
<1>6. <<f>> \in Seq(Features) /\ Len(<<f>>) = 1 /\ <<f>>[1] = f /\ DOMAIN <<f>> = {1}
  BY <1>4
<1>7. ObsOK(<<f>>, n)
  <2>1. 1 \in 1 .. MaxObs
    BY LimitAssumption
  <2> QED BY <1>4, <1>6, <2>1 DEF ObsOK
<1>8. new \in VisualPoints
  BY <1>5, <1>6 DEF PointOK, VisualPoints
<1>9. RefOK(new)
  BY <1>4, <1>5, <1>6 DEF PointOK, RefOK
<1> QED BY <1>5, <1>7, <1>8, <1>9 DEF PointOK, SamePlace

\* A list as long as allowed loses the observation with the least score.
LEMMA PrunedOK ==
  ASSUME NEW n, NEW pt, PointOK(pt, n), ~pt.is_converged, NEW new, new = Pruned(pt)
  PROVE  PointOK(new, n) /\ Len(new.obs) < MaxObs /\ SamePlace(new, pt) /\ ~new.is_converged
<1> DEFINE m == Len(pt.obs)
           k == FindMinScoreFeature(pt)
           S == {i \in DOMAIN pt.obs : \A l \in DOMAIN pt.obs : pt.obs[i].score <= pt.obs[l].score}
<1>1. /\ DOMAIN pt.obs = 1 .. m /\ m \in Nat \ {0} /\ m <= MaxObs /\ MaxObs \in Nat /\ 1 < MaxObs
      /\ \A i \in 1 .. m : pt.obs[i] \in Features
  BY Members, LimitAssumption
<1>2. CASE Len(pt.obs) >= MaxObs
  <2>1. k \in DOMAIN pt.obs
    <3>1. \A i \in 1 .. m : pt.obs[i].score \in Int
      <4>1. \A f \in Features : f.score \in Int
        <5>1. \A f \in Features : f.score \in Scores \cup {0}
          BY DEF Features
        <5>2. Scores \cup {0} \subseteq Int
          BY ScoreAssumption
        <5> QED BY <5>1, <5>2
      <4> QED BY <1>1, <4>1
    <3> DEFINE g == [i \in 1 .. m |-> pt.obs[i].score]
    <3>2. \A i \in 1 .. m : g[i] \in Int /\ g[i] = pt.obs[i].score
      BY <3>1
    <3> HIDE DEF g
    <3>3. \E i \in 1 .. m : \A l \in 1 .. m : g[i] <= g[l]
      BY <1>1, <3>2, LeastValue
    <3>4. S # {} /\ S \in SUBSET Nat
      <4>1. PICK i \in 1 .. m : \A l \in 1 .. m : g[i] <= g[l]
        BY <3>3
      <4>2. \A l \in 1 .. m : pt.obs[i].score <= pt.obs[l].score
        BY <3>2, <4>1
      <4>3. i \in S
        BY <1>1, <4>2
      <4>4. S \subseteq 1 .. m
        BY <1>1
      <4> QED BY <1>1, <4>3, <4>4
    <3> HIDE DEF S
    <3>5. Min(S) \in S
      BY <3>4, LeastOfNaturals
    <3> QED BY <3>5 DEF FindMinScoreFeature, S
  <2>2. new = DeleteFeatureRef(pt, k) /\ 2 <= Len(pt.obs)
    BY <1>1, <1>2 DEF Pruned
  <2> HIDE DEF k
  <2>3. /\ PointOK(new, n) /\ Len(new.obs) = Len(pt.obs) - 1
        /\ SamePlace(new, pt) /\ ~new.is_converged
    BY <2>1, <2>2, DeleteFeatureRefOK
  <2> QED BY <1>1, <2>3
<1>3. CASE ~(Len(pt.obs) >= MaxObs)
  BY <1>1, <1>3 DEF Pruned, SamePlace
<1> QED BY <1>2, <1>3

LEMMA LaterOK ==
  ASSUME NEW n \in Nat, NEW pt, PointOK(pt, n - 1)
  PROVE  PointOK(pt, n)
<1>1. \A k \in DOMAIN pt.obs : pt.obs[k].id \in Nat /\ pt.obs[k].id <= n - 1
  BY Members DEF PointOK, ObsOK
<1> QED BY <1>1 DEF PointOK, ObsOK

\* updateVisualMapPoints.
LEMMA UpdatedOK ==
  ASSUME NEW pt, PointOK(pt, id - 1), id \in 1 .. MaxFrames, camera \in Poses,
         NEW new, new = Updated(pt)
  PROVE  PointOK(new, id) /\ SamePlace(new, pt)
<1>1. id \in Nat /\ Feature(camera) \in Features /\ Feature(camera).id = id
  BY LimitAssumption DEF Feature, Features
<1>2. CASE pt.is_converged
  <2>1. PointOK(new, id - 1) /\ SamePlace(new, pt)
    BY <1>2, DeleteNonRefOK DEF Updated
  <2> QED BY <1>1, <2>1, LaterOK
<1>3. CASE ~pt.is_converged
  <2>1. /\ PointOK(Pruned(pt), id - 1) /\ Len(Pruned(pt).obs) < MaxObs
        /\ SamePlace(Pruned(pt), pt) /\ ~Pruned(pt).is_converged
    BY <1>3, PrunedOK
  <2>2. CASE ~WantsObservation(pt)
    <3>1. new = Pruned(pt)
      BY <1>3, <2>2 DEF Updated
    <3> QED BY <1>1, <2>1, <3>1, LaterOK
  <2>3. CASE WantsObservation(pt)
    <3>1. new = AddFrameRef(Pruned(pt), Feature(camera))
      BY <1>3, <2>3 DEF Updated
    <3>2. PointOK(new, id) /\ SamePlace(new, Pruned(pt))
      BY <1>1, <2>1, <3>1, AddFrameRefOK
    <3> QED BY <2>1, <3>2 DEF SamePlace
  <2> QED BY <2>2, <2>3
<1> QED BY <1>2, <1>3

\* updateReferencePatch: the best of the observations is the reference.
LEMMA RatedOK ==
  ASSUME NEW n, NEW pt, PointOK(pt, n), NEW scores \in [1 .. MaxObs -> Scores],
         NEW settles \in BOOLEAN, NEW new, new = Rated(pt, scores, settles)
  PROVE  PointOK(new, n) /\ SamePlace(new, pt)
<1> DEFINE m == Len(pt.obs)
           rated == [k \in DOMAIN pt.obs |-> [pt.obs[k] EXCEPT !.score = scores[k]]]
           again == [pt EXCEPT !.obs = rated]
           S == {k \in DOMAIN pt.obs : \A l \in DOMAIN pt.obs : scores[l] <= scores[k]}
           b == Min(S)
           settled == pt.is_converged \/ (settles /\ Len(pt.obs) > ConvergeMin)
<1>1. /\ DOMAIN pt.obs = 1 .. m /\ m \in Nat \ {0} /\ m <= MaxObs /\ MaxObs \in Nat
      /\ \A k \in 1 .. m : pt.obs[k] \in Features
  BY Members, LimitAssumption
<1>2. \A k \in 1 .. m : k \in 1 .. MaxObs /\ scores[k] \in Scores /\ scores[k] \in Int
  <2>1. \A k \in 1 .. m : k \in 1 .. MaxObs
    BY <1>1
  <2>2. \A k \in 1 .. MaxObs : scores[k] \in Scores
    OBVIOUS
  <2> QED BY <2>1, <2>2, ScoreAssumption
<1>3. CASE ~Rescored(pt)
  BY <1>3 DEF Rated, SamePlace
<1>4. CASE Rescored(pt)
  <2>1. b \in DOMAIN pt.obs
    <3> DEFINE g == [k \in 1 .. m |-> -scores[k]]
    <3>1. \A k \in 1 .. m : g[k] \in Int /\ g[k] = -scores[k]
      BY <1>2
    <3> HIDE DEF g
    <3>2. PICK i \in 1 .. m : \A l \in 1 .. m : g[i] <= g[l]
      BY <1>1, <3>1, LeastValue
    <3>3. \A l \in 1 .. m : scores[l] <= scores[i]
      BY <1>2, <3>1, <3>2
    <3>4. i \in S /\ S \in SUBSET Nat
      BY <1>1, <3>3
    <3> HIDE DEF S
    <3>5. Min(S) \in S
      BY <3>4, LeastOfNaturals
    <3> QED BY <3>5 DEF S
  <2>2. /\ rated \in Seq(Features) /\ Len(rated) = m /\ DOMAIN rated = 1 .. m
        /\ \A k \in 1 .. m : rated[k].id = pt.obs[k].id
    <3>1. \A f \in Features, s \in Scores :
            [f EXCEPT !.score = s] \in Features /\ [f EXCEPT !.score = s].id = f.id
      BY DEF Features
    <3>2. \A k \in 1 .. m : rated[k] \in Features /\ rated[k].id = pt.obs[k].id
      BY <1>1, <1>2, <3>1
    <3>3. rated = [k \in 1 .. m |-> rated[k]]
      BY <1>1
    <3> HIDE DEF rated
    <3>4. rated \in [1 .. m -> Features]
      BY <3>2, <3>3
    <3> QED BY <1>1, <3>2, <3>4
  <2>3. again = [pos |-> pt.pos, obs |-> rated, ref_patch |-> pt.ref_patch,
                 has_ref_patch |-> pt.has_ref_patch, is_converged |-> pt.is_converged,
                 born |-> pt.born]
    <3> HIDE DEF rated
    <3> QED BY DEF PointOK, VisualPoints
  <2>4. new = [RefSet(again, pt.obs[b].id) EXCEPT !.is_converged = settled]
    <3>1. new = [Scored(pt, scores) EXCEPT !.is_converged = @ \/ (settles /\ Len(pt.obs) > ConvergeMin)]
      BY <1>4 DEF Rated
    <3>2. Scored(pt, scores) = RefSet(again, pt.obs[b].id)
      BY DEF Scored, PointOK, VisualPoints
    <3>3. RefSet(again, pt.obs[b].id).is_converged = pt.is_converged
      BY <2>3 DEF RefSet
    <3> QED BY <3>1, <3>2, <3>3
  <2> HIDE DEF b, rated, again, settled
  <2>5. new = [pos |-> pt.pos, obs |-> rated, ref_patch |-> pt.obs[b].id,
               has_ref_patch |-> TRUE, is_converged |-> settled, born |-> pt.born]
    BY <2>3, <2>4 DEF RefSet
  <2>6. settled \in BOOLEAN
    BY DEF settled, PointOK, VisualPoints
  <2>7. pt.obs[b].id \in 0 .. MaxFrames /\ pt.obs[b].id # NoRef
    BY <2>1, Members, LimitAssumption DEF NoRef
  <2>8. new \in VisualPoints
    <3>1. pt.pos \in Positions /\ pt.born \in [behind : BOOLEAN, moved : BOOLEAN]
      BY DEF PointOK, VisualPoints
    <3> QED BY <2>2, <2>5, <2>6, <2>7, <3>1 DEF VisualPoints
  <2>9. ObsOK(rated, n)
    <3>1. Len(rated) \in 1 .. MaxObs
      BY <1>1, <2>2
    <3>2. \A k \in DOMAIN rated : rated[k].id <= n
      BY <1>1, <2>2 DEF PointOK, ObsOK
    <3>3. \A k, l \in DOMAIN rated : k < l => rated[k].id > rated[l].id
      BY <1>1, <2>2 DEF PointOK, ObsOK
    <3> QED BY <2>2, <3>1, <3>2, <3>3 DEF ObsOK
  <2>10. RefOK(new)
    <3>1. b \in DOMAIN rated /\ rated[b].id = pt.obs[b].id
      BY <1>1, <2>1, <2>2
    <3> QED BY <2>5, <2>7, <3>1 DEF RefOK
  <2> QED BY <2>5, <2>8, <2>9, <2>10 DEF PointOK, SamePlace
<1> QED BY <1>3, <1>4

\* A point that is new in this image.
LEMMA NewPointOK ==
  ASSUME NEW p \in Positions, id \in 1 .. MaxFrames, camera \in Poses,
         NEW new, new = NewPoint(p)
  PROVE  /\ PointOK(new, id) /\ new.pos = p
         /\ new.born = [behind |-> ~camera.facing, moved |-> ChangesCell(p)]
<1> DEFINE f == Feature(camera)
<1>1. f \in Features /\ f.id = id /\ id \in Nat
  BY LimitAssumption DEF Feature, Features
<1>2. new = [pos |-> p, obs |-> <<f>>, ref_patch |-> NoRef, has_ref_patch |-> FALSE,
             is_converged |-> FALSE,
             born |-> [behind |-> ~camera.facing, moved |-> ChangesCell(p)]]
  BY DEF NewPoint
<1> HIDE DEF f
<1>3. <<f>> \in Seq(Features) /\ Len(<<f>>) = 1 /\ <<f>>[1] = f /\ DOMAIN <<f>> = {1}
  BY <1>1
<1>4. ObsOK(<<f>>, id)
  <2>1. 1 \in 1 .. MaxObs
    BY LimitAssumption
  <2> QED BY <1>1, <1>3, <2>1 DEF ObsOK
<1>5. (~camera.facing) \in BOOLEAN /\ ChangesCell(p) \in BOOLEAN /\ NoRef \in 0 .. MaxFrames
  BY LimitAssumption DEF NoRef, ChangesCell
<1>6. new \in VisualPoints
  BY <1>2, <1>3, <1>5 DEF VisualPoints
<1>7. RefOK(new)
  BY <1>2 DEF RefOK
<1> QED BY <1>2, <1>4, <1>6, <1>7 DEF PointOK

-------------------------------------------------------------------------------
(* The invariant of the visual map.                                        *)

Matching == {"retrieved", "corrected", "generated"}

FrameTypes ==
  /\ stage \in Matching \cup {"idle", "updated"}
  /\ id \in 0 .. MaxFrames
  /\ stage # "idle" => id # 0
  /\ camera \in Poses /\ predicted \in Poses
  /\ stage = "retrieved" => camera \in Cameras /\ predicted = camera
  /\ stage = "corrected" => predicted.facing = camera.facing
  /\ scan \subseteq Positions
  /\ grid_num \in [Grid -> {"unknown", "map", "pointcloud"}]
  /\ visual_submap \subseteq DOMAIN feat_map
  /\ update_flag \subseteq visual_submap

(* The image is of no point in the submap yet, when these get observations.*)
PointsOK ==
  /\ feat_map \in Seq(VisualPoints)
  /\ \A i \in DOMAIN feat_map : PointOK(feat_map[i], id)
  /\ stage \in Matching => \A i \in visual_submap : PointOK(feat_map[i], id - 1)
  /\ stage = "retrieved" => \A i \in visual_submap : feat_map[i].has_ref_patch

(* Every point of the scan the map has, in front of the camera and of the  *)
(* origin, fills the cell it is in when the map is searched.               *)
MapFillsGrid ==
  (stage \in {"retrieved", "corrected"} /\ predicted.facing) =>
    \A i \in DOMAIN feat_map :
      LET p == feat_map[i].pos
      IN  (p \in scan /\ ~(p < 0) /\ InFrame(predicted, p)) => grid_num[Cell(predicted, p)] = "map"

VisualInv == FrameTypes /\ PointsOK /\ MapFillsGrid /\ NoDoubles

\* Points of the map are numbers in front of a camera that is somewhere.
LEMMA WorldIsInt ==
  /\ \A p \in Positions : p \in Int
  /\ \A cam \in Cameras : cam \in Poses
  /\ \A cam \in Poses : cam.at \in Int /\ cam.facing \in BOOLEAN
  /\ \A cam \in Cameras, d \in Correction \cup {0} : [cam EXCEPT !.at = @ + d] \in Poses
<1>1. \A cam \in Cameras, d \in Correction \cup {0} : [cam EXCEPT !.at = @ + d] \in Poses
  BY DEF Poses
<1>2. \A cam \in Cameras : [cam EXCEPT !.at = @ + 0] = cam
  BY WorldAssumption
<1>3. ASSUME NEW cam \in Cameras PROVE cam \in Poses
  <2>1. [cam EXCEPT !.at = @ + 0] \in Poses
    BY <1>1
  <2> QED BY <1>2, <2>1
<1>4. ASSUME NEW cam \in Poses PROVE cam.at \in Int /\ cam.facing \in BOOLEAN
  <2>1. PICK c \in Cameras, d \in Correction \cup {0} : cam = [c EXCEPT !.at = @ + d]
    BY DEF Poses
  <2>2. c \in [at : Int, facing : BOOLEAN] /\ d \in Int
    BY WorldAssumption
  <2> QED BY <2>1, <2>2
<1>5. \A p \in Positions : p \in Int
  BY WorldAssumption
<1> QED BY <1>1, <1>3, <1>4, <1>5

\* A step that changes points one by one where they are.
LEMMA Changed ==
  ASSUME feat_map \in Seq(VisualPoints), NEW n,
         feat_map' = [i \in DOMAIN feat_map |-> feat_map'[i]],
         \A i \in DOMAIN feat_map : /\ PointOK(feat_map'[i], n)
                                    /\ SamePlace(feat_map'[i], feat_map[i])
  PROVE  /\ feat_map' \in Seq(VisualPoints) /\ DOMAIN feat_map' = DOMAIN feat_map
         /\ NoDoubles => NoDoubles'
<1>1. DOMAIN feat_map = 1 .. Len(feat_map) /\ Len(feat_map) \in Nat
  OBVIOUS
<1>2. \A i \in 1 .. Len(feat_map) : feat_map'[i] \in VisualPoints
  BY <1>1 DEF PointOK
<1>3. feat_map' \in [1 .. Len(feat_map) -> VisualPoints]
  BY <1>1, <1>2
<1>4. feat_map' \in Seq(VisualPoints) /\ DOMAIN feat_map' = DOMAIN feat_map
  BY <1>1, <1>3
<1>5. NoDoubles => NoDoubles'
  BY <1>4 DEF NoDoubles, SamePlace
<1> QED BY <1>4, <1>5

LEMMA VisualInitial == Init => VisualInv
<1> SUFFICES ASSUME Init PROVE VisualInv
  OBVIOUS
<1>1. DOMAIN feat_map = {}
  BY DEF Init
<1>2. FrameTypes
  <2>1. id \in 0 .. MaxFrames /\ camera \in Poses /\ predicted \in Poses /\ stage = "idle"
    BY WorldIsInt, LimitAssumption DEF Init
  <2>2. grid_num \in [Grid -> {"unknown", "map", "pointcloud"}]
    BY DEF Init
  <2>3. /\ scan \subseteq Positions
        /\ visual_submap \subseteq DOMAIN feat_map /\ update_flag \subseteq visual_submap
    BY DEF Init
  <2> QED BY <2>1, <2>2, <2>3 DEF FrameTypes
<1>3. PointsOK
  BY <1>1 DEF Init, PointsOK, Matching
<1>4. MapFillsGrid /\ NoDoubles
  BY <1>1 DEF Init, MapFillsGrid, NoDoubles
<1> QED BY <1>2, <1>3, <1>4 DEF VisualInv

\* A point of the scan in the voxel it is looked up in is retrieved, or a nearer
\* one of its cell is.
LEMMA Found ==
  ASSUME VisualInv, NEW cam \in Cameras, NEW points \in Scans, cam.facing,
         NEW retrieved \in Retrievals(cam, points),
         NEW i \in DOMAIN feat_map, feat_map[i].pos \in points, ~(feat_map[i].pos < 0),
         InFrame(cam, feat_map[i].pos)
  PROVE  \E j \in retrieved : Cell(cam, feat_map[j].pos) = Cell(cam, feat_map[i].pos)
<1> DEFINE p == feat_map[i].pos
           c == Cell(cam, p)
           there == InCell(cam, points, c)
<1>1. PointOK(feat_map[i], id)
  BY DEF VisualInv, PointsOK
<1>2. p \in Positions /\ p \in Int /\ cam.at \in Int
  BY <1>1, WorldIsInt DEF PointOK, VisualPoints
<1>3. c \in Grid
  BY <1>2, CellInGrid
<1>4. InsertKey(p) = LookupKey(p)
  <2>1. voxel_size \in Int /\ 0 < voxel_size /\ 0 <= p
    BY <1>2, SizeAssumption
  <2>2. 0 <= p \div voxel_size
    BY <1>2, <2>1, Z3
  <2>3. p \div voxel_size \in Int
    BY <1>2, <2>1, Z3
  <2>4. ~(p \div voxel_size < 0)
    BY <2>2, <2>3
  <2> QED BY <2>4 DEF InsertKey, LookupKey
<1>5. feat_map[i].obs # <<>>
  BY <1>1, Members, EmptySeq
<1>6. i \in Seen(cam, points)
  BY <1>4, <1>5 DEF Seen
<1>7. i \in there
  BY <1>6 DEF InCell
<1> HIDE DEF c
<1>8. Cardinality(retrieved \cap there) = 1
  BY <1>3, <1>7 DEF Retrievals
<1>9. retrieved \cap there # {}
  BY <1>8, FS_EmptySet
<1>10. PICK j \in retrieved : j \in there
  BY <1>9
<1>11. Cell(cam, feat_map[j].pos) = c
  BY <1>10 DEF InCell
<1> QED BY <1>10, <1>11 DEF c

LEMMA RetrieveOK ==
  ASSUME VisualInv, NEW cam \in Cameras, NEW points \in Scans, Retrieve(cam, points)
  PROVE  VisualInv'
<1>1. /\ stage = "idle" /\ stage' = "retrieved" /\ id < MaxFrames /\ id' = id + 1
      /\ camera' = cam /\ scan' = points /\ predicted' = cam /\ update_flag' = {}
  BY DEF Retrieve
<1>2. PICK retrieved \in Retrievals(cam, points) :
         \E smooth \in SUBSET retrieved : \E matched \in SUBSET smooth :
           /\ \E least \in [smooth -> 1 .. MaxObs] :
                /\ \A i \in smooth : least[i] <= Len(feat_map[i].obs)
                /\ feat_map' = [i \in DOMAIN feat_map |->
                      IF i \in smooth THEN WithRef(feat_map[i], least[i]) ELSE feat_map[i]]
           /\ grid_num' = MapCells(cam, retrieved, matched)
           /\ visual_submap' = matched
  BY DEF Retrieve
<1>3. PICK smooth \in SUBSET retrieved : \E matched \in SUBSET smooth :
         /\ \E least \in [smooth -> 1 .. MaxObs] :
              /\ \A i \in smooth : least[i] <= Len(feat_map[i].obs)
              /\ feat_map' = [i \in DOMAIN feat_map |->
                    IF i \in smooth THEN WithRef(feat_map[i], least[i]) ELSE feat_map[i]]
         /\ grid_num' = MapCells(cam, retrieved, matched)
         /\ visual_submap' = matched
  BY <1>2
<1>4. PICK matched \in SUBSET smooth :
        /\ \E least \in [smooth -> 1 .. MaxObs] :
             /\ \A i \in smooth : least[i] <= Len(feat_map[i].obs)
             /\ feat_map' = [i \in DOMAIN feat_map |->
                   IF i \in smooth THEN WithRef(feat_map[i], least[i]) ELSE feat_map[i]]
        /\ grid_num' = MapCells(cam, retrieved, matched)
        /\ visual_submap' = matched
  BY <1>3
<1>5. PICK least \in [smooth -> 1 .. MaxObs] :
        /\ \A i \in smooth : least[i] <= Len(feat_map[i].obs)
        /\ feat_map' = [i \in DOMAIN feat_map |->
              IF i \in smooth THEN WithRef(feat_map[i], least[i]) ELSE feat_map[i]]
  BY <1>4
<1>6. retrieved \subseteq DOMAIN feat_map /\ smooth \subseteq DOMAIN feat_map
      /\ matched \subseteq DOMAIN feat_map /\ matched \subseteq smooth
  BY DEF Retrievals, Seen
<1>7. /\ feat_map \in Seq(VisualPoints) /\ \A i \in DOMAIN feat_map : PointOK(feat_map[i], id)
      /\ id \in Nat /\ MaxFrames \in Nat /\ id' \in Nat /\ id' - 1 = id /\ id' # 0
      /\ id' \in 0 .. MaxFrames
  BY <1>1, LimitAssumption DEF VisualInv, PointsOK, FrameTypes
<1>8. ASSUME NEW i \in DOMAIN feat_map
      PROVE  /\ PointOK(feat_map'[i], id) /\ SamePlace(feat_map'[i], feat_map[i])
             /\ i \in smooth => feat_map'[i].has_ref_patch
  <2>1. CASE i \in smooth
    <3>1. least[i] \in DOMAIN feat_map[i].obs
      BY <1>5, <1>7, <2>1, Members
    <3>2. feat_map'[i] = WithRef(feat_map[i], least[i])
      BY <1>5, <2>1
    <3> QED BY <1>7, <3>1, <3>2, WithRefOK
  <2>2. CASE i \notin smooth
    BY <1>5, <1>7, <2>2 DEF SamePlace
  <2> QED BY <2>1, <2>2
<1>9. feat_map' = [i \in DOMAIN feat_map |-> feat_map'[i]]
  BY <1>5
<1>10. /\ feat_map' \in Seq(VisualPoints) /\ DOMAIN feat_map' = DOMAIN feat_map
      /\ NoDoubles'
  BY <1>7, <1>8, <1>9, Changed DEF VisualInv
<1>11. FrameTypes'
  <2>1. grid_num' \in [Grid -> {"unknown", "map", "pointcloud"}]
    BY <1>4 DEF MapCells
  <2>2. points \subseteq Positions /\ cam \in Poses
    BY WorldAssumption, WorldIsInt
  <2>3. visual_submap' \subseteq DOMAIN feat_map'
    BY <1>4, <1>6, <1>10
  <2> QED BY <1>1, <1>7, <2>1, <2>2, <2>3 DEF FrameTypes, Matching
<1>12. PointsOK'
  <2>1. \A i \in DOMAIN feat_map' : PointOK(feat_map'[i], id')
    BY <1>7, <1>8, <1>10, LaterOK
  <2>2. \A i \in visual_submap' : PointOK(feat_map'[i], id' - 1) /\ feat_map'[i].has_ref_patch
    BY <1>4, <1>6, <1>7, <1>8
  <2> QED BY <1>10, <2>1, <2>2 DEF PointsOK
<1>13. MapFillsGrid'
  <2> SUFFICES ASSUME cam.facing, NEW i \in DOMAIN feat_map, feat_map[i].pos \in points,
                      ~(feat_map[i].pos < 0), InFrame(cam, feat_map[i].pos)
               PROVE  grid_num'[Cell(cam, feat_map[i].pos)] = "map"
    BY <1>1, <1>8, <1>10 DEF MapFillsGrid, SamePlace
  <2>1. \E j \in retrieved : Cell(cam, feat_map[j].pos) = Cell(cam, feat_map[i].pos)
    BY Found
  <2>2. Cell(cam, feat_map[i].pos) \in Grid
    <3>1. feat_map[i].pos \in Int /\ cam.at \in Int
      BY <1>7, WorldIsInt DEF PointOK, VisualPoints
    <3> QED BY <3>1, CellInGrid
  <2> QED BY <1>4, <2>1, <2>2 DEF MapCells
<1> QED BY <1>10, <1>11, <1>12, <1>13 DEF VisualInv

LEMMA UpdateStateOK == ASSUME VisualInv, UpdateState PROVE VisualInv'
<1>1. /\ stage = "retrieved" /\ stage' = "corrected"
      /\ UNCHANGED <<feat_map, id, scan, grid_num, visual_submap, update_flag>>
  BY DEF UpdateState
<1>2. predicted' = predicted /\ (camera' = camera
        \/ \E d \in Correction \cup {0} : camera' = [camera EXCEPT !.at = @ + d])
  BY DEF UpdateState
<1>3. camera \in Cameras /\ camera \in Poses /\ predicted = camera
  BY <1>1 DEF VisualInv, FrameTypes
<1>4. camera' \in Poses /\ camera'.facing = camera.facing
  <2>1. ASSUME NEW d \in Correction \cup {0}, camera' = [camera EXCEPT !.at = @ + d]
        PROVE  camera' \in Poses /\ camera'.facing = camera.facing
    <3>1. camera \in [at : Int, facing : BOOLEAN]
      BY <1>3, WorldAssumption
    <3> QED BY <1>3, <2>1, <3>1, WorldIsInt
  <2> QED BY <1>2, <1>3, <2>1
<1>5. FrameTypes'
  BY <1>1, <1>2, <1>3, <1>4 DEF VisualInv, FrameTypes, Matching
<1>6. PointsOK'
  BY <1>1 DEF VisualInv, PointsOK, Matching
<1>7. MapFillsGrid'
  BY <1>1, <1>2 DEF VisualInv, MapFillsGrid, InFrame, Cell, Pixel
<1>8. NoDoubles'
  BY <1>1 DEF VisualInv, NoDoubles
<1> QED BY <1>5, <1>6, <1>7, <1>8 DEF VisualInv

\* The points generateVisualMapPoints adds are none the map has, and no two of
\* them are one, unless the camera looks away or the correction has taken them to
\* another cell: for the cell of a point that stays in its own is marked.
LEMMA AppendedNew ==
  ASSUME VisualInv, stage = "corrected", camera.facing,
         NEW new \in Appended, NEW j \in DOMAIN new, ~ChangesCell(new[j]), ~(new[j] < 0)
  PROVE  /\ \A i \in DOMAIN feat_map : feat_map[i].pos # new[j]
         /\ \A i \in DOMAIN new : new[i] = new[j] => i = j
<1>1. new[j] \in scan /\ InFrame(camera, new[j]) /\ grid_num[Cell(camera, new[j])] # "map"
  BY DEF Appended, Candidates
<1>2. \A i \in DOMAIN feat_map : feat_map[i].pos # new[j]
  <2>1. predicted.facing
    BY DEF VisualInv, FrameTypes
  <2>2. InFrame(predicted, new[j]) /\ Cell(predicted, new[j]) = Cell(camera, new[j])
    BY DEF ChangesCell
  <2> QED BY <1>1, <2>1, <2>2 DEF VisualInv, MapFillsGrid
<1>3. PICK n \in 0 .. length : new \in [1 .. n -> scan]
  BY DEF Appended
<1>4. DOMAIN new = 1 .. n /\ n \in Int
  BY <1>3, SizeAssumption
<1>5. new[j] \in Int /\ camera.at \in Int /\ Cell(camera, new[j]) \in Int
  <2>1. new[j] \in Int /\ camera.at \in Int
    BY <1>1, WorldIsInt DEF VisualInv, FrameTypes
  <2> QED BY <1>1, <2>1, CellInGrid, SizeAssumption DEF Grid
<1>6. ASSUME NEW i \in DOMAIN new, new[i] = new[j], i # j PROVE FALSE
  <2>1. i < j \/ j < i
    BY <1>4, <1>6
  <2>2. \A k, l \in DOMAIN new : k < l => Cell(camera, new[k]) < Cell(camera, new[l])
    BY DEF Appended
  <2> QED BY <1>5, <1>6, <2>1, <2>2
<1> QED BY <1>2, <1>6

LEMMA GenerateOK == ASSUME VisualInv, Generate PROVE VisualInv'
<1>1. /\ stage = "corrected" /\ stage' = "generated"
      /\ UNCHANGED <<id, camera, scan, predicted, visual_submap, update_flag>>
  BY DEF Generate
<1>2. /\ feat_map \in Seq(VisualPoints) /\ \A i \in DOMAIN feat_map : PointOK(feat_map[i], id)
      /\ id \in 1 .. MaxFrames /\ camera \in Poses
      /\ scan \subseteq Positions /\ visual_submap \subseteq DOMAIN feat_map
      /\ \A i \in visual_submap : PointOK(feat_map[i], id - 1)
      /\ grid_num \in [Grid -> {"unknown", "map", "pointcloud"}]
  BY <1>1, LimitAssumption DEF VisualInv, PointsOK, FrameTypes, Matching
<1>3. MapFillsGrid'
  BY <1>1 DEF MapFillsGrid
<1>4. CASE UNCHANGED <<feat_map, grid_num>>
  <2>1. FrameTypes' /\ PointsOK' /\ NoDoubles'
    BY <1>1, <1>4 DEF VisualInv, FrameTypes, PointsOK, NoDoubles, Matching
  <2> QED BY <1>3, <2>1 DEF VisualInv
<1>5. CASE \E new \in Appended :
             /\ feat_map' = feat_map \o [k \in DOMAIN new |-> NewPoint(new[k])]
             /\ grid_num' = [c \in Grid |-> IF c \in Filled(new) THEN "pointcloud" ELSE grid_num[c]]
  <2> DEFINE m == Len(feat_map)
  <2>1. PICK new \in Appended :
          /\ feat_map' = feat_map \o [k \in DOMAIN new |-> NewPoint(new[k])]
          /\ grid_num' = [c \in Grid |-> IF c \in Filled(new) THEN "pointcloud" ELSE grid_num[c]]
    BY <1>5
  <2> DEFINE more == [k \in DOMAIN new |-> NewPoint(new[k])]
  <2>2. PICK n \in 0 .. length : new \in [1 .. n -> scan]
    BY DEF Appended
  <2>3. n \in Nat /\ DOMAIN new = 1 .. n /\ m \in Nat /\ DOMAIN feat_map = 1 .. m
        /\ \A k \in 1 .. n : new[k] \in Positions
    BY <1>2, <2>2, SizeAssumption
  <2>4. \A k \in 1 .. n : /\ more[k] = NewPoint(new[k]) /\ PointOK(more[k], id)
                          /\ more[k].pos = new[k]
                          /\ more[k].born = [behind |-> ~camera.facing, moved |-> ChangesCell(new[k])]
    BY <1>2, <2>3, NewPointOK
  <2>5. more \in Seq(VisualPoints) /\ Len(more) = n
    <3>1. \A k \in 1 .. n : more[k] \in VisualPoints
      BY <2>4 DEF PointOK
    <3>2. more = [k \in 1 .. n |-> more[k]]
      BY <2>3
    <3> HIDE DEF more
    <3>3. more \in [1 .. n -> VisualPoints]
      BY <3>1, <3>2
    <3> QED BY <2>3, <3>3
  <2> HIDE DEF more
  <2>6. /\ feat_map' \in Seq(VisualPoints) /\ Len(feat_map') = m + n
        /\ \A i \in 1 .. m + n : feat_map'[i] = IF i <= m THEN feat_map[i] ELSE more[i - m]
    <3>1. feat_map \in Seq(VisualPoints) /\ more \in Seq(VisualPoints)
      BY <1>2, <2>5
    <3>2. /\ feat_map \o more \in Seq(VisualPoints)
          /\ Len(feat_map \o more) = Len(feat_map) + Len(more)
          /\ \A i \in 1 .. Len(feat_map) + Len(more) :
               (feat_map \o more)[i] = IF i <= Len(feat_map) THEN feat_map[i]
                                       ELSE more[i - Len(feat_map)]
      BY ONLY <3>1, ConcatProperties
    <3>3. feat_map' = feat_map \o more
      BY <2>1 DEF more
    <3> QED BY <2>5, <3>2, <3>3
  <2>7. DOMAIN feat_map' = 1 .. m + n
    BY <2>3, <2>6
  <2>8. \A i \in 1 .. m : i \in 1 .. m + n /\ feat_map'[i] = feat_map[i]
    BY <2>3, <2>6
  <2>9. ASSUME NEW i \in 1 .. m + n, ~(i <= m)
        PROVE  i - m \in 1 .. n /\ feat_map'[i] = more[i - m]
    BY <2>3, <2>6, <2>9
  <2>10. FrameTypes'
    <3>1. grid_num' \in [Grid -> {"unknown", "map", "pointcloud"}]
      BY <1>2, <2>1
    <3>2. visual_submap' \subseteq DOMAIN feat_map'
      BY <1>1, <1>2, <2>3, <2>7, <2>8
    <3> QED BY <1>1, <3>1, <3>2 DEF VisualInv, FrameTypes, Matching
  <2>11. PointsOK'
    <3>1. ASSUME NEW i \in 1 .. m + n PROVE PointOK(feat_map'[i], id)
      <4>1. CASE i <= m
        BY <1>2, <2>3, <2>8, <4>1
      <4>2. CASE ~(i <= m)
        BY <2>4, <2>9, <4>2
      <4> QED BY <4>1, <4>2
    <3>2. \A i \in visual_submap : PointOK(feat_map'[i], id - 1)
      BY <1>2, <2>3, <2>8
    <3> QED BY <1>1, <2>6, <2>7, <3>1, <3>2 DEF PointsOK
  <2>12. NoDoubles'
    <3> SUFFICES ASSUME NEW i \in 1 .. m + n, NEW j \in 1 .. m + n, i < j,
                        feat_map'[i].pos = feat_map'[j].pos, ~feat_map'[j].born.behind,
                        ~feat_map'[j].born.moved, ~(feat_map'[j].pos < 0)
                 PROVE  FALSE
      BY <2>7 DEF NoDoubles
    <3>1. CASE j <= m
      <4>1. i \in 1 .. m /\ j \in 1 .. m
        BY <2>3, <3>1
      <4> QED BY <2>3, <2>8, <4>1 DEF VisualInv, NoDoubles
    <3>2. CASE ~(j <= m)
      <4>1. j - m \in 1 .. n /\ feat_map'[j] = more[j - m]
        BY <2>9, <3>2
      <4>2. /\ feat_map'[j].pos = new[j - m] /\ camera.facing /\ ~ChangesCell(new[j - m])
            /\ ~(new[j - m] < 0)
        <5>1. /\ feat_map'[j].pos = new[j - m]
              /\ feat_map'[j].born = [behind |-> ~camera.facing, moved |-> ChangesCell(new[j - m])]
          BY <2>4, <4>1
        <5>2. /\ feat_map'[j].born.behind = ~camera.facing
              /\ feat_map'[j].born.moved = ChangesCell(new[j - m])
          BY <5>1
        <5> QED BY <5>1, <5>2
      <4>3. /\ \A k \in DOMAIN feat_map : feat_map[k].pos # new[j - m]
            /\ \A k \in DOMAIN new : new[k] = new[j - m] => k = j - m
        BY <1>1, <2>3, <4>1, <4>2, AppendedNew
      <4>4. CASE i <= m
        BY <2>3, <2>8, <4>2, <4>3, <4>4
      <4>5. CASE ~(i <= m)
        <5>1. i - m \in 1 .. n /\ feat_map'[i].pos = new[i - m]
          BY <2>4, <2>9, <4>5
        <5>2. i - m = j - m
          BY <2>3, <4>2, <4>3, <5>1
        <5> QED BY <2>3, <5>2
      <4> QED BY <4>4, <4>5
    <3> QED BY <3>1, <3>2
  <2> QED BY <1>3, <2>10, <2>11, <2>12 DEF VisualInv
<1> QED BY <1>4, <1>5 DEF Generate

LEMMA UpdatePointsOK == ASSUME VisualInv, UpdatePoints PROVE VisualInv'
<1>1. /\ stage = "generated" /\ stage' = "updated"
      /\ UNCHANGED <<id, camera, scan, predicted, grid_num, visual_submap>>
      /\ update_flag' \subseteq visual_submap
      /\ feat_map' = [i \in DOMAIN feat_map |->
                        IF i \in visual_submap THEN Updated(feat_map[i]) ELSE feat_map[i]]
  BY DEF UpdatePoints
<1>2. /\ feat_map \in Seq(VisualPoints) /\ \A i \in DOMAIN feat_map : PointOK(feat_map[i], id)
      /\ id \in 1 .. MaxFrames /\ camera \in Poses
      /\ visual_submap \subseteq DOMAIN feat_map
      /\ \A i \in visual_submap : PointOK(feat_map[i], id - 1)
  BY <1>1, LimitAssumption DEF VisualInv, PointsOK, FrameTypes, Matching
<1>3. ASSUME NEW i \in DOMAIN feat_map
      PROVE  PointOK(feat_map'[i], id) /\ SamePlace(feat_map'[i], feat_map[i])
  <2>1. CASE i \in visual_submap
    <3>1. feat_map'[i] = Updated(feat_map[i])
      BY <1>1, <2>1
    <3> QED BY <1>2, <2>1, <3>1, UpdatedOK
  <2>2. CASE i \notin visual_submap
    BY <1>1, <1>2, <2>2 DEF SamePlace
  <2> QED BY <2>1, <2>2
<1>4. feat_map' = [i \in DOMAIN feat_map |-> feat_map'[i]]
  BY <1>1
<1>5. /\ feat_map' \in Seq(VisualPoints) /\ DOMAIN feat_map' = DOMAIN feat_map
      /\ NoDoubles'
  BY <1>2, <1>3, <1>4, Changed DEF VisualInv
<1>6. FrameTypes'
  BY <1>1, <1>2, <1>5 DEF VisualInv, FrameTypes, Matching
<1>7. PointsOK'
  BY <1>1, <1>3, <1>5 DEF PointsOK, Matching
<1>8. MapFillsGrid'
  BY <1>1 DEF MapFillsGrid
<1> QED BY <1>5, <1>6, <1>7, <1>8 DEF VisualInv

LEMMA UpdateReferenceOK == ASSUME VisualInv, UpdateReference PROVE VisualInv'
<1>1. /\ stage = "updated" /\ stage' = "idle" /\ scan' = {} /\ predicted' = camera
      /\ grid_num' = [c \in Grid |-> "unknown"] /\ visual_submap' = {} /\ update_flag' = {}
      /\ UNCHANGED <<id, camera>>
  BY DEF UpdateReference
<1>2. PICK scores \in [update_flag -> [1 .. MaxObs -> Scores]], settled \in SUBSET update_flag :
        feat_map' = [i \in DOMAIN feat_map |->
          IF i \in update_flag THEN Rated(feat_map[i], scores[i], i \in settled) ELSE feat_map[i]]
  BY DEF UpdateReference
<1>3. feat_map \in Seq(VisualPoints) /\ \A i \in DOMAIN feat_map : PointOK(feat_map[i], id)
  BY DEF VisualInv, PointsOK
<1>4. ASSUME NEW i \in DOMAIN feat_map
      PROVE  PointOK(feat_map'[i], id) /\ SamePlace(feat_map'[i], feat_map[i])
  <2>1. CASE i \in update_flag
    <3>1. /\ feat_map'[i] = Rated(feat_map[i], scores[i], i \in settled)
          /\ scores[i] \in [1 .. MaxObs -> Scores]
      BY <1>2, <2>1
    <3>2. (i \in settled) \in BOOLEAN
      OBVIOUS
    <3> QED BY <1>3, <3>1, <3>2, RatedOK
  <2>2. CASE i \notin update_flag
    BY <1>2, <1>3, <2>2 DEF SamePlace
  <2> QED BY <2>1, <2>2
<1>5. feat_map' = [i \in DOMAIN feat_map |-> feat_map'[i]]
  BY <1>2
<1>6. /\ feat_map' \in Seq(VisualPoints) /\ DOMAIN feat_map' = DOMAIN feat_map
      /\ NoDoubles'
  BY <1>3, <1>4, <1>5, Changed DEF VisualInv
<1>7. FrameTypes'
  <2>1. grid_num' \in [Grid -> {"unknown", "map", "pointcloud"}]
    BY <1>1
  <2> QED BY <1>1, <2>1 DEF VisualInv, FrameTypes, Matching
<1>8. PointsOK'
  BY <1>1, <1>4, <1>6 DEF PointsOK, Matching
<1>9. MapFillsGrid'
  BY <1>1 DEF MapFillsGrid
<1> QED BY <1>6, <1>7, <1>8, <1>9 DEF VisualInv

LEMMA VisualInductive == VisualInv /\ [Next]_vars => VisualInv'
<1> SUFFICES ASSUME VisualInv, [Next]_vars PROVE VisualInv'
  OBVIOUS
<1>1. CASE UNCHANGED vars
  BY <1>1 DEF vars, frameVars, VisualInv, FrameTypes, PointsOK, MapFillsGrid, NoDoubles
<1>2. ASSUME NEW cam \in Cameras, NEW points \in Scans, Retrieve(cam, points) PROVE VisualInv'
  BY <1>2, RetrieveOK
<1>3. CASE UpdateState
  BY <1>3, UpdateStateOK
<1>4. CASE Generate
  BY <1>4, GenerateOK
<1>5. CASE UpdatePoints
  BY <1>5, UpdatePointsOK
<1>6. CASE UpdateReference
  BY <1>6, UpdateReferenceOK
<1> QED BY <1>1, <1>2, <1>3, <1>4, <1>5, <1>6 DEF Next

LEMMA VisualAlways == Spec => []VisualInv
<1> HIDE DEF VisualInv
<1> QED BY VisualInitial, VisualInductive, PTL DEF Spec

\* However the observations of a point are pruned and scored, its reference is
\* one of them, and every point the frame is matched with has one: what the
\* Jacobians follow is there.
THEOREM RefsSafe == Spec => []RefIsObserved
<1>1. VisualInv => RefIsObserved
  BY DEF VisualInv, PointsOK, PointOK, RefOK, RefIsObserved
<1> QED BY <1>1, VisualAlways, PTL

\* No point of the map loses its last observation, and none keeps more than
\* MaxObs, in the order they were made; and the map has its types.
THEOREM ObservationsSafe == Spec => []ObservationsBounded
<1>1. ASSUME VisualInv PROVE ObservationsBounded
  <2>1. \A i \in DOMAIN feat_map : ObsOK(feat_map[i].obs, id)
    BY <1>1 DEF VisualInv, PointsOK, PointOK
  <2>2. TypeOK
    BY <1>1, <2>1 DEF VisualInv, PointsOK, FrameTypes, Matching, ObsOK, TypeOK
  <2> QED BY <2>1, <2>2 DEF ObsOK, ObservationsBounded
<1> QED BY <1>1, VisualAlways, PTL

\* generateVisualMapPoints makes no point a second time but for the three
\* reasons the property names, whatever matches, however the camera moves.
THEOREM DoublesSafe == Spec => []NoDoubles
<1>1. VisualInv => NoDoubles
  BY DEF VisualInv
<1> QED BY <1>1, VisualAlways, PTL
===============================================================================

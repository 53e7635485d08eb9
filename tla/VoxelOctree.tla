------------------------------ MODULE VoxelOctree ------------------------------
(***************************************************************************)
(* One root voxel of the map: the octree of voxel_map.cpp, which collects  *)
(* points, fits a plane to them, splits where no plane fits, and stops     *)
(* learning where it has seen enough.                                      *)
(*                                                                         *)
(* A node is named by the path of leaf numbers that leads to it, a point   *)
(* by the path of the deepest node it would fall into: that is all the     *)
(* control ever asks of it.  Whether a plane fits is a question of         *)
(* numbers, so every fit has either outcome.                               *)
(***************************************************************************)
EXTENDS Integers, Sequences, FiniteSetsExt, SequencesExt, Functions

CONSTANTS
  MaxLayer,            \* max_layer_
  Cells,               \* the deepest nodes points fall into
  PointsThreshold,     \* points_size_threshold_, layer_init_num_[layer]
  UpdateThreshold,     \* update_size_threshold_
  MaxPoints,           \* max_points_num_
  FirstScan            \* bounds the points of the first scan in a cell

ASSUME CellsAssumption ==
  MaxLayer \in Nat /\ Cells \subseteq [1 .. MaxLayer -> 0 .. 7] /\ IsFiniteSet(Cells)
ASSUME SizesAssumption ==
  {PointsThreshold, UpdateThreshold, MaxPoints, FirstScan} \subseteq Nat

VARIABLES
  tree,              \* the nodes of the voxel; leaves_ of a node are the longer paths
  lidar_map_inited   \* BuildVoxelMap has been called

voxelVars == <<tree, lidar_map_inited>>

Paths == UNION {Prefixes(c) : c \in Cells}
Root == <<>>

CellsUnder(p) == {c \in Cells : IsPrefix(p, c)}
AtMaxLayer(p) == Len(p) = MaxLayer

(* Points are told apart by their cell only; a node has so many of each. *)
NoPoints == [c \in Cells |-> 0]
Numbered(points) == UNION {{c} \X (1 .. points[c]) : c \in Cells}
Size(points) == Cardinality(Numbered(points))
Under(points, p) == [c \in Cells |-> IF c \in CellsUnder(p) THEN points[c] ELSE 0]

(* VoxelOctoTree and its plane.  points_size_ is that of the last fit;     *)
(* octo_state_ is written and never read.                                  *)
Absent == [made |-> FALSE, temp_points |-> NoPoints, new_points |-> 0,
           init_octo |-> FALSE, update_enable |-> TRUE, is_plane |-> FALSE,
           points_size |-> 0]
NewNode == [Absent EXCEPT !.made = TRUE]

Nodes(t) == {p \in Paths : t[p].made}
EmptyTree == [p \in Paths |-> Absent]

VoxelInit ==
  /\ tree = EmptyTree
  /\ lidar_map_inited = FALSE

-------------------------------------------------------------------------------
(* A first fit needs more points than this. *)
Enough(points) == Size(points) > PointsThreshold

(* init_plane: a fit to all the points of the node, with either outcome. *)
Fitted(node, planar) ==
  [node EXCEPT !.is_plane = planar, !.points_size = Size(node.temp_points)]

(* init_octo_tree, of a node with points enough. *)
FirstFit(node, planar) ==
  [Fitted(node, planar) EXCEPT
     !.init_octo = TRUE,
     !.new_points = 0,
     !.update_enable = ~(planar /\ Size(node.temp_points) > MaxPoints)]

(* What the loop of cut_octo_tree makes of one of the leaves: it drops the *)
(* points of a plane that has seen enough.                                 *)
CutLeaf(points, planar) ==
  LET leaf == [NewNode EXCEPT !.temp_points = points, !.new_points = Size(points)]
      fit  == FirstFit(leaf, planar)
  IN  IF ~Enough(points) THEN leaf
      ELSE IF fit.update_enable THEN fit
      ELSE [fit EXCEPT !.temp_points = NoPoints]

(* cut_octo_tree, recursive in the code: a node below p comes to be when   *)
(* points reach it, that is when none of the nodes between was a plane or  *)
(* kept its points waiting for more.                                       *)
Between(p, q) == {r \in Prefixes(q) : IsStrictPrefix(p, r) /\ IsStrictPrefix(r, q)}

CutBelow(t, p, planes) ==
  LET points == t[p].temp_points
      reached(q) ==
        /\ IsStrictPrefix(p, q)
        /\ \E c \in CellsUnder(q) : points[c] > 0
        /\ \A r \in Between(p, q) : r \notin planes /\ Enough(Under(points, r))
  IN  [q \in Paths |-> IF reached(q) THEN CutLeaf(Under(points, q), q \in planes)
                       ELSE t[q]]

(* init_octo_tree *)
InitOctoTree(t, p, planes) ==
  IF ~Enough(t[p].temp_points) THEN t
  ELSE LET fit == [t EXCEPT ![p] = FirstFit(t[p], p \in planes)]
       IN  IF p \in planes \/ AtMaxLayer(p) THEN fit ELSE CutBelow(fit, p, planes)

-------------------------------------------------------------------------------
(* BuildVoxelMap, as far as this voxel is concerned: all points of the     *)
(* first scan, then one init_octo_tree.                                    *)
BuildVoxelMap ==
  /\ ~lidar_map_inited
  /\ lidar_map_inited' = TRUE
  /\ \E points \in [Cells -> 0 .. FirstScan], planes \in SUBSET Paths :
       LET batch == [NewNode EXCEPT !.temp_points = points, !.new_points = Size(points)]
       IN  tree' = IF Size(points) = 0 THEN tree
                   ELSE InitOctoTree([tree EXCEPT ![Root] = batch], Root, planes)

-------------------------------------------------------------------------------
(* UpdateOctoTree: the point goes down, through nodes that were split, to  *)
(* the first that is not; a missing leaf is created for it.                *)

(* The test of the layer lets the nodes above the last one learn on.       *)
IsSplitWhenFull(t, p) ==
  t[p].made /\ t[p].init_octo /\ ~t[p].is_plane /\ ~t[p].update_enable /\ ~AtMaxLayer(p)

IsSplit(t, p) ==
  t[p].made /\ t[p].init_octo /\ ~t[p].is_plane /\ ~AtMaxLayer(p)

Landing(t, c) ==
  CHOOSE p \in Prefixes(c) : /\ ~IsSplit(t, p)
                             /\ \A r \in Prefixes(p) \ {p} : IsSplit(t, r)

Pushed(node, c) ==
  [node EXCEPT !.made = TRUE, !.temp_points[c] = @ + 1, !.new_points = @ + 1]

(* Refits that keep on counting. *)
RefitKeepsCount(node, planar) ==
  IF node.new_points > UpdateThreshold THEN Fitted(node, planar) ELSE node

(* A node of the tree learns until it has points enough.  A refit of a     *)
(* plane may find that it is none, one at the bottom that it is one.       *)
Refit(node, planar) ==
  IF node.new_points > UpdateThreshold
  THEN [Fitted(node, planar) EXCEPT !.new_points = 0] ELSE node

(* The last step forgets to stop the learning. *)
FullLearnsOn(node, limit) ==
  IF Size(node.temp_points) >= limit THEN [node EXCEPT !.new_points = 0] ELSE node

Full(node, limit) ==
  IF Size(node.temp_points) >= limit
  THEN [node EXCEPT !.update_enable = FALSE, !.new_points = 0] ELSE node

Learn(node, c, planar, limit) ==
  IF node.update_enable THEN Full(Refit(Pushed(node, c), planar), limit) ELSE node

UpdateOctoTree(t, c, planes) ==
  LET p    == Landing(t, c)
      node == t[p]
      limit == IF node.is_plane THEN MaxPoints ELSE MaxPoints + 1
  IN  IF ~node.init_octo
      THEN InitOctoTree([t EXCEPT ![p] = Pushed(node, c)], p, planes)
      ELSE [t EXCEPT ![p] = Learn(node, c, p \in planes, limit)]

(* One turn of the loop of UpdateVoxelMap. *)
UpdateVoxelMap(c) ==
  /\ lidar_map_inited
  /\ \E planes \in SUBSET {p \in Paths : IsPrefix(Landing(tree, c), p)} :
       tree' = UpdateOctoTree(tree, c, planes)
  /\ UNCHANGED lidar_map_inited

(* clearMemOutOfMap: the robot has gone far away. *)
ClearMemOutOfMap ==
  /\ Nodes(tree) # {}
  /\ tree' = EmptyTree
  /\ UNCHANGED lidar_map_inited

VoxelNext ==
  \/ BuildVoxelMap
  \/ \E c \in Cells : UpdateVoxelMap(c)
  \/ ClearMemOutOfMap

VoxelSpec == VoxelInit /\ [][VoxelNext]_voxelVars

-------------------------------------------------------------------------------
(* What the others read. *)

(* build_single_residual and GetUpdatePlane go down until they meet a plane. *)
Reached(t) == {p \in Nodes(t) : \A r \in Prefixes(p) \ {p} : ~t[r].is_plane}

Planes(t) == {p \in Nodes(t) : t[p].is_plane}
MatchablePlanes(t) == Reached(t) \cap Planes(t)

(* find_correspond: the deepest node for a point. *)
FindCorrespond(t, c) ==
  LET ends(p) == \/ ~t[p].init_octo \/ t[p].is_plane \/ AtMaxLayer(p)
                 \/ ~t[SubSeq(c, 1, Len(p) + 1)].made
  IN  CHOOSE p \in Prefixes(c) : ends(p) /\ \A r \in Prefixes(p) \ {p} : ~ends(r)

-------------------------------------------------------------------------------
VoxelTypeOK ==
  /\ tree \in [Paths -> [made : BOOLEAN, temp_points : [Cells -> Nat], new_points : Nat,
                         init_octo : BOOLEAN, update_enable : BOOLEAN,
                         is_plane : BOOLEAN, points_size : Nat]]
  /\ lidar_map_inited \in BOOLEAN

(* No plane of the map is hidden: the search of a scan's residuals reaches *)
(* every one, and the camera's search for a point's plane ends at the one  *)
(* the point is in.  So a node that was split never becomes a plane over   *)
(* its leaves, whatever is fitted later (build_single_residual,            *)
(* find_correspond).                                                       *)
EveryPlaneFound ==
  /\ MatchablePlanes(tree) = Planes(tree)
  /\ \A p \in Planes(tree) : \A c \in CellsUnder(p) : FindCorrespond(tree, c) = p

(* A plane is never far behind its points: at most UpdateThreshold came    *)
(* after its last fit, and one that learns no more was fitted to all of    *)
(* the MaxPoints but those (init_plane's callers).                         *)
PlanesKeepUp ==
  \A p \in Planes(tree) :
    LET node == tree[p]
    IN  IF node.update_enable
        THEN /\ node.new_points <= UpdateThreshold
             /\ node.points_size + node.new_points = Size(node.temp_points)
        ELSE node.points_size >= MaxPoints - UpdateThreshold

(* The most points a node can learn from: its share of the first scan, or  *)
(* as many as the limits let in.                                           *)
Bound(p) == Max({Cardinality(CellsUnder(p)) * FirstScan, PointsThreshold + 1, MaxPoints})

(* Types hold, and the points a node holds on to are bounded, by its share *)
(* of the first scan or by the limits, however long the robot looks at the *)
(* voxel.  A node at the bottom that is no plane is not stopped by its     *)
(* first fit (init_octo_tree), so it takes one more.                       *)
MemoryBounded ==
  /\ VoxelTypeOK
  /\ \A p \in Paths : Size(tree[p].temp_points) <= Bound(p) + 1
===============================================================================

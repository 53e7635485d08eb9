------------------------------- MODULE VisualMap -------------------------------
(***************************************************************************)
(* The visual map of VIOManager: points of the lidar map with patches of   *)
(* the images they were seen in.  processFrame retrieves the points in     *)
(* view, corrects the pose with them, adds a point where the image has     *)
(* none and a corner, gives the retrieved points new observations and      *)
(* picks the best of these for reference.                                  *)
(*                                                                         *)
(* The world is a line of positions the camera moves along, looking at it  *)
(* or away from it; patches, normals and errors are left out, and what     *)
(* they decide is open.  As deployed, normal_en is on and raycast_en off.  *)
(***************************************************************************)
EXTENDS Integers, SequencesExt, FiniteSetsExt, Functions

CONSTANTS
  Positions,     \* of the lidar's points
  voxel_size,
  Cameras,       \* [at, facing] poses of the camera
  grid_size, length,  \* the image is a row of so many cells of that size
  Correction,    \* how far the filter may move the camera
  Scans,         \* the sets of positions the lidar sees at a time
  MinScan,       \* 10: a smaller scan adds no points
  Far,           \* a new observation is from farther than this from the oldest
  MaxObs,        \* 30
  RefMin,        \* 5: reference patches are scored with more observations
  ConvergeMin,   \* 10: a point may converge with more
  Scores,        \* values of a score
  MaxFrames, MaxMapped  \* bound the images, and the points when one comes

ASSUME SizeAssumption == {voxel_size, grid_size, length} \subseteq Nat \ {0}
ASSUME WorldAssumption ==
  /\ Positions \subseteq Int
  /\ Cameras \subseteq [at : Int, facing : BOOLEAN]
  /\ Correction \subseteq Int
  /\ Scans \subseteq SUBSET Positions
ASSUME LimitAssumption ==
  /\ {MaxObs, RefMin, ConvergeMin, MinScan, Far, MaxFrames, MaxMapped} \subseteq Nat
  /\ 1 < MaxObs
ASSUME ScoreAssumption == Scores \subseteq Int

VARIABLES
  feat_map,     \* the points, in the order they were made
  stage,        \* what processFrame has done
  id,           \* of the frame
  camera, scan, \* its pose, new_frame_->T_f_w_, and the lidar's points, pg
  predicted,    \* the pose the points were retrieved with, before the correction
  grid_num,     \* cells some map point is in, and cells to get a point
  visual_submap, \* the points the frame is matched with
  update_flag   \* those of them with a new observation

frameVars == <<id, camera, scan, predicted, grid_num, visual_submap, update_flag>>
vars == <<feat_map, stage, frameVars>>

NoRef == 0
Grid == 0 .. length - 1

Init ==
  /\ feat_map = <<>>
  /\ stage = "idle"
  /\ id = 0
  /\ camera \in Cameras
  /\ scan = {}
  /\ predicted = camera
  /\ grid_num = [c \in Grid |-> "unknown"]
  /\ visual_submap = {}
  /\ update_flag = {}

-------------------------------------------------------------------------------
(* The projection, w2c.  A point behind the camera has a pixel too. *)
Pixel(cam, p) == p - cam.at
InFrame(cam, p) == Pixel(cam, p) \in 0 .. grid_size * length - 1
Cell(cam, p) == Pixel(cam, p) \div grid_size
Dist(cam, p) == IF p < cam.at THEN cam.at - p ELSE p - cam.at

(* The voxel of a point.  insertPointIntoVoxelMap takes one off a negative *)
(* quotient and truncates it; retrieveFromVisualSparseMap rounds it down   *)
(* and takes one off as well.                                              *)
InsertKey(p) == IF p < 0 THEN -((-p) \div voxel_size) - 1 ELSE p \div voxel_size
LookupKey(p) == LET loc == p \div voxel_size IN IF loc < 0 THEN loc - 1 ELSE loc

(* retrieveFromVisualSparseMap: of the points in the voxels the scan hits, *)
(* the nearest of every cell, ...                                          *)
Seen(cam, points) ==
  {i \in DOMAIN feat_map :
     /\ InsertKey(feat_map[i].pos) \in {LookupKey(p) : p \in points}
     /\ feat_map[i].obs # <<>>
     /\ cam.facing
     /\ InFrame(cam, feat_map[i].pos)}

InCell(cam, points, c) == {i \in Seen(cam, points) : Cell(cam, feat_map[i].pos) = c}
NearestIn(cam, points, c) ==
  {i \in InCell(cam, points, c) : \A j \in InCell(cam, points, c) :
     Dist(cam, feat_map[i].pos) <= Dist(cam, feat_map[j].pos)}

Retrievals(cam, points) ==
  {n \in SUBSET Seen(cam, points) :
     \A c \in Grid :
       LET there == InCell(cam, points, c)
       IN  there # {} => /\ Cardinality(n \cap there) = 1
                         /\ n \cap there \subseteq NearestIn(cam, points, c)}

(* ... but for those next to a jump in depth, get a reference patch if     *)
(* they have none.                                                         *)
RefSet(pt, f) == [pt EXCEPT !.ref_patch = f, !.has_ref_patch = TRUE]
WithRef(pt, k) ==
  IF Len(pt.obs) = 1 THEN RefSet(pt, pt.obs[1].id)
  ELSE IF pt.has_ref_patch THEN pt
  ELSE RefSet(pt, pt.obs[k].id)

(* A cell whose point is no match is free for a new one. *)
MatchedCells(cam, retrieved, matched) ==
  [c \in Grid |-> IF \E i \in matched : Cell(cam, feat_map[i].pos) = c THEN "map" ELSE "unknown"]

MapCells(cam, retrieved, matched) ==
  [c \in Grid |-> IF \E i \in retrieved : Cell(cam, feat_map[i].pos) = c THEN "map" ELSE "unknown"]

(* Their patches must match the image to get into the submap. *)
Retrieve(cam, points) ==
  /\ stage = "idle"
  /\ id < MaxFrames /\ Len(feat_map) <= MaxMapped
  /\ id' = id + 1
  /\ camera' = cam
  /\ predicted' = cam
  /\ scan' = points
  /\ update_flag' = {}
  /\ \E retrieved \in Retrievals(cam, points) : \E smooth \in SUBSET retrieved :
       \E matched \in SUBSET smooth :
         /\ \E least \in [smooth -> 1 .. MaxObs] :
              /\ \A i \in smooth : least[i] <= Len(feat_map[i].obs)
              /\ feat_map' = [i \in DOMAIN feat_map |->
                    IF i \in smooth THEN WithRef(feat_map[i], least[i]) ELSE feat_map[i]]
         /\ grid_num' = MapCells(cam, retrieved, matched)
         /\ visual_submap' = matched
  /\ stage' = "retrieved"

(* computeJacobianAndUpdateEKF moves the camera, if there is something to  *)
(* move it by.                                                             *)
UpdateState ==
  /\ stage = "retrieved"
  /\ IF visual_submap = {} THEN UNCHANGED camera
     ELSE \E d \in Correction \cup {0} : camera' = [camera EXCEPT !.at = @ + d]
  /\ stage' = "corrected"
  /\ UNCHANGED <<feat_map, id, scan, predicted, grid_num, visual_submap, update_flag>>

-------------------------------------------------------------------------------
(* generateVisualMapPoints: in every cell without a map point, the scan's  *)
(* point where the image has the strongest corner, of those that lie on a  *)
(* plane; none where the image has no corner.                              *)
Feature(cam) == [id |-> id, cam |-> cam, score |-> 0]

(* The corrected pose sees the point in a cell it was not in before. *)
ChangesCell(p) == ~InFrame(predicted, p) \/ Cell(predicted, p) # Cell(camera, p)

NewPoint(p) ==
  [pos |-> p, obs |-> <<Feature(camera)>>, ref_patch |-> NoRef, has_ref_patch |-> FALSE,
   is_converged |-> FALSE, born |-> [behind |-> ~camera.facing, moved |-> ChangesCell(p)]]

Candidates(c) ==
  IF grid_num[c] = "map" THEN {}
  ELSE {p \in scan : InFrame(camera, p) /\ Cell(camera, p) = c}

(* At most one point for every such cell, in the order of the cells. *)
Appended ==
  {new \in UNION {[1 .. n -> scan] : n \in 0 .. length} :
     /\ \A k \in DOMAIN new :
          InFrame(camera, new[k]) /\ new[k] \in Candidates(Cell(camera, new[k]))
     /\ \A k, l \in DOMAIN new : k < l => Cell(camera, new[k]) < Cell(camera, new[l])}

Filled(new) == {Cell(camera, new[k]) : k \in DOMAIN new}

Generate ==
  /\ stage = "corrected"
  /\ IF Cardinality(scan) <= MinScan THEN UNCHANGED <<feat_map, grid_num>>
     ELSE \E new \in Appended :
            /\ feat_map' = feat_map \o [k \in DOMAIN new |-> NewPoint(new[k])]
            /\ grid_num' = [c \in Grid |-> IF c \in Filled(new) THEN "pointcloud" ELSE grid_num[c]]
  /\ stage' = "generated"
  /\ UNCHANGED <<id, camera, scan, predicted, visual_submap, update_flag>>

-------------------------------------------------------------------------------
(* visual_point.cpp. *)

AddFrameRef(pt, f) == [pt EXCEPT !.obs = <<f>> \o @]

(* The reference is not looked at. *)
DeleteObservation(pt, k) == [pt EXCEPT !.obs = RemoveAt(@, k)]

(* Of the k-th observation. *)
DeleteFeatureRef(pt, k) ==
  LET isRef == pt.ref_patch = pt.obs[k].id
  IN  [pt EXCEPT !.obs = RemoveAt(@, k),
                 !.ref_patch = IF isRef THEN NoRef ELSE @,
                 !.has_ref_patch = IF isRef THEN FALSE ELSE @]

FindMinScoreFeature(pt) ==
  Min({k \in DOMAIN pt.obs : \A l \in DOMAIN pt.obs : pt.obs[k].score <= pt.obs[l].score})

RefAt(pt) == {k \in DOMAIN pt.obs : pt.obs[k].id = pt.ref_patch}
DeleteNonRefPatchFeatures(pt) ==
  [pt EXCEPT !.obs = IF RefAt(pt) = {} THEN <<>> ELSE <<@[Min(RefAt(pt))]>>]

(* updateVisualMapPoints compares the pose with the observation at the back*)
(* of the list, the oldest.                                                *)
Moved(cam, from) ==
  \/ cam.facing # from.facing
  \/ cam.at - from.at > Far \/ from.at - cam.at > Far

WantsObservation(pt) == ~pt.is_converged /\ Moved(camera, Last(pt.obs).cam)

(* One more observation is kept. *)
PrunedLate(pt) ==
  IF Len(pt.obs) > MaxObs THEN DeleteFeatureRef(pt, FindMinScoreFeature(pt)) ELSE pt

Pruned(pt) ==
  IF Len(pt.obs) >= MaxObs THEN DeleteFeatureRef(pt, FindMinScoreFeature(pt)) ELSE pt

Updated(pt) ==
  IF pt.is_converged THEN DeleteNonRefPatchFeatures(pt)
  ELSE IF WantsObservation(pt) THEN AddFrameRef(Pruned(pt), Feature(camera))
  ELSE Pruned(pt)

UpdatePoints ==
  /\ stage = "generated"
  /\ feat_map' = [i \in DOMAIN feat_map |->
                    IF i \in visual_submap THEN Updated(feat_map[i]) ELSE feat_map[i]]
  /\ update_flag' = {i \in visual_submap : WantsObservation(feat_map[i])}
  /\ stage' = "updated"
  /\ UNCHANGED <<id, camera, scan, predicted, grid_num, visual_submap>>

(* updateReferencePatch. *)

Rescored(pt) == ~pt.is_converged /\ Len(pt.obs) > RefMin

(* The plane the point lies on may have kept its normal; the observations  *)
(* get new scores, and the first with the best is the reference.           *)
Scored(pt, scores) ==
  LET best == {k \in DOMAIN pt.obs : \A l \in DOMAIN pt.obs : scores[l] <= scores[k]}
  IN  RefSet([pt EXCEPT !.obs = [k \in DOMAIN @ |-> [@[k] EXCEPT !.score = scores[k]]]],
             pt.obs[Min(best)].id)

Rated(pt, scores, settles) ==
  IF ~Rescored(pt) THEN pt
  ELSE [Scored(pt, scores) EXCEPT !.is_converged = @ \/ (settles /\ Len(pt.obs) > ConvergeMin)]

UpdateReference ==
  /\ stage = "updated"
  /\ \E scores \in [update_flag -> [1 .. MaxObs -> Scores]], settled \in SUBSET update_flag :
       feat_map' = [i \in DOMAIN feat_map |->
          IF i \in update_flag THEN Rated(feat_map[i], scores[i], i \in settled) ELSE feat_map[i]]
  /\ stage' = "idle"
  /\ scan' = {}
  /\ predicted' = camera
  /\ grid_num' = [c \in Grid |-> "unknown"]
  /\ visual_submap' = {}
  /\ update_flag' = {}
  /\ UNCHANGED <<id, camera>>

Next ==
  \/ \E cam \in Cameras, points \in Scans : Retrieve(cam, points)
  \/ UpdateState
  \/ Generate
  \/ UpdatePoints
  \/ UpdateReference

Spec == Init /\ [][Next]_vars

-------------------------------------------------------------------------------
Poses == {[cam EXCEPT !.at = @ + d] : cam \in Cameras, d \in Correction \cup {0}}
Features == [id : 1 .. MaxFrames, cam : Poses, score : Scores \cup {0}]
VisualPoints ==
  [pos : Positions, obs : Seq(Features), ref_patch : 0 .. MaxFrames, has_ref_patch : BOOLEAN,
   is_converged : BOOLEAN, born : [behind : BOOLEAN, moved : BOOLEAN]]

(* A point's observations are in order, the newest first. *)
TypeOK ==
  /\ feat_map \in Seq(VisualPoints)
  /\ \A i \in DOMAIN feat_map : \A k, l \in DOMAIN feat_map[i].obs :
       k < l => feat_map[i].obs[k].id > feat_map[i].obs[l].id
  /\ stage \in {"idle", "retrieved", "corrected", "generated", "updated"}
  /\ id \in 0 .. MaxFrames
  /\ camera \in Poses /\ predicted \in Poses
  /\ scan \subseteq Positions
  /\ grid_num \in [Grid -> {"unknown", "map", "pointcloud"}]
  /\ visual_submap \subseteq DOMAIN feat_map
  /\ update_flag \subseteq visual_submap

(* The reference of a point is one of its observations, in spite of the    *)
(* pruning, and there is one whenever has_ref_patch_ says so and whenever  *)
(* the frame is matched with it: the Jacobians follow the pointer.         *)
RefIsObserved ==
  /\ \A i \in DOMAIN feat_map :
       LET pt == feat_map[i]
       IN  /\ pt.has_ref_patch <=> pt.ref_patch # NoRef
           /\ pt.has_ref_patch => \E k \in DOMAIN pt.obs : pt.obs[k].id = pt.ref_patch
  /\ stage = "retrieved" => \A i \in visual_submap : feat_map[i].has_ref_patch

(* Types hold, and no point loses its last observation (it would never be  *)
(* seen again), and none keeps more than MaxObs, each of which holds an    *)
(* image.                                                                  *)
ObservationsBounded ==
  /\ TypeOK
  /\ \A i \in DOMAIN feat_map : Len(feat_map[i].obs) \in 1 .. MaxObs

(* A point the scan hits again is found in the map, and not made a second  *)
(* time, even if its patch does not match the image and the pose has been  *)
(* corrected since the cells were marked.  That leaves out a point behind  *)
(* the camera, whose pixel is looked at without a thought, one the         *)
(* corrected pose puts into another cell than the predicted one did, and   *)
(* one with a negative coordinate, whose voxel is looked up one voxel away.*)
NoDoubles ==
  \A i, j \in DOMAIN feat_map :
    (i < j /\ feat_map[i].pos = feat_map[j].pos) =>
      \/ feat_map[j].born.behind
      \/ feat_map[j].born.moved
      \/ feat_map[j].pos < 0
===============================================================================

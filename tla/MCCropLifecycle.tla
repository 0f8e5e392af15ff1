-------------------------- MODULE MCCropLifecycle --------------------------
(***************************************************************************)
(* Small instances of CropLifecycle for TLC.                               *)
(***************************************************************************)
EXTENDS CropLifecycle, TLC

Symmetry == Permutations(Tiles) \cup Permutations(Workers) \cup Permutations(Requests)

(* Jobs of one batch, of a tick of one stage.                              *)
OneStageJobs ==
    [skip : {0}, take : {Cardinality(Tiles)}, time : {StageDuration}, utcTime : 0 .. MaxClock]
=============================================================================

--------------------------- MODULE MCCalibration ---------------------------
(* The catalogue of TestCourseCalibrationBuildsRelativeDifficultyAndWeights *)
(* with a tag of weight 0 and a difficulty above the scale, both of which   *)
(* the content service may store.                                           *)
EXTENDS Calibration, TLC

CONSTANTS tsk1, tsk2, tsk3

MCDifficulty == (tsk1 :> 4) @@ (tsk2 :> 2) @@ (tsk3 :> 12)
MCTopicsOf == (tsk1 :> {"top1", "top2"}) @@ (tsk2 :> {"top1"}) @@ (tsk3 :> {"top2"})
MCTagWeights ==
  (tsk1 :> [taga |-> 7, tagb |-> 3]) @@ (tsk2 :> [taga |-> 10, tagb |-> 0])
    @@ (tsk3 :> [tagb |-> 10])

Symmetry == Permutations(Students)
=============================================================================

SPECIFICATION CalibrationSpec
CONSTANTS
  tsk1 = tsk1
  tsk2 = tsk2
  tsk3 = tsk3
  Students = {u1, u2}
  Tasks = {tsk1, tsk2, tsk3}
  Difficulty <- MCDifficulty
  TopicsOf <- MCTopicsOf
  TagWeights <- MCTagWeights
  Unit = 10
  One = 2160
  MaxRecorded = 6
SYMMETRY Symmetry
CHECK_DEADLOCK FALSE
INVARIANTS SeparatingTagsWeighMore DifficultyIsRelative CalibrationInv
PROPERTIES AnswersMoveDifficulty

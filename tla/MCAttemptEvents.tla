-------------------------- MODULE MCAttemptEvents --------------------------
(* One answer is enough to fill the log: the consumer never looks at what a *)
(* message says, and every acknowledgement that is lost adds another.       *)
EXTENDS AttemptEvents

AllFaults == FaultKinds
=============================================================================

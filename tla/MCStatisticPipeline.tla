------------------------ MODULE MCStatisticPipeline ------------------------
(* A user of a course; one answer, whose message may come twice. *)
EXTENDS StatisticPipeline, TLC

AllFaults == FaultKinds
SomeLoopFaults == {"insert", "fetch", "commit", "crash", "rejoin"}

OneUser == [a \in Answers |-> CHOOSE u \in Users : TRUE]
OneCourse == [a \in Answers |-> CHOOSE c \in Courses : TRUE]
=============================================================================

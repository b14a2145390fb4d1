SPECIFICATION FairSpec
CONSTANTS
  Answers = {a1}
  Partitions = {p1, p2}
  Faults <- AllFaults
  NoMessage = NoMessage
  MaxLog = 2
  MaxSessions = 2
CHECK_DEADLOCK FALSE
INVARIANTS CommittedIsHandled PipelineInv
PROPERTIES LedgerSpec HandledEventually

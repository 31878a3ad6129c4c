SPECIFICATION FairSpec
CONSTANTS
  Messages = {m1, x1}
  Strays = {x1}
  MaxSplits = 1
  Null = Null
CHECK_DEADLOCK FALSE
INVARIANTS
  TypeOK
  PatientIsSafe
  TakenOnce
  NothingMissed
  MadeUpOnce
PROPERTIES
  CheckedAtLast
  EveryReplyProcessed

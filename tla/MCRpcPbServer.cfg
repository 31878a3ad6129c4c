SPECIFICATION FairSpec
CONSTANTS
  Messages = {r1, r2}
  Known = {r1, r2}
  Null = Null
CHECK_DEADLOCK FALSE
INVARIANTS
  TypeOK
  NothingMissed
  OwnResponse
PROPERTIES
  ImplementsService
  EveryRequestHandled

SPECIFICATION FairSpec
CONSTANTS
  Conns = {"c1", "s1"}
  Announces <- OneServer
  Messages <- RequestsAndReply
  Meta = Meta
  Null = Null
CHECK_DEADLOCK FALSE
INVARIANTS
  TypeOK
  NothingVanishes
  NeverRejected
PROPERTIES
  ImplementsRouter
  MissesOnlyIfDisordered
  EveryMessageLeaves

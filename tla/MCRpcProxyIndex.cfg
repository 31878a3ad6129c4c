SPECIFICATION Spec
CONSTANTS
  Conns = {"c1", "s1", "s2"}
  Announces <- TwoServers
  Messages <- OneRequest
  Meta = Meta
  Null = Null
CHECK_DEADLOCK FALSE
PROPERTIES
  DroppedOnlyIfGone

SPECIFICATION Spec
CONSTANTS
  Users = {alice, bob}
  DaemonFaults = FALSE
  Host = host
  Relayed = relayed
  None = none
  Slots = {s1}
  Ids = {"c1", "c2"}
  Names = {"web", "json"}
  Execs = {"e1"}
  Versions = {"v1"}
  ImageSegs = {"web"}
  Idents <- const_Idents
  Streamish <- const_Streamish
  IsoNet <- const_IsoNet
  Methods <- const_Methods
  Paths <- const_MorePaths
  Queries <- const_Queries
PROPERTY RefusesOnlyForeign

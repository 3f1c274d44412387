SPECIFICATION HistorySpec
CONSTANTS
  Users = {alice, bob}
  DaemonFaults = TRUE
  Host = host
  Relayed = relayed
  None = none
  Slots = {s1, s2}
  Ids = {"c1", "c2"}
  Names = {"web", "json"}
  Execs = {"e1"}
  Versions = {"v1"}
  ImageSegs = {"web"}
  Idents <- const_Idents
  Streamish <- const_Streamish
  IsoNet <- const_IsoNet
  Methods <- const_Methods
  Paths <- const_Paths
  Queries <- const_Queries
INVARIANTS
  ActsOnlyAfterOwnCheck
  StableRefsActOnOwn
  RelayOnlyAfterOwnCheck
  ListsOnlyOwn
PROPERTY ActsLikeAnOwner
SYMMETRY Symmetry

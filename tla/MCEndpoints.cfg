SPECIFICATION PathSpec
CONSTANTS
  Users = {alice}
  Versions = {"v1"}
  ImageSegs = {"waiter"}
  Methods = {"GET", "POST", "DELETE"}
  MaxLen = 5
  Idents <- const_Idents
  Streamish <- const_Streamish
  IsoNet <- const_IsoNet
  Segments <- const_Segments
  Queries <- const_Queries
INVARIANTS
  RoutedToGuard
  CollectionsKeepTheirMethod
CHECK_DEADLOCK FALSE

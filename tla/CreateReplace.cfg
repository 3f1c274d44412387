CONSTANTS
  Users <- MCUsers
  Segments <- MCSegments
  Dirs <- MCDirs
  SystemLinks <- MCSystemLinks
  UserLinks <- MCUserLinks
  Targets <- MCTargets
  SockSegs = {"docker.sock"}
  SockOf <- MCSockOf
  IsoNet <- MCIsoNet
  Bodies <- MCBodies
  MaxHops = 3
SPECIFICATION Spec
\* A request is checked and mounted once.
CHECK_DEADLOCK FALSE
INVARIANT MountsOnlyWhatWasValidated

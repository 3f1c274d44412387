--------------------------- MODULE EndpointsProofs ---------------------------
(* Routing sends every allowed request to its guard, for all segments, users *)
(* and path lengths.                                                         *)
EXTENDS EndpointsCheck, SequenceTheorems, TLAPS

-----------------------------------------------------------------------------
(* Facts about routing, for every choice of users, segments and requests     *)


\* An allowed path under /containers is the list, the create endpoint, an
\* action or a delete; an allowed path under /exec is an exec action.
LEMMA AllowedShapes ==
  ASSUME NEW m, NEW p, NEW q, NEW u, IsEndpointAllowed(m, p, q, u)
  PROVE  /\ Under(p, 3, "containers") =>
              \/ reContainersList(p) \/ reContainersCreate(p)
              \/ reContainerAction(p) \/ reContainerDelete(p)
         /\ Under(p, 3, "exec") => reExecAction(p)
<1>1. \/ p = <<"_ping">> \/ p = <<"info">> \/ reAuth(p) \/ reSystemVersioned(p)
      \/ reContainersList(p) \/ reContainersCreate(p) \/ reContainerAction(p)
      \/ reContainerDelete(p) \/ reExecAction(p) \/ reImagesList(p)
      \/ OnImage(p, "json") \/ reImagesCreate(p) \/ OnImage(p, "push")
      \/ reNetworksCreate(p) \/ reNetworksList(p) \/ reNetworkConnect(p)
      \/ userIsoNetwork(p, u) \/ reNetworkInspect(p) \/ reBuild(p)
      \/ reImagesLoad(p) \/ reVolumes(p) \/ reEvents(p)
  BY DEF IsEndpointAllowed
<1>2. QED
  BY <1>1 DEF Under, Is, reAuth, reSystemVersioned, reContainersList,
    reContainersCreate, reContainerAction, reContainerDelete, reExecAction,
    reImagesList, OnImage, reImagesCreate, reNetworksCreate, reNetworksList,
    reNetworkConnect, userIsoNetwork, reNetworkInspect, reBuild, reImagesLoad,
    reVolumes, reEvents

\* Where ServeHTTP sends an allowed request: exec and container requests to
\* their ownership checks, creates to validation, lists to the filter.
LEMMA DispatchOfAllowed ==
  ASSUME NEW m, NEW p \in Seq(STRING), NEW q, NEW u,
         IsEndpointAllowed(m, p, q, u)
  PROVE  /\ DaemonOnExec(p) => Dispatch(m, p) = "inspectExec"
         /\ DaemonOnContainer(m, p) =>
              p[3] \in ReservedIds \/ Dispatch(m, p) = "inspect"
         /\ isContainerCreatePath(m, p) => Dispatch(m, p) = "create"
         /\ reContainersList(p) => Dispatch(m, p) = "forward"
<1>0. /\ Under(p, 3, "containers") =>
           \/ reContainersList(p) \/ reContainersCreate(p)
           \/ reContainerAction(p) \/ reContainerDelete(p)
      /\ Under(p, 3, "exec") => reExecAction(p)
  BY AllowedShapes
<1>a. reBuild(p) \/ reImagesLoad(p) \/ reNetworksCreate(p) =>
        p[2] \in {"build", "images", "networks"}
  BY DEF reBuild, reImagesLoad, reNetworksCreate, Is, Under
<1>1. DaemonOnExec(p) => Dispatch(m, p) = "inspectExec"
  <2>1. DaemonOnExec(p) => reExecAction(p) /\ p[2] = "exec"
    BY <1>0 DEF DaemonOnExec, Under
  <2>2. p[2] = "exec" => ~reContainersCreate(p)
    BY DEF reContainersCreate, Is, Under
  <2>3. QED
    BY <1>a, <2>1, <2>2 DEF Dispatch, isLargeBodyPath, isContainerCreatePath,
      isNetworkCreatePath
<1>2. DaemonOnContainer(m, p) =>
        p[3] \in ReservedIds \/ Dispatch(m, p) = "inspect"
  <2> SUFFICES ASSUME DaemonOnContainer(m, p), p[3] \notin ReservedIds
               PROVE  Dispatch(m, p) = "inspect"
    OBVIOUS
  <2>1. p[2] = "containers" /\ Under(p, 3, "containers")
    BY DEF DaemonOnContainer, Under
  <2>2. ~reContainersList(p) /\ ~reContainersCreate(p)
    BY DEF ReservedIds, reContainersList, reContainersCreate, Is
  <2>3. ~reExecAction(p)
    BY <2>1 DEF reExecAction, Under
  <2>4. ChecksContainer(p)
    BY <1>0, <2>1, <2>2, <2>3 DEF ChecksContainer
  <2>5. QED
    BY <1>a, <2>1, <2>2, <2>3, <2>4 DEF Dispatch, isLargeBodyPath,
      isContainerCreatePath, isNetworkCreatePath
<1>3. isContainerCreatePath(m, p) => Dispatch(m, p) = "create"
  <2>1. reContainersCreate(p) => p[2] = "containers"
    BY DEF reContainersCreate, Is, Under
  <2>2. QED
    BY <1>a, <2>1 DEF Dispatch, isLargeBodyPath, isContainerCreatePath
<1>4. reContainersList(p) => Dispatch(m, p) = "forward"
  <2> SUFFICES ASSUME reContainersList(p) PROVE Dispatch(m, p) = "forward"
    OBVIOUS
  <2>1. Len(p) = 3 /\ p[1] \in Versions /\ p[2] = "containers" /\ p[3] = "json"
    BY DEF reContainersList, Is, Under
  <2>2. ~reContainersCreate(p) /\ ~reExecAction(p)
    BY <2>1 DEF reContainersCreate, Is, reExecAction, Under
  <2>3. ~ChecksContainer(p)
    BY <2>1 DEF ChecksContainer, ReservedIds
  <2>4. ~isStreamingPath(p)
    BY <2>1, SegmentAssumption DEF isStreamingPath
  <2>5. QED
    BY <1>a, <2>1, <2>2, <2>3, <2>4 DEF Dispatch, isLargeBodyPath,
      isContainerCreatePath, isNetworkCreatePath, AfterCheck
<1>5. QED
  BY <1>1, <1>2, <1>3, <1>4

\* What an allowed request that skips both ownership checks may still be.
LEMMA UncheckedDispatch ==
  ASSUME NEW m, NEW p \in Seq(STRING), NEW q, NEW u,
         IsEndpointAllowed(m, p, q, u),
         Dispatch(m, p) \in {"stream", "forward"}
  PROVE  /\ ~DaemonOnExec(p)
         /\ DaemonOnContainer(m, p) => p[3] \in ReservedIds
BY DispatchOfAllowed

\* The stage a dispatched request starts in tells which check it faces.
LEMMA DispatchStages ==
  ASSUME NEW m, NEW p
  PROVE  /\ Dispatch(m, p) \in {"create", "netCreate", "inspectExec", "inspect",
                                "stream", "forward"}
         /\ Dispatch(m, p) = "inspectExec" => reExecAction(p)
         /\ Dispatch(m, p) = "inspect" => ChecksContainer(p)
BY DEF Dispatch, AfterCheck

-----------------------------------------------------------------------------
(* Every path, one segment at a time                                         *)


\* The request under construction keeps its type.
LEMMA PathTyped == PathSpec => []PathTypeOK
<1>1. PathInit => PathTypeOK
  BY DEF PathInit, PathTypeOK
<1>2. PathTypeOK /\ [PathNext]_pathVars => PathTypeOK'
  <2> SUFFICES ASSUME PathTypeOK, [PathNext]_pathVars PROVE PathTypeOK'
    OBVIOUS
  <2>1. ASSUME NEW seg \in Segments, Extend(seg)
        PROVE  PathTypeOK'
    <3>1. seg \in STRING /\ path' = Append(path, seg)
      BY <2>1, CheckAssumption DEF Extend
    <3>2. path' \in Seq(STRING)
      BY <3>1, AppendProperties, Zenon DEF PathTypeOK
    <3>3. QED
      BY <2>1, <3>2 DEF PathTypeOK, Extend
  <2>2. CASE UNCHANGED pathVars
    BY <2>2 DEF PathTypeOK, pathVars
  <2>3. QED
    BY <2>1, <2>2 DEF PathNext
<1>3. QED
  BY <1>1, <1>2, PTL DEF PathSpec

\* Every allowed request is dispatched to the ownership check, validation or
\* filter that guards it (IsEndpointAllowed, ServeHTTP).
THEOREM RoutedToGuardHolds == PathSpec => []RoutedToGuard
<1>1. PathTypeOK => RoutedToGuard
  <2> SUFFICES ASSUME PathTypeOK, Allowed
               PROVE  RoutedToGuard
    BY DEF RoutedToGuard
  <2>1. path \in Seq(STRING)
    BY DEF PathTypeOK
  <2>2. QED
    BY <2>1, DispatchOfAllowed DEF RoutedToGuard, Allowed
<1>2. QED
  BY <1>1, PathTyped, PTL

\* No rule after the first match is consulted, so collection paths accept only
\* their own method (IsEndpointAllowed).
THEOREM CollectionsKeepTheirMethodHolds == PathSpec => []CollectionsKeepTheirMethod
<1>1. CollectionsKeepTheirMethod
  BY DEF CollectionsKeepTheirMethod, Allowed, IsEndpointAllowed, Is, Under,
    reContainersList, reContainersCreate, reNetworksCreate, reNetworksList, reAuth,
    reSystemVersioned, reContainerAction, reContainerDelete, reExecAction,
    reImagesList, OnImage, reImagesCreate
<1>2. QED
  BY <1>1, PTL
=============================================================================

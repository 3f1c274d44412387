--------------------------- MODULE EndpointsCheck ---------------------------
(* Every request over a given set of segments, one segment at a time, and    *)
(* what IsEndpointAllowed and ServeHTTP's dispatch decide about it.          *)
EXTENDS Endpoints

CONSTANTS Segments, MaxLen

ASSUME CheckAssumption == MaxLen \in Nat /\ Segments \subseteq STRING

VARIABLES user, method, query, path

pathVars == <<user, method, query, path>>

PathTypeOK ==
  /\ user \in Users /\ method \in Methods /\ query \in Queries
  /\ path \in Seq(STRING)

PathInit ==
  /\ user \in Users /\ method \in Methods /\ query \in Queries
  /\ path = <<>>

Extend(seg) ==
  /\ Len(path) < MaxLen
  /\ path' = Append(path, seg)
  /\ UNCHANGED <<user, method, query>>

PathNext == \E seg \in Segments : Extend(seg)

PathSpec == PathInit /\ [][PathNext]_pathVars

Allowed == IsEndpointAllowed(method, path, query, user)

\* An allowed request that the daemon would apply to one container or exec
\* instance is dispatched to the matching ownership check, one that creates a
\* container to CheckCreate, and a container list to the reverse proxy whose
\* modifyResponse filters it, never to the raw stream.  The segments "json" and
\* "create" are exempt from the container check (ExtractContainerTarget).
RoutedToGuard ==
  Allowed =>
    /\ DaemonOnExec(path) => Dispatch(method, path) = "inspectExec"
    /\ DaemonOnContainer(method, path) =>
         path[3] \in ReservedIds \/ Dispatch(method, path) = "inspect"
    /\ isContainerCreatePath(method, path) => Dispatch(method, path) = "create"
    /\ reContainersList(path) => Dispatch(method, path) = "forward"

\* The collection paths also match the patterns of single containers and
\* networks; the order of the rules keeps DELETE from reaching them and keeps
\* POST to the create endpoints and GET to the lists.
CollectionsKeepTheirMethod ==
  Allowed /\ Len(path) = 3 =>
    /\ reContainersList(path) => method = "GET"
    /\ reContainersCreate(path) \/ reNetworksCreate(path) => method = "POST"
    /\ Is(path, "networks", "json") => method = "GET"

=============================================================================

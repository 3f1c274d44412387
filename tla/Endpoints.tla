----------------------------- MODULE Endpoints -----------------------------
(***************************************************************************)
(* Request routing of the per-user docker-proxy                            *)
(* (internal/proxy/allowlist.go and the route predicates of proxy.go).     *)
(*                                                                         *)
(* A request path is the sequence of its "/"-separated segments, without   *)
(* percent escapes, so the escaped path the allowlist sees and the decoded *)
(* path the handler sees are one.  Character classes are sets of segments. *)
(***************************************************************************)
EXTENDS Naturals, Sequences

CONSTANTS
  Users,      \* isolated users, one proxy each
  Methods,    \* HTTP methods clients use
  Queries,    \* query strings clients use
  Versions,   \* segments of the form v[\d.]+
  Idents,     \* segments of the form [a-zA-Z0-9_.-]+
  ImageSegs,  \* segments of an image reference
  Streamish,  \* segments that begin with a streaming word (see isStreamingPath)
  IsoNet      \* IsoNet[u] is the segment "iso-<u>"

StreamWords == {"attach", "exec", "wait", "logs", "events"}

ASSUME SegmentAssumption ==
  /\ StreamWords \subseteq Streamish
  /\ {"containers", "json", "create"} \cap Streamish = {}
  /\ Versions \cap Streamish = {}
  /\ {"json", "create", "start", "exec"} \subseteq Idents

Verbs == {"start", "stop", "restart", "kill", "pause", "unpause", "wait",
          "attach", "logs", "inspect", "stats", "top", "changes", "export",
          "exec", "json"}

-----------------------------------------------------------------------------
(* The regular expressions of allowlist.go                                  *)

Under(p, n, word) == Len(p) >= n /\ p[1] \in Versions /\ p[2] = word

Is(p, a, b) == Len(p) = 3 /\ Under(p, 3, a) /\ p[3] = b

reAuth(p) == p = <<"auth">> \/ (Len(p) = 2 /\ Under(p, 2, "auth"))

reSystemVersioned(p) ==
  \/ Len(p) = 2 /\ p[1] \in Versions /\ p[2] \in {"_ping", "version", "info"}
  \/ Is(p, "system", "df")
  \/ Is(p, "system", "events")

reContainersList(p)   == Is(p, "containers", "json")
reContainersCreate(p) == Is(p, "containers", "create")

reContainerAction(p) ==
  Under(p, 4, "containers") /\ p[3] \in Idents /\ p[4] \in Verbs

reContainerDelete(p) ==
  Len(p) = 3 /\ Under(p, 3, "containers") /\ p[3] \in Idents

reExecAction(p) ==
  /\ Len(p) = 4 /\ Under(p, 4, "exec")
  /\ p[3] \in Idents /\ p[4] \in {"start", "resize", "json"}

reImagesList(p)   == Is(p, "images", "json")
reImagesCreate(p) == Is(p, "images", "create")
reImagesLoad(p)   == Is(p, "images", "load")

OnImage(p, verb) ==
  /\ Under(p, 4, "images") /\ p[Len(p)] = verb
  /\ \A i \in 3 .. Len(p) - 1 : p[i] \in ImageSegs

reNetworksCreate(p) == Is(p, "networks", "create")
\* Mutant: the alternative /networks/json is forgotten.
ListsWithoutJson(p) == Len(p) = 2 /\ Under(p, 2, "networks")

reNetworksList(p) ==
  (Len(p) = 2 /\ Under(p, 2, "networks")) \/ Is(p, "networks", "json")
reNetworkInspect(p) ==
  Len(p) = 3 /\ Under(p, 3, "networks") /\ p[3] \in Idents
reNetworkConnect(p) ==
  /\ Len(p) = 4 /\ Under(p, 4, "networks")
  /\ p[3] \in Idents /\ p[4] \in {"connect", "disconnect"}
userIsoNetwork(p, u) == Under(p, 3, "networks") /\ p[3] = IsoNet[u]

reBuild(p)   == Len(p) = 2 /\ Under(p, 2, "build")
reEvents(p)  == Len(p) = 2 /\ Under(p, 2, "events")
reVolumes(p) == Under(p, 2, "volumes")

-----------------------------------------------------------------------------
(* A query string is [parses, keys, fromImage]: whether url.ParseQuery      *)
(* accepts it, its keys, and whether fromImage is non-empty.                *)

imagesCreateQueryAllowed(q) ==
  /\ q.parses
  /\ "fromSrc" \notin q.keys
  /\ q.keys \subseteq {"fromImage", "tag", "platform"}
  /\ q.fromImage

\* The first pattern that matches decides; no match means blocked.
IsEndpointAllowed(m, p, q, u) ==
  IF p = <<"_ping">>            THEN m \in {"HEAD", "GET"}
  ELSE IF p = <<"info">>        THEN m = "GET"
  ELSE IF reAuth(p)             THEN m = "POST"
  ELSE IF reSystemVersioned(p)  THEN m = "GET"
  ELSE IF reContainersList(p)   THEN m = "GET"
  ELSE IF reContainersCreate(p) THEN m = "POST"
  ELSE IF reContainerAction(p)  THEN m \in {"GET", "POST"}
  ELSE IF reContainerDelete(p)  THEN m = "DELETE"
  ELSE IF reExecAction(p)       THEN m \in {"GET", "POST"}
  ELSE IF reImagesList(p)       THEN m = "GET"
  ELSE IF OnImage(p, "json")    THEN m = "GET"
  ELSE IF reImagesCreate(p)     THEN m = "POST" /\ imagesCreateQueryAllowed(q)
  ELSE IF OnImage(p, "push")    THEN m = "POST"
  ELSE IF reNetworksCreate(p)   THEN m = "POST"
  ELSE IF reNetworksList(p)     THEN m = "GET"
  ELSE IF reNetworkConnect(p)   THEN m = "POST"
  ELSE IF userIsoNetwork(p, u)  THEN TRUE
  ELSE IF reNetworkInspect(p)   THEN m \in {"GET", "DELETE"}
  ELSE IF reBuild(p)            THEN m = "POST"
  ELSE IF reImagesLoad(p)       THEN m = "POST"
  ELSE IF reVolumes(p)          THEN TRUE
  ELSE reEvents(p) /\ m = "GET"

-----------------------------------------------------------------------------
(* Route predicates of proxy.go and the dispatch order of ServeHTTP         *)

isLargeBodyPath(m, p)       == m = "POST" /\ (reBuild(p) \/ reImagesLoad(p))
isContainerCreatePath(m, p) == m = "POST" /\ reContainersCreate(p)
isNetworkCreatePath(m, p)   == m = "POST" /\ reNetworksCreate(p)

\* strings.Contains(path, "/attach") and so on: some segment begins so.
isStreamingPath(p) == \E i \in DOMAIN p : p[i] \in Streamish

\* Container segments ExtractContainerTarget does not treat as a container.
ReservedIds == {"json", "create"}

\* Mutant: the ownership check forgets container removal.
ChecksActionsOnly(p) ==
  ~reExecAction(p) /\ reContainerAction(p) /\ p[3] \notin ReservedIds

\* maybeCheckOwnership reaches CheckContainerOwned(path[3]).
ChecksContainer(p) ==
  /\ ~reExecAction(p)
  /\ reContainerAction(p) \/ reContainerDelete(p)
  /\ p[3] \notin ReservedIds

\* Stage of a request once maybeCheckOwnership has returned nil.
AfterCheck(p) == IF isStreamingPath(p) THEN "stream" ELSE "forward"

\* Mutant: streaming paths are hijacked before the ownership check.
StreamsFirst(m, p) ==
  IF isContainerCreatePath(m, p) THEN "create"
  ELSE IF isNetworkCreatePath(m, p) THEN "netCreate"
  ELSE IF isStreamingPath(p) THEN "stream"
  ELSE IF reExecAction(p) THEN "inspectExec"
  ELSE IF ChecksContainer(p) THEN "inspect"
  ELSE "forward"

\* Stage at which ServeHTTP takes up an allowed request.
Dispatch(m, p) ==
  IF isLargeBodyPath(m, p) THEN "forward"
  ELSE IF isContainerCreatePath(m, p) THEN "create"
  ELSE IF isNetworkCreatePath(m, p) THEN "netCreate"
  ELSE IF reExecAction(p) THEN "inspectExec"
  ELSE IF ChecksContainer(p) THEN "inspect"
  ELSE AfterCheck(p)

-----------------------------------------------------------------------------
(* How the Docker daemon reads a path (external).                           *)

\* The daemon applies the request to the container that path[3] names.
DaemonOnContainer(m, p) ==
  /\ Under(p, 3, "containers")
  /\ \/ Len(p) >= 4
     \/ m = "DELETE"

\* The daemon applies the request to the exec instance that path[3] names.
DaemonOnExec(p) == Under(p, 4, "exec")

=============================================================================

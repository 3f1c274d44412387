---------------------------- MODULE DockerProxy ----------------------------
(***************************************************************************)
(* Every user's docker-proxy handler (internal/proxy/proxy.go,             *)
(* ownership.go) serving concurrent requests against the one Docker daemon *)
(* they share.                                                             *)
(*                                                                         *)
(* A slot is one goroutine running ServeHTTP.  Each of its exchanges with  *)
(* the daemon (the exec inspect, the container inspect, the forwarded      *)
(* request) is a step of its own, so the daemon's containers may change    *)
(* between the ownership check and the request it was made for.  Once a    *)
(* request has been handed to the relay, what follows on its connection    *)
(* goes to the daemon unparsed; the daemon takes it for whatever it is,    *)
(* further requests included, and no handler sees them.                    *)
(***************************************************************************)
EXTENDS Endpoints

CONSTANTS
  Slots,    \* concurrently served requests
  Paths,    \* request paths clients use
  Ids,      \* container IDs the daemon may assign, each at most once
  Names,    \* container names
  Execs,    \* exec instance IDs, each assigned at most once
  DaemonFaults, \* TRUE if the daemon may be unreachable, fail or garble answers
  Host,     \* the operator, who talks to the daemon without a proxy
  Relayed,  \* a client whose bytes reach the daemon over a relay
  None

ASSUME DaemonAssumption ==
  /\ Ids \cap Names = {}
  /\ None \notin Ids \cup Users \cup {Host, Relayed}
  /\ Users \cap {Host, Relayed} = {}
  /\ Paths \subseteq Seq(STRING)
  /\ DaemonFaults \in BOOLEAN

VARIABLES
  req,      \* req[s]: the request slot s is serving
  status,   \* status[c]: "unborn", "live" or "gone"
  creator,  \* creator[c]: who asked the daemon for c (history)
  label,    \* label[c]: owner label of c, as the daemon stores it
  name,     \* name[c]: the name the daemon has bound to c
  execOf    \* execOf[e]: container of exec instance e

daemon == <<status, creator, label, name, execOf>>
vars == <<req, status, creator, label, name, execOf>>

Stages == {"create", "netCreate", "inspectExec", "inspect", "stream", "forward"}

\* What the client gets from the handler: the proxy's own refusal (400, 403,
\* 413), its own 404, or anything else (the daemon's response, 500, 502, a
\* closed connection).
Answers == {"none", "refused", "missing", "other"}

Request ==
  [pc     : Stages \cup {"relay", "done"},
   user   : Users \cup {None},
   method : Methods \cup {None},
   path   : Paths \cup {<<>>},
   cid    : Ids \cup {None},   \* container ID an exec inspect returned
   seen   : Ids \cup {None},   \* container the ownership check inspected
   answer : Answers,
   listed : SUBSET Ids]        \* containers in the list the client received

TypeOK ==
  /\ req \in [Slots -> Request]
  /\ status \in [Ids -> {"unborn", "live", "gone"}]
  /\ creator \in [Ids -> Users \cup {Host, Relayed, None}]
  /\ label \in [Ids -> Users \cup {None}]
  /\ name \in [Ids -> Names \cup {None}]
  /\ execOf \in [Execs -> Ids \cup {None}]

\* A request in stage pc, and what is left once ServeHTTP has returned.
Serving(pc, u, m, p, cid, seen) ==
  [pc |-> pc, user |-> u, method |-> m, path |-> p,
   cid |-> cid, seen |-> seen, answer |-> "none", listed |-> {}]

Served(u, answer, cs) ==
  [pc |-> "done", user |-> u, method |-> None, path |-> <<>>,
   cid |-> None, seen |-> None, answer |-> answer, listed |-> cs]

Init ==
  /\ req = [s \in Slots |-> Served(None, "none", {})]
  /\ status = [c \in Ids |-> "unborn"]
  /\ creator = [c \in Ids |-> None]
  /\ label = [c \in Ids |-> None]
  /\ name = [c \in Ids |-> None]
  /\ execOf = [e \in Execs |-> None]

-----------------------------------------------------------------------------
(* The daemon (external)                                                    *)

Live == {c \in Ids : status[c] = "live"}

\* The container a reference denotes now: a full ID, else a name.
Denotes(ref, c) == c \in Live /\ (c = ref \/ (ref \notin Ids /\ name[c] = ref))
Missing(ref) == ~\E c \in Ids : Denotes(ref, c)

FreeName(n) == \A c \in Live : name[c] # n

NewContainer(c, n, who, lbl) ==
  /\ status[c] = "unborn" /\ FreeName(n)
  /\ status' = [status EXCEPT ![c] = "live"]
  /\ creator' = [creator EXCEPT ![c] = who]
  /\ label' = [label EXCEPT ![c] = lbl]
  /\ name' = [name EXCEPT ![c] = n]
  /\ UNCHANGED execOf

RemoveContainer(c) ==
  /\ c \in Live
  /\ status' = [status EXCEPT ![c] = "gone"]
  /\ name' = [name EXCEPT ![c] = None]
  /\ UNCHANGED <<creator, label, execOf>>

RenameContainer(c, n) ==
  /\ c \in Live /\ FreeName(n)
  /\ name' = [name EXCEPT ![c] = n]
  /\ UNCHANGED <<status, creator, label, execOf>>

NewExec(c) ==
  /\ c \in Live
  /\ \E e \in Execs :
       execOf[e] = None /\ execOf' = [execOf EXCEPT ![e] = c]
  /\ UNCHANGED <<status, creator, label, name>>

\* The operator works on the daemon's own socket.
HostStep ==
  /\ \E c \in Ids :
       \/ RemoveContainer(c)
       \/ \E n \in Names : NewContainer(c, n, Host, None) \/ RenameContainer(c, n)
  /\ UNCHANGED req

CreatesExec(r) ==
  r.method = "POST" /\ r.path[2] = "containers" /\ r.path[4] = "exec"

\* The daemon applies slot s's request to container c.
Apply(s, c) ==
  \/ req[s].method = "DELETE" /\ RemoveContainer(c)
  \/ CreatesExec(req[s]) /\ NewExec(c)
  \/ /\ req[s].method # "DELETE" /\ ~CreatesExec(req[s])
     /\ UNCHANGED daemon

OnContainer(r) == DaemonOnContainer(r.method, r.path)

\* The daemon resolves the request's target at this moment.
Target(s, c) ==
  LET r == req[s] IN
  \/ OnContainer(r) /\ Denotes(r.path[3], c)
  \/ /\ DaemonOnExec(r.path) /\ c \in Live
     /\ r.path[3] \in Execs /\ execOf[r.path[3]] = c

-----------------------------------------------------------------------------
(* The handler                                                              *)

\* Slot s moves on; ServeHTTP in slot s returns.
Stage(s, pc, cid, seen) ==
  req' = [req EXCEPT ![s] = Serving(pc, req[s].user, req[s].method, req[s].path,
                                    cid, seen)]
Reply(s, u, answer, cs) == req' = [req EXCEPT ![s] = Served(u, answer, cs)]
Answer(s, answer) == Reply(s, req[s].user, answer, {})

\* Requests the endpoint allowlist lets through.
Admitted == {a \in Users \X Methods \X Paths \X Queries :
               IsEndpointAllowed(a[2], a[3], a[4], a[1])}

\* ServeHTTP up to the first exchange with the daemon.
Arrive(s, u, m, p, q) ==
  /\ req[s].pc = "done"
  /\ <<u, m, p, q>> \in Admitted
  /\ req' = [req EXCEPT ![s] = Serving(Dispatch(m, p), u, m, p, None, None)]
  /\ UNCHANGED daemon

\* A Transfer-Encoding other than chunked, or an endpoint that is not allowed.
RefuseRequest(s, u) ==
  /\ req[s].pc = "done" /\ Reply(s, u, "refused", {})
  /\ UNCHANGED daemon

\* CheckExecOwned up to its subrequest's answer.
CheckExecOwned(s) ==
  /\ req[s].pc = "inspectExec"
  /\ LET e == req[s].path[3] IN
     \/ DaemonFaults /\ Answer(s, "refused")  \* also: no ContainerID in the answer
     \/ /\ ~\E c \in Live : e \in Execs /\ execOf[e] = c
        /\ Answer(s, "missing")
     \/ \E c \in Live :
          /\ e \in Execs /\ execOf[e] = c
          /\ Stage(s, "inspect", c, None)
  /\ UNCHANGED daemon

\* The reference CheckContainerOwned inspects.
InspectRef(r) == IF r.cid # None THEN r.cid ELSE r.path[3]

\* Mutants: an unlabelled container counts as owned; the label is looked for
\* in the wrong place of the inspect answer.
OwnedOrUnlabelled(c, u) == label[c] \in {u, None}
LabelNotFound(c, u) == FALSE

\* extractOwnerLabel compared with the proxy's user.
OwnedBy(c, u) == label[c] = u

CheckContainerOwned(s) ==
  /\ req[s].pc = "inspect"
  /\ LET ref == InspectRef(req[s]) IN
     \/ DaemonFaults /\ Answer(s, "refused")
     \/ Missing(ref) /\ Answer(s, "missing")
     \/ \E c \in Ids :
          /\ Denotes(ref, c) /\ ~OwnedBy(c, req[s].user)
          /\ Answer(s, "refused")
     \/ \E c \in Ids :
          /\ Denotes(ref, c) /\ OwnedBy(c, req[s].user)
          /\ Stage(s, AfterCheck(req[s].path), req[s].cid, c)
  /\ UNCHANGED daemon

\* Mutant: an owner label the client sent is kept.
KeepOwner(asked, u) == IF asked = None THEN u ELSE asked

\* CheckCreate's label step: whatever the client asked for becomes the user.
InjectOwner(asked, u) == u

\* readBoundedBody and CheckCreate refuse the body (see CreatePolicy).
RefuseCreate(s) ==
  /\ req[s].pc \in {"create", "netCreate"}
  /\ Answer(s, "refused")
  /\ UNCHANGED daemon

\* The rewritten body is forwarded and the daemon creates the container.
ForwardCreate(s, c, n) ==
  /\ req[s].pc = "create"
  /\ \E asked \in Users \cup {None} :
       NewContainer(c, n, req[s].user, InjectOwner(asked, req[s].user))
  /\ Answer(s, "other")

\* The body is forwarded and no container comes of it: a network is created
\* (networks are not part of this model), the daemon refuses (name in use), or
\* it cannot be reached.
ForwardWithoutContainer(s) ==
  /\ req[s].pc \in {"create", "netCreate"} /\ Answer(s, "other")
  /\ UNCHANGED daemon

\* modifyResponse applies to this request's response.
IsList(r) == r.method = "GET" /\ reContainersList(r.path)

\* Mutant: any owner label will do.
FilteredByPresence(cs, u) == {c \in cs : label[c] # None}

\* FilterContainerList.
Filtered(cs, u) == {c \in cs : OwnedBy(c, u)}

\* Default route: the reverse proxy carries the request to the daemon.
ForwardList(s) ==
  /\ req[s].pc = "forward" /\ IsList(req[s])
  /\ Reply(s, req[s].user, "other", Filtered(Live, req[s].user))
  /\ UNCHANGED daemon

ForwardApply(s, c) ==
  /\ req[s].pc = "forward" /\ ~IsList(req[s])
  /\ Target(s, c) /\ Apply(s, c) /\ Answer(s, "other")

\* The request touches no container: it is about something else, the daemon
\* refuses it, or (502) the daemon cannot be reached.
ForwardOther(s) ==
  /\ req[s].pc = "forward" /\ Answer(s, "other")
  /\ UNCHANGED daemon

\* handleStreaming: dial, hijack, replay the request line; then relay.  When
\* one of these fails both connections are closed.
StreamApply(s, c) ==
  /\ req[s].pc = "stream"
  /\ Target(s, c) /\ Apply(s, c) /\ Stage(s, "relay", req[s].cid, req[s].seen)

StreamOther(s) ==
  /\ req[s].pc = "stream"
  /\ \/ DaemonFaults /\ Answer(s, "other")
     \/ Stage(s, "relay", req[s].cid, req[s].seen)
  /\ UNCHANGED daemon

\* While Relay copies, the daemon may take what it is sent for requests of its
\* own: on anybody's container, and with any label in a create body.
RelayCarries(s) ==
  /\ req[s].pc = "relay"
  /\ \E c \in Ids :
       \/ RemoveContainer(c)
       \/ NewExec(c)
       \/ \E n \in Names :
            \/ RenameContainer(c, n)
            \/ \E lbl \in Users \cup {None} : NewContainer(c, n, Relayed, lbl)
  /\ UNCHANGED req

\* Relay returns once both directions have ended.
RelayEnds(s) ==
  /\ req[s].pc = "relay" /\ Answer(s, "other")
  /\ UNCHANGED daemon

-----------------------------------------------------------------------------
Receive(s) ==
  \E u \in Users :
    \/ RefuseRequest(s, u)
    \/ \E m \in Methods, p \in Paths, q \in Queries : Arrive(s, u, m, p, q)

Handle(s) ==
  \/ CheckExecOwned(s)
  \/ CheckContainerOwned(s)
  \/ RefuseCreate(s)
  \/ \E c \in Ids, n \in Names : ForwardCreate(s, c, n)
  \/ ForwardWithoutContainer(s)
  \/ ForwardList(s)
  \/ \E c \in Ids : ForwardApply(s, c)
  \/ ForwardOther(s)
  \/ \E c \in Ids : StreamApply(s, c)
  \/ StreamOther(s)

Next ==
  \/ \E s \in Slots : Receive(s) \/ Handle(s) \/ RelayCarries(s) \/ RelayEnds(s)
  \/ HostStep

Spec == Init /\ [][Next]_vars

-----------------------------------------------------------------------------
(* Properties                                                               *)

\* The container references for which CheckContainerOwned is skipped.
Unchecked(p) == p[2] = "containers" /\ p[3] \in ReservedIds

\* Slot s has passed every check and its request may reach c at any moment.
AboutToReach(s, c) == req[s].pc \in {"stream", "forward"} /\ Target(s, c)

\* c came into being through u's own create handler, or over somebody's relay,
\* where the body may carry any owner label: the check cannot tell the two.
PassesForOwn(c, u) == creator[c] \in {u, Relayed}

\* A request that may reach a container has been through an ownership check
\* that saw a container created through the same user's own handler or over a
\* relay, never one of the operator's or of another user's handler.  It
\* reaches that very container, unless the client used a name:
\* CheckContainerOwned and the forwarded request are two daemon calls, and a
\* name may be rebound between them.  The segments "json" and "create" are
\* exempt (ExtractContainerTarget), and so is what a relay carries after its
\* request.
ActsOnlyAfterOwnCheck ==
  \A s \in Slots, c \in Ids :
    AboutToReach(s, c) /\ ~Unchecked(req[s].path) =>
      /\ req[s].seen # None
      /\ PassesForOwn(req[s].seen, req[s].user)
      /\ c # req[s].seen => req[s].path[3] \in Names

\* A request that names its container by ID or through an exec instance never
\* reaches a container created by the operator or through another user's
\* handler, whatever happened on the daemon between the check and the request,
\* and whichever exec instances and names others made over their relays.
StableRefsActOnOwn ==
  \A s \in Slots, c \in Ids :
    AboutToReach(s, c) /\ req[s].path[3] \notin Names \cup ReservedIds =>
      PassesForOwn(c, req[s].user)

\* No client connection is in relay mode on a container or exec request whose
\* ownership check did not see a container of the same user ("Runs BEFORE any
\* hijack", ServeHTTP step 5).  It speaks of the request the connection was
\* handed over for, not of what the relay carries after it.
RelayOnlyAfterOwnCheck ==
  \A s \in Slots :
    LET r == req[s] IN
    /\ r.pc = "relay"
    /\ OnContainer(r) \/ DaemonOnExec(r.path)
    /\ ~Unchecked(r.path)
    => r.seen # None /\ PassesForOwn(r.seen, r.user)

\* A container list a handler returns holds no container of the operator's or
\* of another user's handler (FilterContainerList over labels injected by
\* CheckCreate); a list asked for over a relay is not filtered at all.
ListsOnlyOwn ==
  \A s \in Slots : \A c \in req[s].listed : PassesForOwn(c, req[s].user)

\* With a daemon that answers, the ownership check refuses (403) only requests
\* on a container that exists and was not created through the user's proxy: a
\* missing container is 404, so probe-then-create flows work, and a user's own
\* container is never refused (comment above CheckContainerOwned).
RefusesOnlyForeign ==
  [][\A s \in Slots :
       /\ req[s].pc \in {"inspect", "inspectExec"} /\ ~DaemonFaults
       /\ req'[s].answer = "refused"
       => \E c \in Live : /\ Denotes(InspectRef(req[s]), c)
                          /\ creator[c] # req[s].user]_vars

-----------------------------------------------------------------------------
(* The inductive strengthening of the safety properties                      *)

\* The label the daemon stores names the user through whose handler the
\* container was created, unless it came over a relay.
LabelTellsCreator == \A c \in Ids : label[c] # None => PassesForOwn(c, label[c])

LiveHasName == \A c \in Live : name[c] \in Names

\* Containers remembered anywhere have been created: IDs are assigned once.
KnownAreBorn ==
  /\ \A e \in Execs : execOf[e] # None => status[execOf[e]] # "unborn"
  /\ \A s \in Slots :
       /\ req[s].seen # None => status[req[s].seen] # "unborn"
       /\ \A c \in req[s].listed :
            status[c] # "unborn" /\ req[s].user \in Users /\ label[c] = req[s].user

\* What the stages of ServeHTTP have established about request r.
RequestInv(r) ==
  /\ r.pc # "done" => r.user \in Users /\ r.path \in Paths
  /\ r.pc = "inspectExec" => reExecAction(r.path) /\ r.cid = None
  /\ r.pc = "inspect" => r.cid # None \/ ChecksContainer(r.path)
  /\ r.cid # None => /\ reExecAction(r.path) /\ r.path[3] \in Execs
                     /\ execOf[r.path[3]] = r.cid
  /\ r.seen # None =>
       /\ label[r.seen] = r.user
       /\ r.cid # None => r.seen = r.cid
       /\ r.cid = None => ChecksContainer(r.path)
       /\ r.cid = None => r.seen = r.path[3] \/ r.path[3] \in Names
  /\ r.pc \in {"stream", "forward", "relay"} /\ r.seen = None =>
       /\ ~DaemonOnExec(r.path)
       /\ OnContainer(r) => r.path[3] \in ReservedIds

\* ServeHTTP's stages keep their promises, over a daemon that keeps its own.
CheckedRequests ==
  /\ LabelTellsCreator /\ LiveHasName /\ KnownAreBorn
  /\ \A s \in Slots : RequestInv(req[s])

=============================================================================

------------------------- MODULE DockerProxyProofs -------------------------
(* Type correctness and the ownership guarantees of the docker-proxy, for   *)
(* any number of users, slots, containers, names and paths.                 *)
EXTENDS OwnershipRefinement, EndpointsProofs

\* No step of a proxy, the daemon or the operator leaves the types.
LEMMA TypeStep == TypeOK /\ [Next]_vars => TypeOK'
<1> SUFFICES ASSUME TypeOK, [Next]_vars PROVE TypeOK'
  OBVIOUS
<1> USE DEF TypeOK, Request, Answers, Stages
<1>1. ASSUME NEW s \in Slots, NEW u \in Users, RefuseRequest(s, u)
      PROVE  TypeOK'
  BY <1>1 DEF RefuseRequest, Reply, Served, daemon
<1>2. ASSUME NEW s \in Slots, NEW u \in Users, NEW m \in Methods,
             NEW p \in Paths, NEW q \in Queries, Arrive(s, u, m, p, q)
      PROVE  TypeOK'
  <2>1. Dispatch(m, p) \in Stages
    BY DispatchStages
  <2>2. QED
    BY <1>2, <2>1 DEF Arrive, Serving, daemon
<1>3. ASSUME NEW s \in Slots, CheckExecOwned(s)
      PROVE  TypeOK'
  BY <1>3 DEF CheckExecOwned, Stage, Serving, Answer, Reply, Served, daemon, Live
<1>4. ASSUME NEW s \in Slots, CheckContainerOwned(s)
      PROVE  TypeOK'
  BY <1>4 DEF CheckContainerOwned, Stage, Serving, Answer, Reply, Served, daemon, AfterCheck
<1>5. ASSUME NEW s \in Slots, RefuseCreate(s) \/ ForwardWithoutContainer(s)
                              \/ ForwardOther(s) \/ RelayEnds(s)
      PROVE  TypeOK'
  BY <1>5 DEF RefuseCreate, ForwardWithoutContainer, ForwardOther, RelayEnds,
    Answer, Reply, Served, daemon
<1>6. ASSUME NEW s \in Slots, NEW c \in Ids, NEW n \in Names, ForwardCreate(s, c, n)
      PROVE  TypeOK'
  BY <1>6 DEF ForwardCreate, NewContainer, InjectOwner, Answer, Reply, Served
<1>7. ASSUME NEW s \in Slots, ForwardList(s)
      PROVE  TypeOK'
  BY <1>7 DEF ForwardList, Reply, Served, daemon, Filtered, Live
<1>8. ASSUME NEW s \in Slots, NEW c \in Ids, ForwardApply(s, c)
      PROVE  TypeOK'
  BY <1>8 DEF ForwardApply, Apply, RemoveContainer, NewExec, Answer, Reply, Served, daemon
<1>9. ASSUME NEW s \in Slots, NEW c \in Ids, StreamApply(s, c)
      PROVE  TypeOK'
  BY <1>9 DEF StreamApply, Apply, RemoveContainer, NewExec, Stage, Serving, daemon
<1>10. ASSUME NEW s \in Slots, StreamOther(s)
       PROVE  TypeOK'
  BY <1>10 DEF StreamOther, Stage, Serving, Answer, Reply, Served, daemon
<1>11. ASSUME HostStep
       PROVE  TypeOK'
  BY <1>11 DEF HostStep, NewContainer, RemoveContainer, RenameContainer
<1>12. ASSUME NEW s \in Slots, RelayCarries(s)
       PROVE  TypeOK'
  BY <1>12 DEF RelayCarries, NewContainer, RemoveContainer, RenameContainer, NewExec
<1>13. CASE UNCHANGED vars
  BY <1>13 DEF vars
<1>14. QED
  BY <1>1, <1>2, <1>3, <1>4, <1>5, <1>6, <1>7, <1>8, <1>9, <1>10, <1>11, <1>12, <1>13
    DEF Next, Receive, Handle

\* Every variable of the proxy-and-daemon model keeps its type (ServeHTTP,
\* ownership.go and the daemon they talk to).
THEOREM TypeCorrect == Spec => []TypeOK
<1>1. Init => TypeOK
  BY DEF Init, TypeOK, Served, Request, Answers
<1>2. QED
  BY <1>1, TypeStep, PTL DEF Spec

-----------------------------------------------------------------------------
\* The part of the invariant that speaks of the daemon and of other slots does
\* not depend on the slot that moves: daemon steps preserve RequestInv of any
\* request, because IDs and exec instances are assigned once.
DaemonKeeps ==
  /\ \A c \in Ids : status[c] # "unborn" => status'[c] # "unborn"
  /\ \A c \in Ids : status[c] # "unborn" =>
       creator'[c] = creator[c] /\ label'[c] = label[c]
  /\ \A e \in Execs : execOf[e] # None => execOf'[e] = execOf[e]

\* A container the daemon knows keeps its creator and label and stays known, and
\* an exec instance keeps its container, whatever the daemon does next.
LEMMA DaemonMonotone == TypeOK /\ [Next]_vars => DaemonKeeps
<1> SUFFICES ASSUME TypeOK, [Next]_vars PROVE DaemonKeeps
  OBVIOUS
<1> USE DEF TypeOK, DaemonKeeps, daemon
<1>1. CASE UNCHANGED daemon
  BY <1>1
<1>2. ASSUME NEW c \in Ids, NEW n \in Names, NEW w, NEW l, NewContainer(c, n, w, l)
      PROVE  DaemonKeeps
  BY <1>2 DEF NewContainer
<1>3. ASSUME NEW c \in Ids, RemoveContainer(c) \/ NewExec(c)
      PROVE  DaemonKeeps
  BY <1>3 DEF RemoveContainer, NewExec
<1>4. ASSUME NEW c \in Ids, NEW n \in Names, RenameContainer(c, n)
      PROVE  DaemonKeeps
  BY <1>4 DEF RenameContainer
<1>5. ASSUME NEW s \in Slots, NEW c \in Ids, Apply(s, c)
      PROVE  DaemonKeeps
  BY <1>1, <1>3, <1>5 DEF Apply
<1>6. ASSUME NEW s \in Slots, Receive(s) \/ Handle(s) \/ RelayEnds(s)
      PROVE  DaemonKeeps
  <2>1. CASE Receive(s) \/ RelayEnds(s)
    BY <2>1, <1>1 DEF Receive, RefuseRequest, Arrive, RelayEnds
  <2>2. CASE \E c \in Ids, n \in Names : ForwardCreate(s, c, n)
    BY <2>2, <1>2 DEF ForwardCreate
  <2>3. CASE \E c \in Ids : ForwardApply(s, c) \/ StreamApply(s, c)
    BY <2>3, <1>5 DEF ForwardApply, StreamApply
  <2>4. QED
    BY <1>1, <1>6, <2>1, <2>2, <2>3 DEF Handle, CheckExecOwned,
      CheckContainerOwned, RefuseCreate, ForwardWithoutContainer, ForwardList,
      ForwardOther, StreamOther
<1>7. QED
  BY <1>1, <1>2, <1>3, <1>4, <1>6 DEF Next, HostStep, RelayCarries, vars

\* Labels, names and known containers: the daemon's half of the invariant,
\* in the next state.
LEMMA DaemonHalf ==
  ASSUME TypeOK, LabelTellsCreator, LiveHasName, KnownAreBorn, [Next]_vars
  PROVE  /\ LabelTellsCreator' /\ LiveHasName'
         /\ \A e \in Execs : execOf'[e] # None => status'[execOf'[e]] # "unborn"
<1> USE DEF TypeOK, LabelTellsCreator, PassesForOwn, LiveHasName, KnownAreBorn, Live, daemon
<1> DEFINE Goal == /\ LabelTellsCreator' /\ LiveHasName'
                   /\ \A e \in Execs :
                        execOf'[e] # None => status'[execOf'[e]] # "unborn"
<1>1. CASE UNCHANGED daemon
  BY <1>1
<1>2. ASSUME NEW c \in Ids, NEW n \in Names, NEW who, NEW lbl,
             NewContainer(c, n, who, lbl), lbl # None => who \in {lbl, Relayed}
      PROVE  Goal
  BY <1>2 DEF NewContainer
<1>3. ASSUME NEW c \in Ids, RemoveContainer(c) \/ NewExec(c)
      PROVE  Goal
  BY <1>3 DEF RemoveContainer, NewExec
<1>4. ASSUME NEW c \in Ids, NEW n \in Names, RenameContainer(c, n)
      PROVE  Goal
  BY <1>4 DEF RenameContainer
<1>5. ASSUME NEW s \in Slots, NEW c \in Ids, ForwardApply(s, c) \/ StreamApply(s, c)
      PROVE  Goal
  <2>1. Apply(s, c)
    BY <1>5 DEF ForwardApply, StreamApply
  <2>2. QED
    BY <1>1, <1>3, <2>1 DEF Apply
<1>6. ASSUME NEW s \in Slots, NEW c \in Ids, NEW n \in Names, ForwardCreate(s, c, n)
      PROVE  Goal
  BY <1>2, <1>6 DEF ForwardCreate, InjectOwner
<1>7. ASSUME NEW s \in Slots, Receive(s) \/ Handle(s) \/ RelayEnds(s)
      PROVE  Goal
  <2>1. CASE Receive(s) \/ RelayEnds(s)
    BY <2>1, <1>1 DEF Receive, RefuseRequest, Arrive, RelayEnds
  <2>2. CASE Handle(s)
    BY <1>1, <1>5, <1>6, <2>2 DEF Handle, CheckExecOwned, CheckContainerOwned,
      RefuseCreate, ForwardWithoutContainer, ForwardList, ForwardOther, StreamOther
  <2>3. QED
    BY <1>7, <2>1, <2>2
<1>8. ASSUME NEW s \in Slots, RelayCarries(s)
      PROVE  Goal
  BY <1>2, <1>3, <1>4, <1>8 DEF RelayCarries
<1>9. CASE HostStep
  BY <1>2, <1>3, <1>4, <1>9 DEF HostStep
<1>10. QED
  BY <1>1, <1>7, <1>8, <1>9 DEF Next, vars

-----------------------------------------------------------------------------
\* The invariant of one slot, with what it remembers of the daemon.
SlotInv(s) ==
  /\ RequestInv(req[s])
  /\ req[s].seen # None => status[req[s].seen] # "unborn"
  /\ \A c \in req[s].listed :
       status[c] # "unborn" /\ req[s].user \in Users /\ label[c] = req[s].user

\* A slot that does not move keeps its invariant: what it remembers stays true.
LEMMA IdleSlot ==
  ASSUME TypeOK, DaemonKeeps, NEW s \in Slots, SlotInv(s), req'[s] = req[s]
  PROVE  SlotInv(s)'
BY DEF TypeOK, Request, DaemonKeeps, SlotInv, RequestInv, OnContainer

\* A slot whose request has been answered has nothing left to check but the
\* list it returned.
LEMMA ServedSlot ==
  ASSUME TypeOK, NEW s \in Slots, NEW u, NEW a, NEW cs, Reply(s, u, a, cs),
         \A c \in cs : status'[c] # "unborn" /\ u \in Users /\ label'[c] = u
  PROVE  SlotInv(s)'
BY DEF TypeOK, Reply, Served, SlotInv, RequestInv

\* Dispatch leaves an admitted request where its guard is.
LEMMA ArrivedSlot ==
  ASSUME TypeOK, NEW s \in Slots, NEW u \in Users, NEW m \in Methods,
         NEW p \in Paths, NEW q \in Queries, Arrive(s, u, m, p, q)
  PROVE  SlotInv(s)'
<1>1. IsEndpointAllowed(m, p, q, u) /\ p \in Seq(STRING)
  BY DaemonAssumption DEF Arrive, Admitted
<1>2. Dispatch(m, p) \in {"stream", "forward"} =>
        ~DaemonOnExec(p) /\ (DaemonOnContainer(m, p) => p[3] \in ReservedIds)
  BY <1>1, UncheckedDispatch
<1>3. /\ Dispatch(m, p) \in Stages
      /\ Dispatch(m, p) = "inspectExec" => reExecAction(p)
      /\ Dispatch(m, p) = "inspect" => ChecksContainer(p)
  BY DispatchStages DEF Stages
<1>4. req'[s] = Serving(Dispatch(m, p), u, m, p, None, None)
  BY DEF Arrive, TypeOK
<1>5. QED
  BY <1>2, <1>3, <1>4 DEF Serving, SlotInv, RequestInv, OnContainer, Stages

\* CheckExecOwned remembers the container of the exec instance.
LEMMA ExecCheckedSlot ==
  ASSUME TypeOK, NEW s \in Slots, SlotInv(s), CheckExecOwned(s)
  PROVE  SlotInv(s)'
<1>1. CASE \E a : Answer(s, a)
  BY <1>1, ServedSlot DEF Answer
<1>2. CASE \E c \in Live : /\ req[s].path[3] \in Execs
                           /\ execOf[req[s].path[3]] = c
                           /\ Stage(s, "inspect", c, None)
  <2>1. PICK c \in Live : /\ req[s].path[3] \in Execs
                          /\ execOf[req[s].path[3]] = c
                          /\ Stage(s, "inspect", c, None)
    BY <1>2
  <2>2. req'[s] = Serving("inspect", req[s].user, req[s].method, req[s].path, c, None)
    BY <2>1 DEF Stage, TypeOK
  <2>3. UNCHANGED daemon /\ req[s].pc = "inspectExec" /\ c \in Ids
    BY <2>1 DEF CheckExecOwned, Live
  <2>4. QED
    BY <2>1, <2>2, <2>3, DaemonAssumption DEF Serving, SlotInv, RequestInv, daemon
<1>3. QED
  BY <1>1, <1>2 DEF CheckExecOwned

\* CheckContainerOwned remembers a container of the same user, the very one
\* the reference denotes for good if it is an ID.
LEMMA CheckedSlot ==
  ASSUME TypeOK, LiveHasName, NEW s \in Slots, SlotInv(s), CheckContainerOwned(s)
  PROVE  SlotInv(s)'
<1> DEFINE ref == InspectRef(req[s])
<1>1. CASE \E a : Answer(s, a)
  BY <1>1, ServedSlot DEF Answer
<1>2. CASE \E c \in Ids : /\ Denotes(ref, c) /\ OwnedBy(c, req[s].user)
                          /\ Stage(s, AfterCheck(req[s].path), req[s].cid, c)
  <2>1. PICK c \in Ids : /\ Denotes(ref, c) /\ OwnedBy(c, req[s].user)
                         /\ Stage(s, AfterCheck(req[s].path), req[s].cid, c)
    BY <1>2
  <2>2. req'[s] = Serving(AfterCheck(req[s].path), req[s].user, req[s].method,
                          req[s].path, req[s].cid, c)
    BY <2>1 DEF Stage, TypeOK
  <2>3. UNCHANGED daemon /\ req[s].pc = "inspect"
    BY DEF CheckContainerOwned
  <2>4. req[s].user \in Users /\ req[s].path \in Paths
    BY <2>3 DEF SlotInv, RequestInv
  <2>5. label[c] = req[s].user /\ status[c] # "unborn" /\ c # None
    BY <2>1, DaemonAssumption DEF OwnedBy, Denotes, Live
  <2>6. req[s].cid # None => c = req[s].cid
    BY <2>1 DEF InspectRef, Denotes, TypeOK, Request
  <2>7. req[s].cid = None => c = req[s].path[3] \/ req[s].path[3] \in Names
    BY <2>1 DEF InspectRef, Denotes, LiveHasName
  <2>8. AfterCheck(req[s].path) \in {"stream", "forward"}
    BY DEF AfterCheck
  <2>9. QED
    BY <2>2, <2>3, <2>4, <2>5, <2>6, <2>7, <2>8
      DEF Serving, SlotInv, RequestInv, daemon
<1>3. QED
  BY <1>1, <1>2 DEF CheckContainerOwned

\* Entering the relay changes nothing of what the check established.
LEMMA RelayedSlot ==
  ASSUME TypeOK, DaemonKeeps, NEW s \in Slots, SlotInv(s), req[s].pc = "stream",
         Stage(s, "relay", req[s].cid, req[s].seen)
  PROVE  SlotInv(s)'
<1>1. req'[s] = Serving("relay", req[s].user, req[s].method, req[s].path,
                        req[s].cid, req[s].seen)
  BY DEF Stage, TypeOK
<1>2. QED
  BY <1>1 DEF TypeOK, Request, Serving, DaemonKeeps, SlotInv, RequestInv, OnContainer

-----------------------------------------------------------------------------
\* CheckedRequests is preserved by every step of every slot, of the daemon and
\* of the operator.
LEMMA CheckedRequestsStep ==
  TypeOK /\ CheckedRequests /\ [Next]_vars => CheckedRequests'
<1> SUFFICES ASSUME TypeOK, CheckedRequests, [Next]_vars
             PROVE  CheckedRequests'
  OBVIOUS
<1>1. /\ LabelTellsCreator /\ LiveHasName /\ KnownAreBorn
      /\ \A s \in Slots : SlotInv(s)
  BY DEF CheckedRequests, SlotInv, KnownAreBorn
<1>2. DaemonKeeps
  BY DaemonMonotone
<1>3. /\ LabelTellsCreator' /\ LiveHasName'
      /\ \A e \in Execs : execOf'[e] # None => status'[execOf'[e]] # "unborn"
  BY <1>1, DaemonHalf
<1>4. ASSUME NEW s \in Slots, Receive(s) \/ Handle(s) \/ RelayEnds(s)
      PROVE  SlotInv(s)'
  <2> USE <1>1, <1>2
  <2>1. CASE Receive(s)
    <3>1. ASSUME NEW u \in Users, RefuseRequest(s, u)
          PROVE  SlotInv(s)'
      BY <3>1, ServedSlot DEF RefuseRequest
    <3>2. QED
      BY <2>1, <3>1, ArrivedSlot DEF Receive
  <2>2. CASE CheckExecOwned(s)
    BY <2>2, ExecCheckedSlot
  <2>3. CASE CheckContainerOwned(s)
    BY <2>3, CheckedSlot
  <2>4. CASE \E a : Answer(s, a)
    BY <2>4, ServedSlot DEF Answer
  <2>5. CASE ForwardList(s)
    <3>1. Reply(s, req[s].user, "other", Filtered(Live, req[s].user))
          /\ UNCHANGED daemon /\ req[s].pc = "forward"
      BY <2>5 DEF ForwardList
    <3>2. \A c \in Filtered(Live, req[s].user) :
            /\ status'[c] # "unborn" /\ req[s].user \in Users
            /\ label'[c] = req[s].user
      BY <3>1 DEF SlotInv, RequestInv, Filtered, Live, OwnedBy, daemon
    <3>3. QED
      BY <3>1, <3>2, ServedSlot
  <2>6. CASE req[s].pc = "stream" /\ Stage(s, "relay", req[s].cid, req[s].seen)
    BY <2>6, RelayedSlot
  <2>7. QED
    BY <1>4, <2>1, <2>2, <2>3, <2>4, <2>5, <2>6 DEF Handle, RefuseCreate,
      ForwardCreate, ForwardWithoutContainer, ForwardApply, ForwardOther,
      StreamApply, StreamOther, RelayEnds
<1>5. ASSUME NEW s \in Slots, Receive(s) \/ Handle(s) \/ RelayEnds(s),
             NEW t \in Slots, t # s
      PROVE  req'[t] = req[t]
  BY <1>5 DEF TypeOK, Receive, RefuseRequest, Arrive, Handle, CheckExecOwned,
    CheckContainerOwned, RefuseCreate, ForwardCreate, ForwardWithoutContainer,
    ForwardList, ForwardApply, ForwardOther, StreamApply, StreamOther, RelayEnds,
    Answer, Reply, Stage
<1>6. \A t \in Slots : SlotInv(t)'
  <2> SUFFICES ASSUME NEW t \in Slots PROVE SlotInv(t)'
    OBVIOUS
  <2>1. CASE \E s \in Slots : Receive(s) \/ Handle(s) \/ RelayEnds(s)
    <3>1. PICK s \in Slots : Receive(s) \/ Handle(s) \/ RelayEnds(s)
      BY <2>1
    <3>2. CASE t = s
      BY <1>4, <3>1, <3>2
    <3>3. CASE t # s
      BY <1>1, <1>2, <1>5, <3>1, <3>3, IdleSlot
    <3>4. QED
      BY <3>2, <3>3
  <2>2. CASE HostStep \/ (\E s \in Slots : RelayCarries(s)) \/ UNCHANGED vars
    <3>1. req' = req
      BY <2>2 DEF HostStep, RelayCarries, vars
    <3>2. QED
      BY <1>1, <1>2, <3>1, IdleSlot
  <2>3. QED
    BY <2>1, <2>2 DEF Next
<1>7. QED
  BY <1>3, <1>6 DEF CheckedRequests, SlotInv, KnownAreBorn

\* What the stages of ServeHTTP establish about a request holds for ever, for
\* any number of users, concurrent requests and containers.
THEOREM CheckedRequestsInvariant == Spec => []CheckedRequests
<1>1. Init => CheckedRequests
  BY DEF Init, CheckedRequests, LabelTellsCreator, LiveHasName, Live,
    KnownAreBorn, RequestInv, Served
<1>2. QED
  BY <1>1, TypeCorrect, CheckedRequestsStep, PTL DEF Spec

\* The shape of a request whose container the daemon is about to resolve.
LEMMA ReachedIsChecked ==
  ASSUME TypeOK, CheckedRequests, NEW s \in Slots, NEW c \in Ids, AboutToReach(s, c)
  PROVE  \/ /\ req[s].seen = None /\ req[s].path[2] = "containers"
            /\ req[s].path[3] \in ReservedIds
         \/ /\ req[s].seen # None /\ label[req[s].seen] = req[s].user
            /\ c = req[s].seen \/ req[s].path[3] \in Names
<1> DEFINE r == req[s]
<1>1. /\ RequestInv(r) /\ r.pc \in {"stream", "forward"}
      /\ \/ OnContainer(r) /\ Denotes(r.path[3], c)
         \/ /\ DaemonOnExec(r.path) /\ execOf[r.path[3]] = c
  BY DEF CheckedRequests, AboutToReach, Target
<1>2. CASE r.seen = None
  BY <1>1, <1>2 DEF RequestInv, OnContainer, DaemonOnContainer, Under
<1>3. CASE r.seen # None /\ r.cid # None
  <2>1. reExecAction(r.path) /\ execOf[r.path[3]] = r.cid /\ r.seen = r.cid
    BY <1>1, <1>3 DEF RequestInv
  <2>2. ~OnContainer(r)
    BY <2>1 DEF reExecAction, OnContainer, DaemonOnContainer, Under
  <2>3. QED
    BY <1>1, <1>3, <2>1, <2>2 DEF RequestInv
<1>4. CASE r.seen # None /\ r.cid = None
  <2>1. /\ ChecksContainer(r.path)
        /\ r.seen = r.path[3] \/ r.path[3] \in Names
    BY <1>1, <1>4 DEF RequestInv
  <2>2. ~DaemonOnExec(r.path)
    BY <2>1 DEF ChecksContainer, reContainerAction, reContainerDelete,
      DaemonOnExec, Under
  <2>3. r.seen \in Ids
    BY <1>4 DEF TypeOK, Request
  <2>4. QED
    BY <1>1, <1>4, <2>1, <2>2, <2>3 DEF RequestInv, Denotes
<1>5. QED
  BY <1>2, <1>3, <1>4

\* What carries a user's label came through that user's handler or over a relay.
LEMMA LabelledPasses ==
  ASSUME TypeOK, CheckedRequests, NEW s \in Slots, NEW c \in Ids,
         label[c] = req[s].user, req[s].user # None
  PROVE  PassesForOwn(c, req[s].user)
BY DEF CheckedRequests, LabelTellsCreator

\* A request under way is somebody's.
LEMMA ServedIsUser ==
  ASSUME CheckedRequests, NEW s \in Slots, req[s].pc # "done"
  PROVE  req[s].user \in Users /\ req[s].user # None
BY DaemonAssumption DEF CheckedRequests, RequestInv

\* A request reaches a container only behind an ownership check that saw a
\* container of the same user, and reaches that container unless the client
\* used a name (CheckContainerOwned, ServeHTTP steps 5 to 7).
THEOREM ActsOnlyAfterOwnCheckHolds == Spec => []ActsOnlyAfterOwnCheck
<1>1. TypeOK /\ CheckedRequests => ActsOnlyAfterOwnCheck
  <2> SUFFICES ASSUME TypeOK, CheckedRequests, NEW s \in Slots, NEW c \in Ids,
                      AboutToReach(s, c), ~Unchecked(req[s].path)
               PROVE  /\ req[s].seen # None /\ PassesForOwn(req[s].seen, req[s].user)
                      /\ c # req[s].seen => req[s].path[3] \in Names
    BY DEF ActsOnlyAfterOwnCheck
  <2>1. /\ req[s].seen # None /\ label[req[s].seen] = req[s].user
        /\ c = req[s].seen \/ req[s].path[3] \in Names
    BY ReachedIsChecked DEF Unchecked
  <2>2. req[s].seen \in Ids
    BY <2>1 DEF TypeOK, Request
  <2>3. QED
    BY <2>1, <2>2, LabelledPasses, ServedIsUser DEF AboutToReach
<1>2. QED
  BY <1>1, TypeCorrect, CheckedRequestsInvariant, PTL

\* IDs and exec instances lead only to containers created through the same
\* user's proxy, however checks, removals, renames and creates interleave
\* (CheckContainerOwned, CheckExecOwned).
THEOREM StableRefsActOnOwnHolds == Spec => []StableRefsActOnOwn
<1>1. TypeOK /\ CheckedRequests => StableRefsActOnOwn
  <2> SUFFICES ASSUME TypeOK, CheckedRequests, NEW s \in Slots, NEW c \in Ids,
                      AboutToReach(s, c), req[s].path[3] \notin Names \cup ReservedIds
               PROVE  PassesForOwn(c, req[s].user)
    BY DEF StableRefsActOnOwn
  <2>1. label[c] = req[s].user
    BY ReachedIsChecked
  <2>2. QED
    BY <2>1, LabelledPasses, ServedIsUser DEF AboutToReach
<1>2. QED
  BY <1>1, TypeCorrect, CheckedRequestsInvariant, PTL

\* No connection is relayed for a container or exec request before the check
\* has seen a container of the same user (handleStreaming).
THEOREM RelayOnlyAfterOwnCheckHolds == Spec => []RelayOnlyAfterOwnCheck
<1>1. TypeOK /\ CheckedRequests => RelayOnlyAfterOwnCheck
  <2> SUFFICES ASSUME TypeOK, CheckedRequests, NEW s \in Slots, req[s].pc = "relay",
                      OnContainer(req[s]) \/ DaemonOnExec(req[s].path),
                      ~Unchecked(req[s].path)
               PROVE  req[s].seen # None /\ PassesForOwn(req[s].seen, req[s].user)
    BY DEF RelayOnlyAfterOwnCheck
  <2>1. RequestInv(req[s])
    BY DEF CheckedRequests
  <2>2. OnContainer(req[s]) => req[s].path[2] = "containers"
    BY DEF OnContainer, DaemonOnContainer, Under
  <2>3. req[s].seen # None /\ label[req[s].seen] = req[s].user
    BY <2>1, <2>2 DEF RequestInv, Unchecked
  <2>4. req[s].seen \in Ids
    BY <2>3 DEF TypeOK, Request
  <2>5. QED
    BY <2>3, <2>4, LabelledPasses, ServedIsUser
<1>2. QED
  BY <1>1, TypeCorrect, CheckedRequestsInvariant, PTL

\* A container list holds only containers created through the same user's
\* proxy (FilterContainerList, CheckCreate's label).
THEOREM ListsOnlyOwnHolds == Spec => []ListsOnlyOwn
<1>1. TypeOK /\ CheckedRequests => ListsOnlyOwn
  <2> SUFFICES ASSUME TypeOK, CheckedRequests, NEW s \in Slots, NEW c \in req[s].listed
               PROVE  PassesForOwn(c, req[s].user)
    BY DEF ListsOnlyOwn
  <2>1. c \in Ids /\ label[c] = req[s].user /\ req[s].user # None
    BY DaemonAssumption DEF TypeOK, Request, CheckedRequests, KnownAreBorn
  <2>2. QED
    BY <2>1, LabelledPasses
<1>2. QED
  BY <1>1, TypeCorrect, CheckedRequestsInvariant, PTL

-----------------------------------------------------------------------------
\* A container created through a user's proxy carries that user's label, and a
\* request that is still being served has not been answered.
CreatorLabelled == \A c \in Ids : creator[c] \in Users => label[c] = creator[c]
Unanswered == \A s \in Slots : req[s].pc # "done" => req[s].answer = "none"

\* InjectOwner labels whatever CheckCreate lets a user create, and nothing
\* changes a label afterwards.
LEMMA CreatorLabelledStep ==
  TypeOK /\ CheckedRequests /\ CreatorLabelled /\ [Next]_vars => CreatorLabelled'
<1> SUFFICES ASSUME TypeOK, CheckedRequests, CreatorLabelled, [Next]_vars
             PROVE  CreatorLabelled'
  OBVIOUS
<1> USE DEF TypeOK, CreatorLabelled
<1>1. CASE UNCHANGED <<creator, label>>
  BY <1>1
<1>2. ASSUME NEW c \in Ids, NEW n \in Names, NEW who \in {Host, Relayed}, NEW lbl,
             NewContainer(c, n, who, lbl)
      PROVE  CreatorLabelled'
  BY <1>2, DaemonAssumption DEF NewContainer
<1>3. ASSUME NEW s \in Slots, NEW c \in Ids, NEW n \in Names, ForwardCreate(s, c, n)
      PROVE  CreatorLabelled'
  BY <1>3 DEF ForwardCreate, NewContainer, InjectOwner
<1>4. CASE HostStep \/ (\E s \in Slots : RelayCarries(s)) \/ UNCHANGED vars
  BY <1>1, <1>2, <1>4 DEF HostStep, RelayCarries, RemoveContainer, RenameContainer, NewExec,
    vars
<1>5. ASSUME NEW s \in Slots, Receive(s) \/ Handle(s) \/ RelayEnds(s)
      PROVE  CreatorLabelled'
  <2>1. CASE \E c \in Ids, n \in Names : ForwardCreate(s, c, n)
    BY <1>3, <2>1
  <2>2. CASE \E c \in Ids : ForwardApply(s, c) \/ StreamApply(s, c)
    BY <1>1, <2>2 DEF ForwardApply, StreamApply, Apply, RemoveContainer, NewExec, daemon
  <2>3. QED
    BY <1>1, <1>5, <2>1, <2>2 DEF Receive, RefuseRequest, Arrive, Handle,
      CheckExecOwned, CheckContainerOwned, RefuseCreate, ForwardWithoutContainer,
      ForwardList, ForwardOther, StreamOther, RelayEnds, daemon
<1>6. QED
  BY <1>4, <1>5 DEF Next

\* ServeHTTP answers only when it returns.
LEMMA UnansweredStep == TypeOK /\ Unanswered /\ [Next]_vars => Unanswered'
<1> SUFFICES ASSUME TypeOK, Unanswered, [Next]_vars PROVE Unanswered'
  OBVIOUS
<1> USE DEF TypeOK, Unanswered
<1>1. CASE UNCHANGED req
  BY <1>1
<1>2. ASSUME NEW s \in Slots, NEW u, NEW a, NEW cs, Reply(s, u, a, cs)
      PROVE  Unanswered'
  BY <1>2 DEF Reply, Served
<1>3. ASSUME NEW s \in Slots, NEW pc, NEW cid, NEW seen, Stage(s, pc, cid, seen)
      PROVE  Unanswered'
  BY <1>3 DEF Stage, Serving
<1>4. ASSUME NEW s \in Slots, NEW u \in Users, NEW m \in Methods,
             NEW p \in Paths, NEW q \in Queries, Arrive(s, u, m, p, q)
      PROVE  Unanswered'
  BY <1>4 DEF Arrive, Serving
<1>5. ASSUME NEW s \in Slots, Receive(s) \/ Handle(s) \/ RelayEnds(s)
      PROVE  Unanswered'
  BY <1>2, <1>3, <1>4, <1>5 DEF Receive, RefuseRequest, Handle, CheckExecOwned,
    CheckContainerOwned, RefuseCreate, ForwardCreate, ForwardWithoutContainer,
    ForwardList, ForwardApply, ForwardOther, StreamApply, StreamOther, RelayEnds,
    Answer
<1>6. QED
  BY <1>1, <1>5 DEF Next, HostStep, RelayCarries, vars

\* The one step that answers a request under inspection "refused" found the
\* container it names, with another label than the user's.
LEMMA RefusingStep ==
  ASSUME TypeOK, CheckedRequests, CreatorLabelled, Unanswered, [Next]_vars,
         NEW s \in Slots, req[s].pc \in {"inspect", "inspectExec"}, ~DaemonFaults,
         req'[s].answer = "refused"
  PROVE  \E c \in Live : /\ Denotes(InspectRef(req[s]), c)
                         /\ creator[c] # req[s].user
<1> USE DEF TypeOK
<1>1. req'[s] # req[s]
  BY DEF Unanswered
<1>2. Receive(s) \/ Handle(s) \/ RelayEnds(s)
  <2>1. ASSUME NEW t \in Slots, Receive(t) \/ Handle(t) \/ RelayEnds(t), t # s
        PROVE  req'[s] = req[s]
    BY <2>1 DEF Receive, RefuseRequest, Arrive, Handle, CheckExecOwned,
      CheckContainerOwned, RefuseCreate, ForwardCreate, ForwardWithoutContainer,
      ForwardList, ForwardApply, ForwardOther, StreamApply, StreamOther, RelayEnds,
      Answer, Reply, Stage
  <2>2. QED
    BY <1>1, <2>1 DEF Next, HostStep, RelayCarries, vars
<1>3. CheckExecOwned(s) \/ CheckContainerOwned(s)
  BY <1>2 DEF Receive, RefuseRequest, Arrive, Handle, RefuseCreate, ForwardCreate,
    ForwardWithoutContainer, ForwardList, ForwardApply, ForwardOther, StreamApply,
    StreamOther, RelayEnds
<1>4. ASSUME NEW pc, NEW cid, NEW seen, Stage(s, pc, cid, seen)
      PROVE  FALSE
  BY <1>4 DEF Stage, Serving
<1>5. ASSUME Answer(s, "missing")
      PROVE  FALSE
  BY <1>5 DEF Answer, Reply, Served
<1>6. PICK c \in Ids : /\ Denotes(InspectRef(req[s]), c)
                       /\ ~OwnedBy(c, req[s].user)
  BY <1>3, <1>4, <1>5 DEF CheckExecOwned, CheckContainerOwned
<1>7. c \in Live
  BY <1>6 DEF Denotes
<1>8. creator[c] # req[s].user
  BY <1>6 DEF OwnedBy, CreatorLabelled, CheckedRequests, RequestInv
<1>9. QED
  BY <1>6, <1>7, <1>8

\* With a daemon that answers, only requests on a container of somebody else
\* are refused by the ownership check (CheckContainerOwned, CheckExecOwned).
THEOREM RefusesOnlyForeignHolds == Spec => RefusesOnlyForeign
<1> DEFINE Step ==
      \A s \in Slots :
        /\ req[s].pc \in {"inspect", "inspectExec"} /\ ~DaemonFaults
        /\ req'[s].answer = "refused"
        => \E c \in Live : /\ Denotes(InspectRef(req[s]), c)
                           /\ creator[c] # req[s].user
<1>1. Init => CreatorLabelled /\ Unanswered
  BY DaemonAssumption DEF Init, CreatorLabelled, Unanswered, Served
<1>2. TypeOK /\ CheckedRequests /\ CreatorLabelled /\ Unanswered /\ [Next]_vars
        => (CreatorLabelled /\ Unanswered)'
  BY CreatorLabelledStep, UnansweredStep
<1>3. TypeOK /\ CheckedRequests /\ CreatorLabelled /\ Unanswered /\ [Next]_vars
        => [Step]_vars
  BY RefusingStep
<1>4. QED
  BY <1>1, <1>2, <1>3, TypeCorrect, CheckedRequestsInvariant, PTL
    DEF Spec, RefusesOnlyForeign

-----------------------------------------------------------------------------
(* The proxies act like owners                                              *)

\* A request under way has been shown nothing yet.
NothingShown == \A s \in Slots : req[s].pc # "done" => req[s].listed = {}

\* The names of live containers are remembered under their owner.
HadNames == \A c \in Live : label[c] \in Users => name[c] \in had[label[c]]

\* A name by which the ownership check found a container is one that a
\* container of this user has had.
FoundByOwnName ==
  \A s \in Slots :
    /\ req[s].pc # "done" /\ req[s].seen # None /\ req[s].cid = None
    /\ req[s].path[3] \in Names
    => req[s].path[3] \in had[req[s].user]

HadTypeOK == had \in [Users -> SUBSET (Names \cup {None})]

HistoryInv ==
  /\ TypeOK /\ HadTypeOK /\ CheckedRequests
  /\ NothingShown /\ HadNames /\ FoundByOwnName

\* Serving a list is the last thing a request does.
LEMMA NothingShownStep == TypeOK /\ NothingShown /\ [Next]_vars => NothingShown'
<1> SUFFICES ASSUME TypeOK, NothingShown, [Next]_vars PROVE NothingShown'
  OBVIOUS
<1> USE DEF TypeOK, NothingShown
<1>1. CASE UNCHANGED req
  BY <1>1
<1>2. ASSUME NEW s \in Slots, NEW u, NEW a, NEW cs, Reply(s, u, a, cs)
      PROVE  NothingShown'
  BY <1>2 DEF Reply, Served
<1>3. ASSUME NEW s \in Slots, NEW pc, NEW cid, NEW seen, Stage(s, pc, cid, seen)
      PROVE  NothingShown'
  BY <1>3 DEF Stage, Serving
<1>4. ASSUME NEW s \in Slots, NEW u \in Users, NEW m \in Methods,
             NEW p \in Paths, NEW q \in Queries, Arrive(s, u, m, p, q)
      PROVE  NothingShown'
  BY <1>4 DEF Arrive, Serving
<1>5. ASSUME NEW s \in Slots, Receive(s) \/ Handle(s) \/ RelayEnds(s)
      PROVE  NothingShown'
  BY <1>2, <1>3, <1>4, <1>5 DEF Receive, RefuseRequest, Handle, CheckExecOwned,
    CheckContainerOwned, RefuseCreate, ForwardCreate, ForwardWithoutContainer,
    ForwardList, ForwardApply, ForwardOther, StreamApply, StreamOther, RelayEnds,
    Answer
<1>6. QED
  BY <1>1, <1>5 DEF Next, HostStep, RelayCarries, vars

\* What a slot does in a step of its own, told apart by what is left of it.
Advances(s) ==
  \/ \E u, a, cs : Reply(s, u, a, cs)
  \/ \E pc, cid : Stage(s, pc, cid, None)
  \/ CheckContainerOwned(s)
  \/ req[s].pc = "stream" /\ Stage(s, "relay", req[s].cid, req[s].seen)
  \/ \E u \in Users, m \in Methods, p \in Paths, q \in Queries : Arrive(s, u, m, p, q)

\* Every step is a step of one slot, beside which no other request moves, or
\* one that moves no request at all.
LEMMA OneSlotAdvances ==
  ASSUME TypeOK, [Next]_vars
  PROVE  \/ UNCHANGED req
         \/ \E s \in Slots : /\ Advances(s)
                             /\ \A t \in Slots : t # s => req'[t] = req[t]
<1>1. ASSUME NEW s \in Slots, Receive(s) \/ Handle(s) \/ RelayEnds(s)
      PROVE  Advances(s)
  <2>1. CASE Receive(s)
    BY <2>1 DEF Receive, RefuseRequest, Advances
  <2>2. CASE CheckExecOwned(s)
    BY <2>2 DEF CheckExecOwned, Answer, Advances
  <2>3. CASE \E a : Answer(s, a)
    BY <2>3 DEF Answer, Advances
  <2>4. QED
    BY <1>1, <2>1, <2>2, <2>3 DEF Handle, RefuseCreate, ForwardCreate,
      ForwardWithoutContainer, ForwardList, ForwardApply, ForwardOther,
      StreamApply, StreamOther, RelayEnds, Advances
<1>2. ASSUME NEW s \in Slots, Advances(s), NEW t \in Slots, t # s
      PROVE  req'[t] = req[t]
  BY <1>2 DEF TypeOK, Advances, Arrive, CheckContainerOwned, Answer, Reply, Stage
<1>3. QED
  BY <1>1, <1>2 DEF Next, HostStep, RelayCarries, vars

\* CheckContainerOwned finds a container by a name that container has now.
LEMMA FoundByOwnNameStep ==
  ASSUME TypeOK, CheckedRequests, HadNames, FoundByOwnName, HistoryNext
  PROVE  FoundByOwnName'
<1> USE DEF TypeOK, FoundByOwnName
<1>1. \A u \in Users : had[u] \subseteq had'[u]
  BY DEF HistoryNext, Remember
<1>2. \A s \in Slots : req[s].pc # "done" => req[s].user \in Users
  BY DEF CheckedRequests, RequestInv
<1> DEFINE Found(s) ==
      /\ req[s].pc # "done" /\ req[s].seen # None /\ req[s].cid = None
      /\ req[s].path[3] \in Names
      => req[s].path[3] \in had[req[s].user]
<1>3. ASSUME NEW s \in Slots, req'[s] = req[s]
      PROVE  Found(s)'
  BY <1>1, <1>2, <1>3
<1>4. ASSUME NEW s \in Slots, Advances(s)
      PROVE  Found(s)'
  <2>1. CASE \E u, a, cs : Reply(s, u, a, cs)
    BY <2>1 DEF Reply, Served
  <2>2. CASE \E pc, cid : Stage(s, pc, cid, None)
    BY <2>2 DEF Stage, Serving
  <2>3. CASE \E u \in Users, m \in Methods, p \in Paths, q \in Queries : Arrive(s, u, m, p, q)
    BY <2>3 DEF Arrive, Serving
  <2>4. CASE req[s].pc = "stream" /\ Stage(s, "relay", req[s].cid, req[s].seen)
    BY <1>1, <1>2, <2>4 DEF Stage, Serving
  <2>5. CASE CheckContainerOwned(s)
    <3>1. CASE \E a : Answer(s, a)
      BY <2>1, <3>1 DEF Answer
    <3>2. ASSUME NEW c \in Ids, Denotes(InspectRef(req[s]), c), OwnedBy(c, req[s].user),
                 Stage(s, AfterCheck(req[s].path), req[s].cid, c)
          PROVE  Found(s)'
      <4>1. req[s].user \in Users /\ c \in Live
        BY <1>2, <2>5, <3>2 DEF CheckContainerOwned, Denotes
      <4>2. name[c] \in had[req[s].user]
        BY <3>2, <4>1 DEF HadNames, OwnedBy
      <4>3. req[s].cid = None /\ req[s].path[3] \in Names => name[c] = req[s].path[3]
        BY <3>2, DaemonAssumption DEF InspectRef, Denotes
      <4>4. QED
        BY <1>1, <3>2, <4>1, <4>2, <4>3 DEF Stage, Serving
    <3>3. QED
      BY <2>5, <3>1, <3>2 DEF CheckContainerOwned
  <2>6. QED
    BY <1>4, <2>1, <2>2, <2>3, <2>4, <2>5 DEF Advances
<1>5. QED
  BY <1>3, <1>4, OneSlotAdvances DEF HistoryNext

\* The memory of names is as large as it has to be, whatever happens.
LEMMA HistoryStep ==
  HistoryInv /\ [HistoryNext]_<<vars, had>> => HistoryInv'
<1> SUFFICES ASSUME HistoryInv, [HistoryNext]_<<vars, had>> PROVE HistoryInv'
  OBVIOUS
<1>1. CASE HistoryNext
  <2>1. TypeOK' /\ CheckedRequests' /\ NothingShown'
    BY <1>1, TypeStep, CheckedRequestsStep, NothingShownStep
      DEF HistoryNext, HistoryInv
  <2>2. FoundByOwnName'
    BY <1>1, FoundByOwnNameStep DEF HistoryInv
  <2>3. HadNames'
    BY <1>1 DEF HistoryNext, Remember, HadNames, OwnBy, OwnedBy
  <2>4. HadTypeOK'
    BY <1>1, <2>1 DEF HistoryInv, HistoryNext, Remember, OwnBy, Live, TypeOK, HadTypeOK
  <2>5. QED
    BY <2>1, <2>2, <2>3, <2>4 DEF HistoryInv
<1>2. CASE UNCHANGED <<vars, had>>
  BY <1>2 DEF HistoryInv, TypeOK, HadTypeOK, CheckedRequests, LabelTellsCreator, LiveHasName,
    PassesForOwn, Live, KnownAreBorn, RequestInv, OnContainer, NothingShown, HadNames,
    FoundByOwnName, vars
<1>3. QED
  BY <1>1, <1>2

\* In every behaviour with a memory of names.
LEMMA HistoryInvariant == HistorySpec => []HistoryInv
<1>1. Init /\ HadInit => HistoryInv
  <2>1. Init => TypeOK
    BY DEF Init, TypeOK, Served, Request, Answers
  <2>2. QED
    BY <2>1, DaemonAssumption DEF Init, HadInit, HistoryInv, HadTypeOK, CheckedRequests,
      LabelTellsCreator, LiveHasName, Live, KnownAreBorn, RequestInv,
      Served, NothingShown, HadNames, FoundByOwnName
<1>2. QED
  BY <1>1, HistoryStep, PTL DEF HistorySpec

\* What a request under way may do to a container it reaches.
LEMMA ReachesWhatItMay ==
  ASSUME HistoryInv, NEW s \in Slots, NEW c \in Ids, AboutToReach(s, c)
  PROVE  Promise!May(ServedUser[s], c) /\ c \in Live
<1>1. TypeOK /\ CheckedRequests /\ HadNames /\ FoundByOwnName
  BY DEF HistoryInv
<1>2. c \in Live /\ req[s].user \in Users /\ req[s].pc # "done"
  BY <1>1 DEF AboutToReach, Target, Denotes, CheckedRequests, RequestInv
<1>3. CASE label[c] = req[s].user
  BY <1>2, <1>3 DEF Promise!May, ServedUser
<1>4. CASE label[c] # req[s].user
  <2>1. RequestInv(req[s])
    BY <1>1 DEF CheckedRequests
  <2>2. ~DaemonOnExec(req[s].path) \/ execOf[req[s].path[3]] # c
    <3>1. ASSUME DaemonOnExec(req[s].path), execOf[req[s].path[3]] = c
          PROVE  FALSE
      <4>1. req[s].seen # None /\ label[req[s].seen] = req[s].user
        BY <2>1, <3>1 DEF RequestInv, AboutToReach
      <4>2. req[s].cid # None
        BY <2>1, <3>1, <4>1 DEF RequestInv, ChecksContainer, reContainerAction,
          reContainerDelete, DaemonOnExec, Under
      <4>3. QED
        BY <1>4, <2>1, <3>1, <4>1, <4>2 DEF RequestInv
    <3>2. QED
      BY <3>1
  <2>3. OnContainer(req[s]) /\ Denotes(req[s].path[3], c)
    BY <2>2 DEF AboutToReach, Target
  <2>4. CASE req[s].seen = None
    <3>1. req[s].path[3] \in ReservedIds
      BY <2>1, <2>3, <2>4 DEF RequestInv, AboutToReach
    <3>2. name[c] \in ReservedIds
      BY <2>3, <3>1, HexAssumption DEF Denotes
    <3>3. QED
      BY <1>2, <3>2 DEF Promise!May
  <2>5. CASE req[s].seen # None
    <3>1. req[s].cid = None
      BY <2>1, <2>3 DEF RequestInv, reExecAction, OnContainer, DaemonOnContainer, Under
    <3>2. c # req[s].seen
      BY <1>4, <2>1, <2>5 DEF RequestInv
    <3>3. req[s].path[3] \in Names
      BY <1>1, <1>4, <2>5, <3>2, ReachedIsChecked
    <3>4. req[s].path[3] \in had[req[s].user]
      BY <1>1, <1>2, <2>5, <3>1, <3>3 DEF FoundByOwnName
    <3>5. name[c] = req[s].path[3]
      BY <2>3, <3>3, DaemonAssumption DEF Denotes
    <3>6. QED
      BY <1>2, <3>4, <3>5 DEF Promise!May, ServedUser
  <2>6. QED
    BY <2>4, <2>5
<1>5. QED
  BY <1>3, <1>4

\* An answer ends what a request may do.
LEMMA AnswerSpends ==
  ASSUME TypeOK, NothingShown, NEW s \in Slots, NEW a, Answer(s, a),
         req[s].pc \in Stages
  PROVE  Promise!Ends(s) /\ Promise!Finishes(s) /\ Shown' = Shown
<1>1. req[s].listed = {} /\ req[s].pc \notin {"done", "relay"}
  BY DEF NothingShown, Stages
<1>2. /\ ServedUser' = ServedUser /\ Shown' = Shown
      /\ Open' = Open \ {s} /\ Piped' = Piped
  BY <1>1 DEF TypeOK, Answer, Reply, Served, ServedUser, Shown, Open, Piped, Stages
<1>3. QED
  BY <1>2 DEF Promise!Spent, Promise!Ends, Promise!Finishes, Open

\* So does the start of a relay, which leaves a pipe.
LEMMA RelaySpends ==
  ASSUME TypeOK, NothingShown, NEW s \in Slots, req[s].pc = "stream",
         Stage(s, "relay", req[s].cid, req[s].seen)
  PROVE  Promise!Finishes(s) /\ Shown' = Shown
<1>1. req[s].listed = {}
  BY DEF NothingShown
<1>2. /\ ServedUser' = ServedUser /\ Shown' = Shown
      /\ Open' = Open \ {s} /\ Piped' = Piped \cup {s}
  BY <1>1 DEF TypeOK, Stage, Serving, ServedUser, Shown, Open, Piped, Stages
<1>3. QED
  BY <1>2 DEF Promise!Spent, Promise!Finishes, Open, Stages

\* From check to check nothing is to be seen of a request.
LEMMA CheckIsInvisible ==
  ASSUME TypeOK, NothingShown, NEW s \in Slots, NEW pc \in Stages, NEW cid, NEW seen,
         req[s].pc \in Stages, Stage(s, pc, cid, seen)
  PROVE  UNCHANGED <<ServedUser, Open, Piped, Shown>>
<1>1. req[s].listed = {} /\ req[s].pc # "relay" /\ pc # "relay"
  BY DEF NothingShown, Stages
<1>2. QED
  BY <1>1 DEF TypeOK, Stage, Serving, ServedUser, Shown, Open, Piped

\* The daemon's step for a request that is about to reach a container.
LEMMA ApplyIsServed ==
  ASSUME HistoryInv, NEW s \in Slots, NEW c \in Ids, AboutToReach(s, c), Apply(s, c),
         Promise!Finishes(s)
  PROVE  Promise!Serve(s)
<1>1. Promise!May(ServedUser[s], c) /\ c \in Live
  BY ReachesWhatItMay
<1>2. CASE UNCHANGED daemon
  BY <1>2 DEF daemon, Promise!Serve, Promise!Ineffective, Promise!containers
<1>3. CASE RemoveContainer(c)
  BY <1>1, <1>3 DEF RemoveContainer, Promise!Serve, Promise!Remove, Promise!Dies,
    Promise!Live, Live
<1>4. CASE NewExec(c)
  BY <1>1, <1>4 DEF NewExec, Promise!Serve, Promise!Execute, Promise!Executes,
    Promise!Live, Live
<1>5. QED
  BY <1>2, <1>3, <1>4 DEF Apply

\* One slot's step is at most one step of its user.
LEMMA SlotServes ==
  ASSUME HistoryInv, NEW s \in Slots, Receive(s) \/ Handle(s) \/ RelayEnds(s)
  PROVE  Promise!Serve(s) \/ UNCHANGED <<daemon, ServedUser, Open, Piped, Shown>>
<1> DEFINE Goal == Promise!Serve(s) \/ UNCHANGED <<daemon, ServedUser, Open, Piped, Shown>>
<1>1. TypeOK /\ CheckedRequests /\ NothingShown
  BY DEF HistoryInv
<1>2. ASSUME NEW u \in Users, RefuseRequest(s, u)
      PROVE  Goal
  <2>1. /\ ServedUser' = [ServedUser EXCEPT ![s] = u]
        /\ Shown' = [Shown EXCEPT ![s] = {}] /\ s \notin Open /\ Open' = Open
        /\ s \notin Piped /\ Piped' = Piped
    BY <1>1, <1>2 DEF TypeOK, RefuseRequest, Reply, Served, ServedUser, Shown, Open, Piped,
      Stages
  <2>2. Promise!Ask(s, u)
    BY <1>2, <2>1 DEF RefuseRequest, daemon, Promise!Ask, Promise!containers
  <2>3. QED
    BY <2>2 DEF Promise!Serve
<1>3. ASSUME NEW u \in Users, NEW m \in Methods, NEW p \in Paths, NEW q \in Queries,
             Arrive(s, u, m, p, q)
      PROVE  Goal
  <2>1. Dispatch(m, p) \in Stages
    BY DispatchStages DEF Stages
  <2>2. /\ ServedUser' = [ServedUser EXCEPT ![s] = u]
        /\ Shown' = [Shown EXCEPT ![s] = {}] /\ s \notin Open /\ Open' = Open \cup {s}
        /\ s \notin Piped /\ Piped' = Piped
    BY <1>1, <1>3, <2>1 DEF TypeOK, Arrive, Serving, ServedUser, Shown, Open, Piped, Stages
  <2>3. Promise!Ask(s, u)
    BY <1>3, <2>2 DEF Arrive, daemon, Promise!Ask, Promise!containers
  <2>4. QED
    BY <2>3 DEF Promise!Serve
<1>4. ASSUME req[s].pc \in Stages, NEW a, Answer(s, a), UNCHANGED daemon
      PROVE  Goal
  <2>1. Promise!Finishes(s)
    BY <1>1, <1>4, AnswerSpends
  <2>2. Promise!Ineffective(s)
    BY <1>4, <2>1 DEF Promise!Ineffective, Promise!containers, daemon
  <2>3. QED
    BY <2>2 DEF Promise!Serve
<1>5. CASE CheckExecOwned(s)
  <2>1. CASE \E c \in Live : Stage(s, "inspect", c, None)
    BY <1>1, <1>5, <2>1, CheckIsInvisible DEF CheckExecOwned, Stages
  <2>2. QED
    BY <1>4, <1>5, <2>1 DEF CheckExecOwned, Stages
<1>6. CASE CheckContainerOwned(s)
  <2>1. CASE \E c \in Ids : Stage(s, AfterCheck(req[s].path), req[s].cid, c)
    <3>1. AfterCheck(req[s].path) \in Stages
      BY DEF AfterCheck, Stages
    <3>2. QED
      BY <1>1, <1>6, <2>1, <3>1, CheckIsInvisible DEF CheckContainerOwned, Stages
  <2>2. QED
    BY <1>4, <1>6, <2>1 DEF CheckContainerOwned, Stages
<1>7. CASE RefuseCreate(s) \/ ForwardWithoutContainer(s) \/ ForwardOther(s)
  BY <1>4, <1>7 DEF RefuseCreate, ForwardWithoutContainer, ForwardOther, Stages
<1>8. ASSUME NEW c \in Ids, NEW n \in Names, ForwardCreate(s, c, n)
      PROVE  Goal
  <2>1. Promise!Ends(s) /\ Shown' = Shown
    BY <1>1, <1>8, AnswerSpends DEF ForwardCreate, Stages
  <2>2. Promise!Born(c, n, ServedUser[s])
    BY <1>8 DEF ForwardCreate, NewContainer, InjectOwner, FreeName, Live, ServedUser,
      Promise!Born, Promise!FreeName, Promise!Live
  <2>3. QED
    BY <2>1, <2>2 DEF Promise!Serve, Promise!Create
<1>9. CASE ForwardList(s)
  <2>1. /\ req[s].pc = "forward" /\ UNCHANGED daemon
        /\ Reply(s, req[s].user, "other", Filtered(Live, req[s].user))
    BY <1>9 DEF ForwardList
  <2>2. Filtered(Live, req[s].user) = Promise!Own(ServedUser[s])
    BY DEF Filtered, OwnedBy, Promise!Own, Promise!Live, Live, ServedUser
  <2>3. /\ ServedUser' = ServedUser /\ s \in Open /\ Open' = Open \ {s}
        /\ Piped' = Piped
        /\ Shown' = [Shown EXCEPT ![s] = Filtered(Live, req[s].user)]
    BY <1>1, <2>1 DEF TypeOK, Reply, Served, ServedUser, Shown, Open, Piped, Stages
  <2>4. Promise!Show(s)
    BY <2>1, <2>2, <2>3 DEF Promise!Show, Promise!Ends, Promise!Spent,
      Promise!containers, daemon
  <2>5. QED
    BY <2>4 DEF Promise!Serve
<1>10. ASSUME NEW c \in Ids, ForwardApply(s, c) \/ StreamApply(s, c)
       PROVE  Goal
  <2>1. AboutToReach(s, c) /\ Apply(s, c)
    BY <1>10 DEF ForwardApply, StreamApply, AboutToReach
  <2>2. Promise!Finishes(s)
    BY <1>1, <1>10, AnswerSpends, RelaySpends DEF ForwardApply, StreamApply, Stages
  <2>3. QED
    BY <2>1, <2>2, ApplyIsServed
<1>11. CASE StreamOther(s)
  <2>1. CASE Stage(s, "relay", req[s].cid, req[s].seen)
    <3>1. Promise!Finishes(s)
      BY <1>1, <1>11, <2>1, RelaySpends DEF StreamOther
    <3>2. Promise!Ineffective(s)
      BY <1>11, <3>1 DEF StreamOther, Promise!Ineffective, Promise!containers, daemon
    <3>3. QED
      BY <3>2 DEF Promise!Serve
  <2>2. QED
    BY <1>4, <1>11, <2>1 DEF StreamOther, Stages
<1>12. CASE RelayEnds(s)
  <2>1. req[s].pc = "relay" /\ req[s].listed = {} /\ Answer(s, "other")
    BY <1>1, <1>12 DEF RelayEnds, NothingShown
  <2>2. /\ UNCHANGED <<ServedUser, Open, Shown>>
        /\ s \in Piped /\ Piped' = Piped \ {s}
    BY <1>1, <2>1 DEF TypeOK, Answer, Reply, Served, ServedUser, Open, Piped, Shown, Stages
  <2>3. Promise!Unpipe(s)
    BY <1>12, <2>2 DEF RelayEnds, daemon, Promise!Unpipe
  <2>4. QED
    BY <2>3 DEF Promise!Serve
<1>13. QED
  BY <1>2, <1>3, <1>5, <1>6, <1>7, <1>8, <1>9, <1>10, <1>11, <1>12
    DEF Receive, Handle

\* Every initial state of the proxies and their daemon is one of the promise.
LEMMA OwnershipInit == Init /\ HadInit => Promise!Init
BY DEF Init, HadInit, Served, Promise!Init, ServedUser, Open, Piped, Shown, Stages

\* Every step of theirs is a step of the promise, or nothing to be seen of it.
LEMMA OwnershipStep ==
  HistoryInv /\ [HistoryNext]_<<vars, had>> => [Promise!Next]_(Promise!vars)
<1> SUFFICES ASSUME HistoryInv, [HistoryNext]_<<vars, had>>
             PROVE  Promise!Next \/ UNCHANGED Promise!vars
  OBVIOUS
<1>1. CASE UNCHANGED <<vars, had>>
  BY <1>1 DEF vars, ServedUser, Open, Piped, Shown, Promise!vars
<1>2. CASE HistoryNext
  <2>1. Promise!Remember
    BY <1>2 DEF HistoryNext, Remember, OwnBy, OwnedBy, Live, Promise!Remember,
      Promise!Own, Promise!Live
  <2> DEFINE Quiet == UNCHANGED <<ServedUser, Open, Piped, Shown>>
  <2>2. ASSUME NEW c \in Ids, NEW n \in Names, NEW who, NEW lbl
        PROVE  /\ NewContainer(c, n, who, lbl) => Promise!Born(c, n, lbl)
               /\ RemoveContainer(c) => Promise!Dies(c)
               /\ RenameContainer(c, n) => Promise!Renamed(c, n)
    BY DEF NewContainer, RemoveContainer, RenameContainer, FreeName, Live,
      Promise!Born, Promise!Dies, Promise!Renamed, Promise!FreeName, Promise!Live
  <2>3. CASE HostStep
    <3>1. Quiet
      BY <2>3 DEF HostStep, ServedUser, Open, Piped, Shown
    <3>2. \E c \in Ids :
            \/ Promise!Dies(c)
            \/ \E n \in Names : Promise!Born(c, n, None) \/ Promise!Renamed(c, n)
      BY <2>2, <2>3 DEF HostStep, RemoveContainer, Promise!Dies, Promise!Live, Live
    <3>3. QED
      BY <2>1, <3>1, <3>2 DEF Promise!Next, Promise!Operate, Promise!requests
  <2>4. CASE \E s \in Slots : RelayCarries(s)
    <3>1. Quiet /\ Piped # {}
      BY <2>4 DEF RelayCarries, ServedUser, Open, Piped, Shown
    <3>2. \A c \in Ids : NewExec(c) => \E e \in Execs : Promise!Executes(c, e)
      BY DEF NewExec, Promise!Executes, Promise!Live, Live
    <3>3. \E c \in Ids :
            \/ Promise!Dies(c)
            \/ \E e \in Execs : Promise!Executes(c, e)
            \/ \E n \in Names :
                 \/ Promise!Renamed(c, n)
                 \/ \E who \in Users \cup {None} : Promise!Born(c, n, who)
      BY <2>2, <2>4, <3>2 DEF RelayCarries, RemoveContainer, Promise!Dies, Promise!Live,
        Live
    <3>4. QED
      BY <2>1, <3>1, <3>3 DEF Promise!Next, Promise!Carry, Promise!requests
  <2>5. ASSUME NEW s \in Slots, Receive(s) \/ Handle(s) \/ RelayEnds(s)
        PROVE  Promise!Next \/ UNCHANGED Promise!vars
    <3>1. CASE Promise!Serve(s)
      BY <2>1, <3>1 DEF Promise!Next
    <3>2. CASE UNCHANGED <<daemon, ServedUser, Open, Piped, Shown>>
      <4>1. ASSUME NEW u \in Users
            PROVE  {name'[c] : c \in OwnBy(u)'} \subseteq had[u]
        BY <3>2 DEF HistoryInv, HadNames, OwnBy, OwnedBy, Live, daemon
      <4>2. had' = had
        BY <1>2, <4>1 DEF HistoryInv, HadTypeOK, HistoryNext, Remember
      <4>3. QED
        BY <3>2, <4>2 DEF daemon, Promise!vars
    <3>3. QED
      BY <2>5, <3>1, <3>2, SlotServes
  <2>6. QED
    BY <1>2, <2>3, <2>4, <2>5 DEF HistoryNext, Next
<1>3. QED
  BY <1>1, <1>2

\* The proxies keep the promise of Ownership: each request a handler parses acts
\* at most once, in one step, on what its user may act on, and shows exactly the
\* user's own containers, however its exchanges with the daemon interleave with
\* those of others (ServeHTTP, CheckContainerOwned, CheckExecOwned,
\* FilterContainerList), and whatever clients send over connections that
\* handleStreaming has handed to Relay, which is not bound by the promise.
THEOREM ProxiesImplementOwnership == HistorySpec => ActsLikeAnOwner
<1>1. Init /\ HadInit => Promise!Init
  BY OwnershipInit
<1>2. HistoryInv /\ [HistoryNext]_<<vars, had>> => [Promise!Next]_(Promise!vars)
  BY OwnershipStep
<1>3. QED
  BY <1>1, <1>2, HistoryInvariant, PTL DEF HistorySpec, ActsLikeAnOwner, Promise!Spec

=============================================================================

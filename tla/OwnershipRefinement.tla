------------------------ MODULE OwnershipRefinement ------------------------
(***************************************************************************)
(* The proxies of DockerProxy keep the promise of Ownership.               *)
(***************************************************************************)
EXTENDS DockerProxy

\* The daemon makes IDs of hexadecimal digits.
ASSUME HexAssumption == Ids \cap ReservedIds = {}

VARIABLE had  \* history: had[u]: names that live containers of u have had

HadInit == had = [u \in Users |-> {}]
OwnBy(u) == {c \in Live : OwnedBy(c, u)}
Remember == had' = [u \in Users |-> had[u] \cup {name'[c] : c \in OwnBy(u)'}]

HistoryNext == Next /\ Remember

\* DockerProxy with a memory of names, which no step of it reads.
HistorySpec == Init /\ HadInit /\ [][HistoryNext]_<<vars, had>>

\* Whose request a slot serves, whether it may still have an effect of its own,
\* whether its connection is relayed, and the list it returned.
ServedUser == [s \in Slots |-> req[s].user]
Open == {s \in Slots : req[s].pc \in Stages}
Piped == {s \in Slots : req[s].pc = "relay"}
Shown == [s \in Slots |-> req[s].listed]

\* A container is whose label it carries.
Promise == INSTANCE Ownership WITH
  Exempt <- ReservedIds, owner <- label,
  user <- ServedUser, open <- Open, piped <- Piped, list <- Shown

\* Requests, each of which takes up to three exchanges with a daemon that
\* changes in between, act as if each were a single step that respects who owns
\* what.  The one way to somebody else's container is a name that the user's own
\* container had before (or "json" and "create", which ExtractContainerTarget
\* takes for collections): the name of a removed or renamed container may be
\* bound anew between CheckContainerOwned and the forwarded request.  This is
\* said of requests a handler has parsed; what is sent over a connection after
\* handleStreaming has taken it over (Relay) may do anything, and is the one
\* thing besides the operator that may.
ActsLikeAnOwner == Promise!Spec

=============================================================================

----------------------------- MODULE Ownership -----------------------------
(***************************************************************************)
(* What the docker-proxies promise the users of the one daemon, with no    *)
(* word on endpoints, checks, labels or the exchanges with the daemon: a   *)
(* request has at most one effect on the containers, in one step, and it   *)
(* is on a container of the user's own, or else on one that carries a name *)
(* a container of this user has had.  A list is exactly the user's own     *)
(* containers at one moment.                                               *)
(*                                                                         *)
(* The promise ends where a request opens a pipe: the request itself keeps *)
(* it, but nothing binds what its client then sends through the pipe.      *)
(***************************************************************************)
CONSTANTS
  Users, Slots, Ids, Names, Execs, None,
  Exempt    \* names that are open to everybody

VARIABLES
  status,   \* status[c]: "unborn", "live" or "gone"
  owner,    \* owner[c]: the user whose c is, None for the operator's
  name,     \* name[c]: the name bound to c
  execOf,   \* execOf[e]: container of exec instance e
  had,      \* had[u]: names that live containers of u have had
  user,     \* user[s]: who is served in slot s
  open,     \* the slots whose request may still have an effect
  piped,    \* the slots whose request has left its client a pipe
  list      \* list[s]: the containers slot s has been shown

containers == <<status, owner, name, execOf>>
requests == <<user, open, piped, list>>
vars == <<status, owner, name, execOf, had, user, open, piped, list>>

Live == {c \in Ids : status[c] = "live"}
Own(u) == {c \in Live : owner[c] = u}
FreeName(n) == \A c \in Live : name[c] # n

Init ==
  /\ status = [c \in Ids |-> "unborn"]
  /\ owner = [c \in Ids |-> None]
  /\ name = [c \in Ids |-> None]
  /\ execOf = [e \in Execs |-> None]
  /\ had = [u \in Users |-> {}]
  /\ user = [s \in Slots |-> None]
  /\ open = {} /\ piped = {}
  /\ list = [s \in Slots |-> {}]

-----------------------------------------------------------------------------
(* The containers                                                           *)

Born(c, n, who) ==
  /\ status[c] = "unborn" /\ FreeName(n)
  /\ status' = [status EXCEPT ![c] = "live"]
  /\ owner' = [owner EXCEPT ![c] = who]
  /\ name' = [name EXCEPT ![c] = n]
  /\ UNCHANGED execOf

Dies(c) ==
  /\ c \in Live
  /\ status' = [status EXCEPT ![c] = "gone"]
  /\ name' = [name EXCEPT ![c] = None]
  /\ UNCHANGED <<owner, execOf>>

Renamed(c, n) ==
  /\ c \in Live /\ FreeName(n)
  /\ name' = [name EXCEPT ![c] = n]
  /\ UNCHANGED <<status, owner, execOf>>

\* c runs one more process, which the client refers to as e.
Executes(c, e) ==
  /\ c \in Live /\ execOf[e] = None
  /\ execOf' = [execOf EXCEPT ![e] = c]
  /\ UNCHANGED <<status, owner, name>>

\* What a request of user u may act on.
May(u, c) == owner[c] = u \/ name[c] \in had[u] \cup Exempt

-----------------------------------------------------------------------------
(* The requests                                                             *)

\* A request arrives, or is turned away at once.
Ask(s, u) ==
  /\ s \notin open \cup piped
  /\ user' = [user EXCEPT ![s] = u]
  /\ list' = [list EXCEPT ![s] = {}]
  /\ open' \in {open, open \cup {s}}
  /\ UNCHANGED <<piped, status, owner, name, execOf>>

\* From here on the request itself has no effect, and it ends, or leaves a
\* pipe.
Spent(s) == s \in open /\ open' = open \ {s} /\ UNCHANGED user
Ends(s) == Spent(s) /\ UNCHANGED piped
Finishes(s) == Spent(s) /\ piped' \in {piped, piped \cup {s}} /\ UNCHANGED list

Ineffective(s) == Finishes(s) /\ UNCHANGED containers

Show(s) ==
  /\ Ends(s) /\ list' = [list EXCEPT ![s] = Own(user[s])]
  /\ UNCHANGED containers

Create(s, c, n) == Ends(s) /\ UNCHANGED list /\ Born(c, n, user[s])

Remove(s, c) == Finishes(s) /\ May(user[s], c) /\ Dies(c)

Execute(s, c, e) == Finishes(s) /\ May(user[s], c) /\ Executes(c, e)

Unpipe(s) ==
  /\ s \in piped /\ piped' = piped \ {s}
  /\ UNCHANGED <<user, open, list, status, owner, name, execOf>>

Serve(s) ==
  \/ \E u \in Users : Ask(s, u)
  \/ Ineffective(s)
  \/ Show(s)
  \/ \E c \in Ids :
       \/ \E n \in Names : Create(s, c, n)
       \/ Remove(s, c)
       \/ \E e \in Execs : Execute(s, c, e)
  \/ Unpipe(s)

\* The operator is bound by nothing, and neither is who has a pipe.
Operate ==
  /\ UNCHANGED requests
  /\ \E c \in Ids :
       \/ Dies(c)
       \/ \E n \in Names : Born(c, n, None) \/ Renamed(c, n)

Carry ==
  /\ piped # {} /\ UNCHANGED requests
  /\ \E c \in Ids :
       \/ Dies(c)
       \/ \E e \in Execs : Executes(c, e)
       \/ \E n \in Names :
            \/ Renamed(c, n)
            \/ \E who \in Users \cup {None} : Born(c, n, who)

Remember == had' = [u \in Users |-> had[u] \cup {name'[c] : c \in Own(u)'}]

Next == ((\E s \in Slots : Serve(s)) \/ Operate \/ Carry) /\ Remember

Spec == Init /\ [][Next]_vars

=============================================================================

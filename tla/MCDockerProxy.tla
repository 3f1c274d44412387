--------------------------- MODULE MCDockerProxy ---------------------------
(* Two users, two containers and the name "json".                           *)
EXTENDS DockerProxy, TLC

const_Methods == {"GET", "POST", "DELETE"}

Container(ref) == <<"v1", "containers", ref>>
ExecIn(ref) == <<"v1", "containers", ref, "exec">>

const_Paths ==
  {Container("c1"), Container("web"), ExecIn("json"),
   Container("json"), Container("create"), <<"v1", "exec", "e1", "start">>}

const_MorePaths ==
  const_Paths \cup
  {ExecIn("c1"), ExecIn("web"),
   <<"v1", "containers", "json", "start">>, <<"v1", "networks", "create">>}

const_Queries == {[parses |-> TRUE, keys |-> {}, fromImage |-> FALSE]}

const_IsoNet == [u \in Users |-> "iso-net"]

const_Idents == {"json", "create", "start", "exec", "c1", "c2", "web", "e1"}

\* Users and slots are interchangeable in every invariant checked.
Symmetry == Permutations(Users) \cup Permutations(Slots)

const_Streamish == {"attach", "exec", "wait", "logs", "events"}
=============================================================================

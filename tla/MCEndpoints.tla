---------------------------- MODULE MCEndpoints ----------------------------
(* Paths of up to five segments; "waiter" is a container name that begins   *)
(* with a streaming word.                                                   *)
EXTENDS EndpointsCheck

const_Segments == {"v1", "containers", "exec", "networks", "json", "create",
                   "start", "rename", "waiter"}
const_Idents == const_Segments
const_Streamish == {"attach", "exec", "wait", "logs", "events", "waiter"}
const_Queries == {[parses |-> TRUE, keys |-> {"fromImage"}, fromImage |-> TRUE]}
const_IsoNet == [u \in Users |-> "iso-alice"]
=============================================================================

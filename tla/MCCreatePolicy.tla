--------------------------- MODULE MCCreatePolicy ---------------------------
(* Model-checking instance of CreatePolicy: two users, in a workspace a     *)
(* place for a link and a directory that a link may replace, macOS's /var   *)
(* link.                                                                    *)
EXTENDS CreatePolicy, TLC

MCUsers == {"al", "bo"}
MCSockOf == [u \in MCUsers |-> IF u = "al" THEN "al.sock" ELSE "bo.sock"]
MCIsoNet == [u \in MCUsers |-> IF u = "al" THEN "iso-al" ELSE "iso-bo"]

Ws(u) == <<"Users", "Workspaces", u>>
Run == <<"private", "var", "run", "isolator-docker">>

Leaves == {Ws("al") \o <<"src">>, Ws("al") \o <<"docker.sock">>, Ws("bo") \o <<"src">>,
           <<"Users", "al", "tmp">>, Run \o <<"al.sock">>}
MCDirs == UNION {{SubSeq(p, 1, n) : n \in 1 .. Len(p)} : p \in Leaves}
MCSystemLinks == <<"var">> :> <<"private", "var">>
MCUserLinks == {Ws("al") \o <<"link">>, Ws("al") \o <<"src">>}
MCTargets == {Ws("al"), Ws("al") \o <<"src">>, Ws("bo") \o <<"src">>,
              Ws("al") \o <<"gone">>, <<"Users", "al">>, <<"var", "run", "isolator-docker">>}

Sources ==
  {Ws("al"), Ws("al") \o <<"new">>, Ws("al") \o <<"link">>,
   Ws("al") \o <<"link", "src">>, Ws("al") \o <<"link", "docker.sock">>,
   Ws("al") \o <<"link", "tmp">>, Ws("al") \o <<"link", "..", "src">>,
   Ws("al") \o <<"..", "bo", ".", "src">>, Ws("al") \o <<"link", "link">>,
   <<"Users", "al", "tmp", "new">>, <<"..", "Users", "bo", "tmp">>,
   <<"var", "run", "isolator-docker", "al.sock">>, <<"var", "run", "docker.sock">>}

MCSegments ==
  UNION {Range(p) : p \in Sources \cup Leaves \cup MCTargets}
  \cup {"link", "var", ".", "..", "bo.sock"}

Body(flaws, network, entries, endpoints) ==
  [flaws |-> flaws, network |-> network, entries |-> entries,
   endpoints |-> endpoints, labels |-> "bo"]

Bind(p) == [kind |-> "bind", source |-> p]
Other(k) == [kind |-> k, source |-> <<>>]

MCBodies ==
  {Body({}, "", <<Bind(p)>>, {}) : p \in Sources}
  \cup {Body({}, "iso-al", <<Bind(p), Bind(q)>>, {}) :
          p \in {Ws("al"), Ws("al") \o <<"link">>}, q \in Sources}
  \cup {Body({}, n, <<Other("tmpfs")>>, E) :
          n \in {"", "bridge", "host", "iso-al"}, E \in SUBSET {"default", "iso-al", "iso-bo"}}
  \cup {Body({f}, "host", <<Other(k)>>, {"iso-bo"}) : f \in Flaws, k \in {"format", "policy"}}
  \cup {Body({}, "", <<Bind(Ws("al")), Other(k)>>, {}) : k \in {"format", "policy", "tmpfs"}}
=============================================================================

--------------------------- MODULE NetworkPolicy ---------------------------
(***************************************************************************)
(* CheckNetworkCreate of network_create.go: what the proxy of a user makes *)
(* of the body of a POST /networks/create, and the names iso itself uses.  *)
(* A name is a sequence of characters.  A body is a record of the fields   *)
(* the check looks at (a name that is no string counts as none) and of the *)
(* subnet the network gets, which it leaves to IPAM and the daemon.        *)
(***************************************************************************)
EXTENDS Naturals, Sequences, SequencesExt

Absent == "absent"
WrongType == "wrongType"
\* Who is behind iso; no user has an empty name.
Administrator == <<>>

\* True of any two strings; stated because the provers do not know it.
ASSUME PrefixAssumption == {"iso", "-"} \subseteq STRING

\* The name of the network iso create makes for a user.
NetName(user) == <<"iso", "-">> \o user

NetworkBody == [
  form       : {"json", "notJson", "tooLarge"},
  name       : Seq(STRING),
  driver     : {Absent, "", "bridge", "other", WrongType},
  configFrom : {Absent, "empty", "nonEmpty", WrongType},
  subnet     : Nat]

Refused(status) == [status |-> status]

\* What the daemon is sent: the body, labelled.
Forwarded(body, user) == [status |-> 200, body |-> body, owner |-> user]

\* Mutant: the prefix is taken without the hyphen that ends the user's name.
NameAllowedLoosely(name, user) ==
  /\ name # <<>>
  /\ IsPrefix(<<"iso", "-">>, name) => IsPrefix(NetName(user), name)

NameAllowed(name, user) ==
  /\ name # <<>>
  /\ IsPrefix(<<"iso", "-">>, name) =>
       name = NetName(user) \/ IsPrefix(NetName(user) \o <<"-">>, name)

Permitted(body, user) ==
  /\ body.driver \in {Absent, "", "bridge"}
  /\ NameAllowed(body.name, user)
  /\ body.configFrom \in {Absent, "empty"}

CheckNetworkCreate(body, user) ==
  IF body.form = "tooLarge" THEN Refused(413)
  ELSE IF body.form = "notJson" \/ body.driver = WrongType THEN Refused(400)
  ELSE IF Permitted(body, user) THEN Forwarded(body, user)
  ELSE Refused(403)

\* A name of user's: of iso's network for it, or below that name.
IsNameOf(name, user) ==
  name = NetName(user) \/ IsPrefix(NetName(user) \o <<"-">>, name)

=============================================================================

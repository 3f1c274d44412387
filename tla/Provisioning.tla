---------------------------- MODULE Provisioning ----------------------------
(***************************************************************************)
(* The life of sandbox users: iso create and iso delete, the entries of    *)
(* config.toml, the macOS accounts, the Docker networks that iso and the   *)
(* users themselves make, the subnets iso pf writes rules for, and the     *)
(* account each user's proxy serves.                                       *)
(*                                                                         *)
(* A position in config.toml stands for the subnet derived from it, a UID  *)
(* for its distance from BASE_UID plus one; 0 is root's UID and no user's.  *)
(***************************************************************************)
EXTENDS NetworkPolicy

CONSTANTS
  Users,          \* names iso may be asked to create
  Creators,       \* processes that run iso create
  Bodies,         \* bodies users send to /networks/create
  MaxUid,         \* bound: UIDs the operator writes by hand
  MaxCreates, MaxEdits, MaxUserNetworks   \* bounds on how often these happen

ASSUME ProvisioningAssumption ==
  /\ Users \subseteq Seq(STRING) \ {Administrator}
  /\ Bodies \subseteq NetworkBody
  /\ MaxUid \in Nat /\ MaxCreates \in Nat /\ MaxEdits \in Nat
  /\ MaxUserNetworks \in Nat

VARIABLES
  config,   \* the [users.*] entries of config.toml, in order
  create,   \* create[c]: what the process c has read and where it is
  account,  \* account[n]: whether there is a record, and its UniqueID or 0
  networks, \* Docker's networks: name, who made it, subnet
  rules,    \* names in the order of the subnets of the last iso pf
  proxy,    \* proxy[n]: the UID n's proxy serves, 0 when it does not run
  past,     \* what has happened: see Events
  count     \* creates, edits and user networks so far

vars == <<config, create, account, networks, rules, proxy, past, count>>

NoAccount == [record |-> FALSE, uid |-> 0]
Entry == [name : Users, uid : Nat]
Network == [name : Seq(STRING), maker : Users \cup {Administrator}, subnet : Nat]

\* "overlap": two creates, or a create and an edit, ran at the same time;
\* "edit": the operator changed config.toml other than by adding a new user
\* with a UID of its own at the end; "torn": a create ended half way through
\* an account.
Events == {"overlap", "edit", "torn"}

Idle == [pc |-> "idle", name |-> <<>>, users |-> <<>>]

\* The table of user n.
EntryNamed(users, n) == users[CHOOSE i \in DOMAIN users : users[i].name = n]
EntryOf(c) == EntryNamed(create[c].users, create[c].name)

TypeOK ==
  /\ config \in Seq(Entry)
  /\ \A c \in Creators :
       /\ create[c].pc \in {"idle", "loaded", "account", "uid", "network"}
       /\ create[c].pc # "idle" => create[c].name \in Users
       /\ create[c].users \in Seq(Entry)
       /\ create[c].pc \in {"account", "uid", "network"} => EntryOf(c).uid # 0
  /\ account \in [Users -> [record : BOOLEAN, uid : Nat]]
  /\ \A n \in Users : account[n].uid # 0 => account[n].record
  /\ networks \subseteq Network
  /\ rules \in Seq(Users)
  /\ proxy \in [Users -> Nat]
  /\ past \subseteq Events
  /\ count \in [{"create", "edit", "network"} -> Nat]

Init ==
  /\ config = <<>>
  /\ create = [c \in Creators |-> Idle]
  /\ account = [n \in Users |-> NoAccount]
  /\ networks = {}
  /\ rules = <<>>
  /\ proxy = [n \in Users |-> 0]
  /\ past = {}
  /\ count = [k \in {"create", "edit", "network"} |-> 0]

Happens(kind) == count' = [count EXCEPT ![kind] = @ + 1]
Running == {c \in Creators : create[c].pc # "idle"}

-----------------------------------------------------------------------------
(* config.toml                                                              *)

NamesOf(users) == [i \in DOMAIN users |-> users[i].name]
Has(users, n) == \E i \in DOMAIN users : users[i].name = n
UidsOf(users) == {users[i].uid : i \in DOMAIN users} \ {0}

\* A table that occurs twice makes tomllib refuse the file.
Readable(users) ==
  \A i, j \in DOMAIN users : users[i].name = users[j].name => i = j

\* Mutant: the number of entries is taken for the number of UIDs.
IsCount(uid, users) == uid = Len(users) + 1

\* next_uid
IsNextUid(uid, users) ==
  /\ uid \notin UidsOf(users)
  /\ \A u \in 1 .. uid - 1 : u \in UidsOf(users)

\* user_subnet: the index in the file, or one past the last.
Subnet(users, n) ==
  IF Has(users, n)
  THEN (CHOOSE i \in DOMAIN users : users[i].name = n) - 1
  ELSE Len(users)

-----------------------------------------------------------------------------
(* iso create.  A process loads config.toml once and works on what it read. *)

Step(c, pc) == create' = [create EXCEPT ![c].pc = pc]
Stop(c) == create' = [create EXCEPT ![c] = Idle]

StartCreate(c, n) ==
  /\ create[c].pc = "idle" /\ count["create"] < MaxCreates
  /\ Readable(config)
  /\ create' = [create EXCEPT ![c] =
                  [pc |-> "loaded", name |-> n, users |-> config]]
  /\ past' = IF Running = {} THEN past ELSE past \cup {"overlap"}
  /\ Happens("create")
  /\ UNCHANGED <<config, account, networks, rules, proxy>>

\* add_user_to_config opens the file for appending.
Appended(users, entry) == Append(config, entry)

\* user_config["uid"] raises KeyError.
UidMissing(users, n) == EntryNamed(users, n).uid = 0

\* A user that is not in the file is given the next UID and an entry at the end.
Enter(c) ==
  /\ create[c].pc = "loaded"
  /\ LET users == create[c].users
         n == create[c].name IN
     \/ /\ ~Has(users, n)
        /\ \E uid \in 1 .. Len(users) + 1 :
             /\ IsNextUid(uid, users)
             /\ config' = Appended(users, [name |-> n, uid |-> uid])
             /\ create' = [create EXCEPT
                  ![c].pc = "account",
                  ![c].users = Append(@, [name |-> n, uid |-> uid])]
     \/ /\ Has(users, n) /\ UNCHANGED config
        /\ IF UidMissing(users, n) THEN Stop(c) ELSE Step(c, "account")
  /\ UNCHANGED <<account, networks, rules, proxy, past, count>>

\* An account that exists is left as it is.
MakeRecord(c) ==
  /\ create[c].pc = "account"
  /\ IF account[create[c].name] = NoAccount
     THEN /\ account' = [account EXCEPT ![create[c].name].record = TRUE]
          /\ Step(c, "uid")
     ELSE UNCHANGED account /\ Step(c, "network")
  /\ UNCHANGED <<config, networks, rules, proxy, past, count>>

\* Mutant: the UID of the user added last.
LastUid(c) == create[c].users[Len(create[c].users)].uid

CreatedUid(c) == EntryOf(c).uid

SetUid(c) ==
  /\ create[c].pc = "uid"
  /\ account' = [account EXCEPT ![create[c].name] =
       [record |-> TRUE, uid |-> CreatedUid(c)]]
  /\ Step(c, "network")
  /\ UNCHANGED <<config, networks, rules, proxy, past, count>>

\* Docker (external) refuses a name or a subnet that is in use, and may refuse
\* for reasons of its own.
DockerAccepts(name, subnet) ==
  \A net \in networks : net.name # name /\ net.subnet # subnet

Exists(name) == \E net \in networks : net.name = name

\* create_docker_network takes no notice of a refusal.
MakeNetwork(c) ==
  /\ create[c].pc = "network"
  /\ LET n == create[c].name
         subnet == Subnet(create[c].users, n) IN
     \/ UNCHANGED networks
     \/ /\ ~Exists(NetName(n)) /\ DockerAccepts(NetName(n), subnet)
        /\ networks' = networks \cup
             {[name |-> NetName(n), maker |-> Administrator, subnet |-> subnet]}
  /\ Stop(c)
  /\ UNCHANGED <<config, account, rules, proxy, past, count>>

\* The process is killed, or a command it runs with check=True fails.
Interrupt(c) ==
  /\ create[c].pc # "idle" /\ Stop(c)
  /\ past' = IF create[c].pc = "uid" THEN past \cup {"torn"} ELSE past
  /\ UNCHANGED <<config, account, networks, rules, proxy, count>>

-----------------------------------------------------------------------------
(* iso delete, iso pf, the operator's editor                                *)

\* Mutant: the entry goes with the account.
DeleteAndForget(n) ==
  /\ Readable(config)
  /\ account' = [account EXCEPT ![n] = NoAccount]
  /\ config' = SelectSeq(config, LAMBDA e : e.name # n)
  /\ past' = IF Running = {} THEN past ELSE past \cup {"overlap"}
  /\ UNCHANGED <<create, networks, rules, proxy, count>>

\* The account and its home go; the entry, the network and the proxy stay.
Delete(n) ==
  /\ Readable(config)
  /\ account[n] # NoAccount
  /\ account' = [account EXCEPT ![n] = NoAccount]
  /\ past' = IF Running = {} THEN past ELSE past \cup {"overlap"}
  /\ UNCHANGED <<config, create, networks, rules, proxy, count>>

\* generate_anchor fails on an entry without a UID, before Docker's rules.
LoadRules ==
  /\ Readable(config) /\ \A i \in DOMAIN config : config[i].uid # 0
  /\ rules' = NamesOf(config)
  /\ UNCHANGED <<config, create, account, networks, proxy, past, count>>

IsNewAtEnd(users) ==
  \E n \in Users, uid \in 0 .. MaxUid :
    /\ users = Append(config, [name |-> n, uid |-> uid])
    /\ uid \notin UidsOf(config)

Edit(users) ==
  /\ count["edit"] < MaxEdits
  /\ config' = users /\ Readable(users) /\ Happens("edit")
  /\ past' = past \cup (IF IsNewAtEnd(users) THEN {} ELSE {"edit"})
                  \cup (IF Running = {} THEN {} ELSE {"overlap"})
  /\ UNCHANGED <<create, account, networks, rules, proxy>>

OperatorInserts ==
  \E n \in Users, uid \in 0 .. MaxUid, i \in 1 .. Len(config) + 1 :
    Edit(InsertAt(config, i, [name |-> n, uid |-> uid]))

OperatorRemoves == \E i \in DOMAIN config : Edit(RemoveAt(config, i))

-----------------------------------------------------------------------------
(* The users' proxies                                                       *)

Root == 0
HasUid(n) == account[n].uid # 0

\* resolveUID reads the account once, at start.
StartProxy(n) ==
  /\ proxy[n] = 0 /\ HasUid(n)
  /\ proxy' = [proxy EXCEPT ![n] = account[n].uid]
  /\ UNCHANGED <<config, create, account, networks, rules, past, count>>

StopProxy(n) ==
  /\ proxy[n] # 0
  /\ proxy' = [proxy EXCEPT ![n] = 0]
  /\ UNCHANGED <<config, create, account, networks, rules, past, count>>

UserCreatesNetwork(n, body) ==
  /\ proxy[n] # 0 /\ account[n].uid = proxy[n]
  /\ count["network"] < MaxUserNetworks
  /\ LET verdict == CheckNetworkCreate(body, n) IN
     /\ verdict.status = 200
     /\ DockerAccepts(verdict.body.name, verdict.body.subnet)
     /\ networks' = networks \cup
          {[name |-> verdict.body.name, maker |-> verdict.owner,
            subnet |-> verdict.body.subnet]}
  /\ Happens("network")
  /\ UNCHANGED <<config, create, account, rules, proxy, past>>

\* Any network may be deleted by name.
UserDeletesNetwork(n, net) ==
  /\ proxy[n] # 0 /\ account[n].uid = proxy[n]
  /\ net \in networks /\ networks' = networks \ {net}
  /\ UNCHANGED <<config, create, account, rules, proxy, past, count>>

\* Who can open n's socket: it has mode 0600 and belongs to the UID served.
MayConnect(uid, n) == proxy[n] # 0 /\ uid \in {proxy[n], Root}

\* GetPeerUID: the peer's UID or, if the system call fails, nothing.
GetPeerUID(uid) == {{uid}, {}}

\* Mutant: any peer is let in.
AdmitsAll(peer, n) == TRUE

\* peerUIDListener.Accept, for connections to the socket.
Admits(peer, n) == peer = {} \/ peer = {proxy[n]}

\* The CONNECT listener of n's proxy is on a loopback port: pf passes everything
\* on lo0 and the listener asks nothing of its peer.
ReachesConnect(uid, n) == proxy[n] # 0

-----------------------------------------------------------------------------
CreateStep(c) ==
  \/ Enter(c) \/ MakeRecord(c) \/ SetUid(c) \/ MakeNetwork(c) \/ Interrupt(c)

Next ==
  \/ \E c \in Creators : CreateStep(c) \/ \E n \in Users : StartCreate(c, n)
  \/ \E n \in Users : Delete(n) \/ StartProxy(n) \/ StopProxy(n)
  \/ LoadRules \/ OperatorInserts \/ OperatorRemoves
  \/ \E n \in Users, body \in Bodies : UserCreatesNetwork(n, body)
  \/ \E n \in Users, net \in networks : UserDeletesNetwork(n, net)

Spec == Init /\ [][Next]_vars

-----------------------------------------------------------------------------
(* Properties                                                               *)

Disturbed == past # {}

\* As long as nothing is changed behind its back, iso gives no UID twice: not to
\* two entries, not to two accounts, deleted and re-created ones included.
DistinctUids ==
  /\ \A i, j \in DOMAIN config :
       config[i].uid = config[j].uid /\ config[i].uid # 0 => i = j
  /\ \A m, n \in Users : HasUid(m) /\ account[m].uid = account[n].uid => m = n
UidsAreUnique == past \cap {"overlap", "edit"} = {} => DistinctUids

\* The rules that iso pf wrote for a user are about the subnet of the network
\* iso made for it, through deletions, re-creations and interrupted creates,
\* and however long ago either was made.
SubnetsFollowUsers ==
  \A net \in networks, i \in DOMAIN rules :
    net.maker = Administrator /\ net.name = NetName(rules[i]) =>
      net.subnet = i - 1
RulesFollowNetworks == past \cap {"overlap", "edit"} = {} => SubnetsFollowUsers

\* On its Unix socket a proxy serves the account of its user and no other
\* principal, also one that was running before the account was deleted and made
\* anew; root gets through only when the peer's UID cannot be had.  The TCP
\* listeners are not meant.
Principals == {<<n, account[n].uid>> : n \in {m \in Users : HasUid(m)}}
                \cup {<<Administrator, Root>>}
Served(p, peer, n) == MayConnect(p[2], n) /\ Admits(peer, n)
SocketServes(n) ==
  \A p \in Principals : \A peer \in GetPeerUID(p[2]) :
    proxy[n] # 0 =>
      (Served(p, peer, n) <=> p[1] = n \/ (p[2] = Root /\ peer = {}))
SocketServesOnlyItsUser ==
  past \cap {"overlap", "edit"} = {} => \A n \in Users : SocketServes(n)

\* The same whatever the operator edits, as long as no two users share a UID
\* ("Socket hijack by wrong user" is left to the UID check).  Once an entry is
\* taken out of config.toml, iso may give its UID to another user while the
\* proxy that compares with it still runs.
SocketServesDespiteEdits ==
  "overlap" \notin past /\ DistinctUids => \A n \in Users : SocketServes(n)

\* The CONNECT listener serves the account of its user ("pf restricts which uid
\* can reach the port").
ConnectServesOnlyItsUser ==
  \A n \in Users, p \in Principals : ReachesConnect(p[2], n) => p[1] = n

\* The name m is n's, continued after a hyphen.
Continues(m, n) == IsPrefix(n \o <<"-">>, m)

\* A name below iso-<user> is used by iso, by the user, or by a user whose name
\* continues this one's after a hyphen or is so continued by it, and by nobody
\* else; iso-<user> itself by no user whose name continues this one's.
NamesAreReserved ==
  \A net \in networks, n \in Users :
    IsNameOf(net.name, n) =>
      \/ net.maker \in {n, Administrator}
      \/ Continues(n, net.maker)
      \/ Continues(net.maker, n) /\ net.name # NetName(n)

\* No user makes a network below the name of another that exists ("prevents a
\* sandbox user from creating iso-victim").
LiveNamesAreReserved ==
  \A net \in networks, n \in Users :
    HasUid(n) /\ IsNameOf(net.name, n) => net.maker \in {n, Administrator}

\* A create that runs to its end leaves the account with the UID of the entry.
Completes(c) == create[c].pc = "network" /\ MakeNetwork(c)
LeavesAccount(c) == account'[create[c].name].uid = EntryOf(c).uid
DoneIsUsable ==
  [][\A c \in Creators : Completes(c) /\ ~Disturbed => LeavesAccount(c)]_vars

\* The same after an interruption ("idempotent - safe to re-run").
RerunCompletes ==
  [][\A c \in Creators :
       Completes(c) /\ past \subseteq {"torn"} => LeavesAccount(c)]_vars

=============================================================================

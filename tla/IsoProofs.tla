------------------------------ MODULE IsoProofs ------------------------------
(* Theorems about what bin/iso makes: users, accounts and networks           *)
(* (Provisioning), and the TLS certificate tree (CertTree).  The modules     *)
(* share no name; each has its invariant.                                    *)
EXTENDS Provisioning, CertTree, SequenceTheorems, TLAPS

-----------------------------------------------------------------------------
(* Provisioning: the inductive invariant                                    *)

CreatePcs == {"idle", "loaded", "account", "uid", "network"}
CreateState == [pc : CreatePcs, name : Seq(STRING), users : Seq(Entry)]

\* What a create knows of its user, at every step.
CreatesTyped ==
  /\ create \in [Creators -> CreateState]
  /\ \A c \in Creators :
       /\ create[c].pc # "idle" => create[c].name \in Users
       /\ create[c].pc \in {"account", "uid", "network"} =>
            Has(create[c].users, create[c].name) /\ EntryOf(c).uid # 0

\* Nothing was done behind iso's back.
Calm == past \cap {"overlap", "edit"} = {}

\* The file has an entry that gives n this UID.
Registered(users, n, uid) ==
  \E i \in DOMAIN users : users[i] = [name |-> n, uid |-> uid]

\* A process that creates a user is the only one, and what it read still holds.
OneCreate ==
  /\ \A c, d \in Running : c = d
  /\ \A c \in Running : create[c].users = config

\* Every name and every UID is in config.toml once.
EntriesDistinct ==
  /\ Readable(config)
  /\ \A i, j \in DOMAIN config :
       config[i].uid = config[j].uid /\ config[i].uid # 0 => i = j

\* Whatever iso made of an entry still is what the entry says.
FollowsConfig ==
  /\ \A n \in Users : account[n].uid # 0 => Registered(config, n, account[n].uid)
  /\ \A n \in Users : proxy[n] # 0 => Registered(config, n, proxy[n])
  /\ Len(rules) <= Len(config)
  /\ \A i \in DOMAIN rules : rules[i] = config[i].name
  /\ \A net \in networks : net.maker = Administrator =>
       \E i \in DOMAIN config :
         net.name = NetName(config[i].name) /\ net.subnet = i - 1

\* An account without a UID is one that a create is just making.
Finished ==
  /\ \A n \in Users : account[n].record /\ account[n].uid = 0 =>
       \E c \in Creators : create[c].pc = "uid" /\ create[c].name = n
  /\ \A c \in Creators :
       create[c].pc = "network" => account[create[c].name].uid # 0

ProvInv ==
  /\ TypeOK /\ CreatesTyped
  /\ Calm => OneCreate /\ EntriesDistinct /\ FollowsConfig
  /\ past = {} => Finished

-----------------------------------------------------------------------------
(* The entries of config.toml                                               *)

\* The entry found for a name that is in the file is one of that name.
LEMMA NamedEntry ==
  ASSUME NEW users \in Seq(Entry), NEW n, Has(users, n)
  PROVE  \E i \in DOMAIN users : users[i].name = n /\ EntryNamed(users, n) = users[i]
  BY DEF Has, EntryNamed

\* An entry added at the end is the one found for a new name.
LEMMA AddedEntry ==
  ASSUME NEW users \in Seq(Entry), NEW e \in Entry, ~Has(users, e.name)
  PROVE  /\ Append(users, e) \in Seq(Entry)
         /\ Has(Append(users, e), e.name)
         /\ EntryNamed(Append(users, e), e.name) = e
<1>1. /\ Append(users, e) \in Seq(Entry) /\ DOMAIN Append(users, e) = 1 .. Len(users) + 1
      /\ Append(users, e)[Len(users) + 1] = e
      /\ \A i \in 1 .. Len(users) : Append(users, e)[i] = users[i]
  OBVIOUS
<1>2. \A i \in 1 .. Len(users) : users[i].name # e.name
  BY DEF Has
<1>3. Has(Append(users, e), e.name)
  BY <1>1 DEF Has
<1>4. PICK i \in DOMAIN Append(users, e) :
        /\ Append(users, e)[i].name = e.name
        /\ EntryNamed(Append(users, e), e.name) = Append(users, e)[i]
  <2> DEFINE longer == Append(users, e)
  <2>1. longer \in Seq(Entry) /\ Has(longer, e.name)
    BY <1>1, <1>3
  <2> HIDE DEF longer
  <2>2. \E i \in DOMAIN longer :
          longer[i].name = e.name /\ EntryNamed(longer, e.name) = longer[i]
    BY <2>1, NamedEntry
  <2>3. QED
    BY <2>2 DEF longer
<1>5. i = Len(users) + 1
  BY <1>1, <1>2, <1>4
<1>6. QED
  BY <1>1, <1>3, <1>4, <1>5

\* What the operator's editor makes of the file are entries.
LEMMA EditTyped ==
  ASSUME TypeOK
  PROVE  /\ \A e \in Entry, i \in 1 .. Len(config) + 1 : InsertAt(config, i, e) \in Seq(Entry)
         /\ \A i \in DOMAIN config : RemoveAt(config, i) \in Seq(Entry)
<1>1. config \in Seq(Entry)
  BY DEF TypeOK
<1>2. ASSUME NEW e \in Entry, NEW i \in 1 .. Len(config) + 1
      PROVE  InsertAt(config, i, e) \in Seq(Entry)
  <2>1. SubSeq(config, 1, i - 1) \in Seq(Entry) /\ SubSeq(config, i, Len(config)) \in Seq(Entry)
    BY <1>1, SubSeqProperties
  <2>2. QED
    BY <2>1 DEF InsertAt
<1>3. ASSUME NEW i \in DOMAIN config
      PROVE  RemoveAt(config, i) \in Seq(Entry)
  <2>1. SubSeq(config, 1, i - 1) \in Seq(Entry) /\ SubSeq(config, i + 1, Len(config)) \in Seq(Entry)
    BY <1>1, SubSeqProperties
  <2>2. QED
    BY <2>1 DEF RemoveAt
<1>4. QED
  BY <1>2, <1>3

-----------------------------------------------------------------------------
(* Type correctness                                                         *)

\* What the names of iso's networks begin with is a sequence of characters.
LEMMA PrefixIsSeq == <<"iso", "-">> \in Seq(STRING) /\ <<"-">> \in Seq(STRING)
<1>1. \A S : \A a, b \in S : <<a, b>> \in Seq(S) /\ <<b>> \in Seq(S)
  OBVIOUS
<1>2. "iso" \in STRING /\ "-" \in STRING
  BY PrefixAssumption
<1>3. QED
  BY <1>1, <1>2, Zenon

\* iso's own networks, and those a proxy lets through, are networks.
LEMMA NetworksTyped ==
  /\ \A n \in Users, subnet \in Nat :
       [name |-> NetName(n), maker |-> Administrator, subnet |-> subnet] \in Network
  /\ \A n \in Users, body \in Bodies :
       [name |-> body.name, maker |-> n, subnet |-> body.subnet] \in Network
<1>1. ASSUME NEW n \in Users PROVE NetName(n) \in Seq(STRING)
  <2>1. n \in Seq(STRING)
    BY ProvisioningAssumption
  <2>2. <<"iso", "-">> \in Seq(STRING)
    BY PrefixIsSeq
  <2>3. QED
    BY <2>1, <2>2 DEF NetName
<1>2. \A body \in Bodies : body.name \in Seq(STRING) /\ body.subnet \in Nat
  BY ProvisioningAssumption DEF NetworkBody
<1>3. QED
  BY <1>1, <1>2 DEF Network

\* Where a subnet is derived from.
LEMMA SubnetOf ==
  ASSUME NEW users \in Seq(Entry), NEW n
  PROVE  /\ Subnet(users, n) \in Nat
         /\ Has(users, n) =>
              \E i \in DOMAIN users : users[i].name = n /\ Subnet(users, n) = i - 1
<1>1. CASE Has(users, n)
  <2>1. PICK i \in DOMAIN users : users[i].name = n /\ Subnet(users, n) = i - 1
    BY <1>1 DEF Has, Subnet
  <2>2. QED
    BY <2>1
<1>2. CASE ~Has(users, n)
  BY <1>2 DEF Subnet
<1>3. QED
  BY <1>1, <1>2

\* What there is to show of the creates in a step.
LEMMA CreatesStep ==
  ASSUME create' \in [Creators -> CreateState],
         \A c \in Creators : create'[c].pc # "idle" => create'[c].name \in Users,
         \A c \in Creators : create'[c].pc \in {"account", "uid", "network"} =>
           Has(create'[c].users, create'[c].name)
             /\ EntryNamed(create'[c].users, create'[c].name).uid # 0,
         config' \in Seq(Entry),
         account' \in [Users -> [record : BOOLEAN, uid : Nat]],
         \A n \in Users : account'[n].uid # 0 => account'[n].record,
         networks' \subseteq Network, rules' \in Seq(Users), proxy' \in [Users -> Nat],
         past' \subseteq Events, count' \in [{"create", "edit", "network"} -> Nat]
  PROVE  TypeOK' /\ CreatesTyped'
  BY DEF TypeOK, CreatesTyped, CreateState, CreatePcs, EntryOf

\* Step(c, to) moves the pc of one create and leaves what the creates hold.
LEMMA StepTyped ==
  ASSUME create \in [Creators -> CreateState], NEW c \in Creators, NEW to \in CreatePcs,
         Step(c, to)
  PROVE  /\ create' \in [Creators -> CreateState]
         /\ \A d \in Creators : /\ create'[d].users = create[d].users
                                /\ create'[d].name = create[d].name
                                /\ d # c => create'[d].pc = create[d].pc
         /\ create'[c].pc = to
<1>1. create[c] \in CreateState
  OBVIOUS
<1> DEFINE moved == [create[c] EXCEPT !.pc = to]
<1>2. /\ moved \in CreateState /\ moved.pc = to
      /\ moved.users = create[c].users /\ moved.name = create[c].name
  BY <1>1 DEF CreateState
<1>3. create' = [create EXCEPT ![c] = moved]
  BY DEF Step
<1> HIDE DEF moved
<1>4. create' \in [Creators -> CreateState]
  BY <1>2, <1>3
<1>5. create'[c] = moved /\ \A d \in Creators : d # c => create'[d] = create[d]
  BY <1>3
<1>6. QED
  BY <1>2, <1>4, <1>5

\* A create that stops knows nothing any more, and the others are untouched.
LEMMA StoppedTyped ==
  ASSUME CreatesTyped, NEW c \in Creators,
         create' \in [Creators -> CreateState], create'[c] = Idle,
         \A d \in Creators : d # c => create'[d] = create[d],
         config' \in Seq(Entry),
         account' \in [Users -> [record : BOOLEAN, uid : Nat]],
         \A n \in Users : account'[n].uid # 0 => account'[n].record,
         networks' \subseteq Network, rules' \in Seq(Users), proxy' \in [Users -> Nat],
         past' \subseteq Events, count' \in [{"create", "edit", "network"} -> Nat]
  PROVE  TypeOK' /\ CreatesTyped'
<1>1. Idle.pc = "idle"
  BY DEF Idle
<1>2. \A d \in Creators : create'[d].pc # "idle" => create'[d].name \in Users
  BY <1>1 DEF CreatesTyped
<1>3. \A d \in Creators : create'[d].pc \in {"account", "uid", "network"} =>
        Has(create'[d].users, create'[d].name)
          /\ EntryNamed(create'[d].users, create'[d].name).uid # 0
  <2>1. SUFFICES ASSUME NEW d \in Creators,
                        create'[d].pc \in {"account", "uid", "network"}
                 PROVE  Has(create'[d].users, create'[d].name)
                          /\ EntryNamed(create'[d].users, create'[d].name).uid # 0
    OBVIOUS
  <2>2. create'[d] = create[d]
    BY <1>1, <2>1
  <2>3. QED
    BY <2>1, <2>2 DEF CreatesTyped, EntryOf
<1>4. QED
  BY <1>2, <1>3, CreatesStep

\* Every variable keeps its type, and every create knows its user.
LEMMA TypedStep ==
  ASSUME TypeOK, CreatesTyped, [Next]_vars
  PROVE  TypeOK' /\ CreatesTyped'
<1>0. /\ config \in Seq(Entry) /\ create \in [Creators -> CreateState]
      /\ account \in [Users -> [record : BOOLEAN, uid : Nat]]
      /\ proxy \in [Users -> Nat] /\ rules \in Seq(Users)
      /\ past \subseteq Events /\ networks \subseteq Network
      /\ count \in [{"create", "edit", "network"} -> Nat]
  BY DEF TypeOK, CreatesTyped
<1>01. \A n \in Users : n \in Seq(STRING)
  BY ProvisioningAssumption
<1>02. Idle \in CreateState
  BY DEF Idle, CreateState, CreatePcs
<1>03. \A kind \in {"create", "edit", "network"} :
         Happens(kind) => count' \in [{"create", "edit", "network"} -> Nat]
  BY <1>0 DEF Happens
<1> USE DEF TypeOK, CreatesTyped
<1>1. ASSUME NEW c \in Creators, NEW n \in Users, StartCreate(c, n)
      PROVE  TypeOK' /\ CreatesTyped'
  <2>1. [pc |-> "loaded", name |-> n, users |-> config] \in CreateState
    BY <1>0, <1>01 DEF CreateState, CreatePcs
  <2>2. create' \in [Creators -> CreateState]
    BY <1>0, <1>1, <2>1 DEF StartCreate
  <2>3. /\ create'[c] = [pc |-> "loaded", name |-> n, users |-> config]
        /\ \A d \in Creators : d # c => create'[d] = create[d]
    BY <1>0, <1>1 DEF StartCreate
  <2>4. past' \subseteq Events
    BY <1>0, <1>1 DEF StartCreate, Events
  <2>5. \A d \in Creators : d # c => EntryOf(d)' = EntryOf(d)
    BY <2>3 DEF EntryOf
  <2>6. QED
    BY <1>0, <1>03, <1>1, <2>2, <2>3, <2>4, <2>5 DEF StartCreate
<1>2. ASSUME NEW c \in Creators, Enter(c)
      PROVE  TypeOK' /\ CreatesTyped'
  <2> DEFINE n == create[c].name
             read == create[c].users
  <2>0. n \in Users /\ read \in Seq(Entry) /\ create[c].pc = "loaded"
        /\ create[c] \in CreateState
    BY <1>0, <1>2 DEF Enter, CreateState
  <2>4. UNCHANGED <<account, networks, rules, proxy, past, count>>
    BY <1>2 DEF Enter
  <2>1. ASSUME ~Has(read, n), NEW uid \in 1 .. Len(read) + 1,
               config' = Appended(read, [name |-> n, uid |-> uid]),
               create' = [create EXCEPT ![c].pc = "account",
                            ![c].users = Append(@, [name |-> n, uid |-> uid])]
        PROVE  TypeOK' /\ CreatesTyped'
    <3> DEFINE e == [name |-> n, uid |-> uid]
    <3>1. e \in Entry /\ e.name = n /\ e.uid # 0 /\ uid \in Nat
      BY <2>0 DEF Entry
    <3>2. config' \in Seq(Entry)
      BY <1>0, <2>1, <3>1 DEF Appended
    <3>3. /\ create'[c] = [pc |-> "account", name |-> n, users |-> Append(read, e)]
          /\ \A d \in Creators : d # c => create'[d] = create[d]
      BY <1>0, <2>0, <2>1 DEF CreateState
    <3>4. Append(read, e) \in Seq(Entry) /\ Has(Append(read, e), n)
          /\ EntryNamed(Append(read, e), n) = e
      BY <2>0, <2>1, <3>1, AddedEntry
    <3>5. create'[c] \in CreateState
      BY <2>0, <3>3, <3>4 DEF CreateState, CreatePcs
    <3>6. create' \in [Creators -> CreateState]
      BY <1>0, <2>1, <3>3, <3>5
    <3>7. \A d \in Creators : d # c => EntryOf(d)' = EntryOf(d)
      BY <3>3 DEF EntryOf
    <3>8. EntryOf(c)' = e
      BY <3>3, <3>4 DEF EntryOf
    <3>9. QED
      <4>2. create'[c].users = Append(read, e) /\ create'[c].name = n
        BY <3>3
      <4>1. \A d \in Creators : create'[d].pc # "idle" => create'[d].name \in Users
        BY <2>0, <3>3, <4>2
      <4>3. Has(create'[c].users, create'[c].name)
            /\ EntryNamed(create'[c].users, create'[c].name).uid # 0
        BY <3>1, <3>4, <4>2
      <4>4. \A d \in Creators : create'[d].pc \in {"account", "uid", "network"} =>
              Has(create'[d].users, create'[d].name)
                /\ EntryNamed(create'[d].users, create'[d].name).uid # 0
        BY <3>3, <4>3 DEF EntryOf
      <4>5. QED
        BY <1>0, <2>4, <3>2, <3>6, <4>1, <4>4, CreatesStep
  <2>2. ASSUME Has(read, n), UNCHANGED config,
               IF UidMissing(read, n) THEN Stop(c) ELSE Step(c, "account")
        PROVE  TypeOK' /\ CreatesTyped'
    <3>1. CASE UidMissing(read, n)
      <4>1. /\ create' \in [Creators -> CreateState] /\ create'[c] = Idle
            /\ \A d \in Creators : d # c => create'[d] = create[d]
        BY <1>0, <1>02, <2>2, <3>1 DEF Stop
      <4>2. QED
        BY <1>0, <2>2, <2>4, <4>1, StoppedTyped
    <3>2. CASE ~UidMissing(read, n)
      <4>1. /\ create' \in [Creators -> CreateState]
            /\ \A d \in Creators : /\ create'[d].users = create[d].users
                                   /\ create'[d].name = create[d].name
                                   /\ d # c => create'[d].pc = create[d].pc
            /\ create'[c].pc = "account"
        <5>1. create' = [create EXCEPT ![c].pc = "account"]
          BY <2>2, <3>2 DEF Step
        <5>2. Step(c, "account") /\ "account" \in CreatePcs
          BY <5>1 DEF Step, CreatePcs
        <5>3. QED
          BY <1>0, <5>2, StepTyped
      <4>2. EntryOf(c).uid # 0
        BY <3>2 DEF UidMissing, EntryOf
      <4>3. \A d \in Creators : create'[d].pc # "idle" => create'[d].name \in Users
        BY <2>0, <4>1
      <4>4. \A d \in Creators : create'[d].pc \in {"account", "uid", "network"} =>
              Has(create'[d].users, create'[d].name)
                /\ EntryNamed(create'[d].users, create'[d].name).uid # 0
        <5>1. \A d \in Creators : create'[d].pc \in {"account", "uid", "network"} =>
                Has(create[d].users, create[d].name) /\ EntryOf(d).uid # 0
          BY <2>2, <4>1, <4>2
        <5>2. QED
          BY <4>1, <5>1 DEF EntryOf
      <4>5. QED
        BY <1>0, <2>2, <2>4, <4>1, <4>3, <4>4, CreatesStep
    <3>3. QED
      BY <3>1, <3>2
  <2>3. QED
    BY <1>2, <2>1, <2>2 DEF Enter
<1>3. ASSUME NEW c \in Creators, MakeRecord(c)
      PROVE  TypeOK' /\ CreatesTyped'
  <2>0. create[c].name \in Users /\ create[c].pc = "account"
    BY <1>3 DEF MakeRecord
  <2>1. account' \in [Users -> [record : BOOLEAN, uid : Nat]]
        /\ \A n \in Users : account'[n].uid # 0 => account'[n].record
    <3>1. CASE account' = [account EXCEPT ![create[c].name].record = TRUE]
      BY <1>0, <2>0, <3>1
    <3>2. CASE UNCHANGED account
      BY <1>0, <3>2
    <3>3. QED
      BY <1>3, <3>1, <3>2 DEF MakeRecord
  <2>2. PICK to \in {"uid", "network"} : Step(c, to)
    BY <1>3 DEF MakeRecord
  <2>3. /\ create' \in [Creators -> CreateState]
        /\ \A d \in Creators : /\ create'[d].users = create[d].users
                               /\ create'[d].name = create[d].name
                               /\ d # c => create'[d].pc = create[d].pc
        /\ create'[c].pc = to
    <3>1. to \in CreatePcs
      BY DEF CreatePcs
    <3>2. QED
      BY <1>0, <2>2, <3>1, StepTyped
  <2>4. \A d \in Creators : EntryOf(d)' = EntryOf(d)
    BY <2>3 DEF EntryOf
  <2>5. UNCHANGED <<config, networks, rules, proxy, past, count>>
    BY <1>3 DEF MakeRecord
  <2>6. \A d \in Creators : create'[d].users \in Seq(Entry)
    BY <2>3
  <2>7. QED
    <3>1. \A d \in Creators : create'[d].pc # "idle" => create[d].pc # "idle"
      BY <2>0, <2>3
    <3>2. \A d \in Creators : create'[d].pc \in {"account", "uid", "network"} =>
            create[d].pc \in {"account", "uid", "network"}
      BY <2>0, <2>3
    <3>3. QED
      BY <1>0, <2>1, <2>3, <2>5, <3>1, <3>2, CreatesStep DEF EntryOf
<1>4. ASSUME NEW c \in Creators, SetUid(c)
      PROVE  TypeOK' /\ CreatesTyped'
  <2>0. create[c].name \in Users /\ create[c].pc = "uid" /\ create[c].users \in Seq(Entry)
        /\ Has(create[c].users, create[c].name)
    BY <1>4 DEF SetUid
  <2>1. CreatedUid(c) \in Nat
    <3>1. PICK i \in DOMAIN create[c].users :
            EntryNamed(create[c].users, create[c].name) = create[c].users[i]
      BY <2>0, NamedEntry
    <3>2. create[c].users[i] \in Entry
      BY <2>0
    <3>3. QED
      BY <3>1, <3>2 DEF CreatedUid, EntryOf, Entry
  <2>2. account' \in [Users -> [record : BOOLEAN, uid : Nat]]
        /\ \A n \in Users : account'[n].uid # 0 => account'[n].record
    BY <1>0, <1>4, <2>0, <2>1 DEF SetUid
  <2>3. /\ create' \in [Creators -> CreateState]
        /\ \A d \in Creators : /\ create'[d].users = create[d].users
                               /\ create'[d].name = create[d].name
                               /\ d # c => create'[d].pc = create[d].pc
        /\ create'[c].pc = "network"
    <3>1. Step(c, "network") /\ "network" \in CreatePcs
      BY <1>4 DEF SetUid, CreatePcs
    <3>2. QED
      BY <1>0, <3>1, StepTyped
  <2>4. \A d \in Creators : EntryOf(d)' = EntryOf(d)
    BY <2>3 DEF EntryOf
  <2>5. UNCHANGED <<config, networks, rules, proxy, past, count>>
    BY <1>4 DEF SetUid
  <2>6. \A d \in Creators : create'[d].users \in Seq(Entry)
    BY <2>3
  <2>7. QED
    <3>1. \A d \in Creators : create'[d].pc # "idle" => create[d].pc # "idle"
      BY <2>0, <2>3
    <3>2. \A d \in Creators : create'[d].pc \in {"account", "uid", "network"} =>
            create[d].pc \in {"account", "uid", "network"}
      BY <2>0, <2>3
    <3>3. QED
      BY <1>0, <2>2, <2>3, <2>5, <3>1, <3>2, CreatesStep DEF EntryOf
<1>5. ASSUME NEW c \in Creators, MakeNetwork(c) \/ Interrupt(c)
      PROVE  TypeOK' /\ CreatesTyped'
  <2>1. create' = [create EXCEPT ![c] = Idle]
    BY <1>5 DEF MakeNetwork, Interrupt, Stop
  <2>2. /\ create' \in [Creators -> CreateState] /\ create'[c] = Idle
        /\ \A d \in Creators : d # c => create'[d] = create[d]
    BY <1>0, <1>02, <2>1
  <2>3. networks' \subseteq Network
    <3>1. CASE Interrupt(c)
      BY <3>1 DEF Interrupt
    <3>2. CASE MakeNetwork(c)
      <4>1. create[c].name \in Users /\ Subnet(create[c].users, create[c].name) \in Nat
        BY <3>2, SubnetOf DEF MakeNetwork
      <4>2. QED
        BY <3>2, <4>1, NetworksTyped DEF MakeNetwork
    <3>3. QED
      BY <1>5, <3>1, <3>2
  <2>4. past' \subseteq Events
    BY <1>0, <1>5 DEF MakeNetwork, Interrupt, Events
  <2>5. UNCHANGED <<config, account, rules, proxy, count>>
    BY <1>5 DEF MakeNetwork, Interrupt
  <2>6. QED
    BY <1>0, <2>2, <2>3, <2>4, <2>5, StoppedTyped
<1>6. ASSUME NEW n \in Users, Delete(n) \/ StartProxy(n) \/ StopProxy(n)
      PROVE  TypeOK' /\ CreatesTyped'
  <2>1. UNCHANGED <<config, create, networks, rules, count>> /\ past' \subseteq Events
    BY <1>6 DEF Delete, StartProxy, StopProxy, Events
  <2>2. account' \in [Users -> [record : BOOLEAN, uid : Nat]]
        /\ \A m \in Users : account'[m].uid # 0 => account'[m].record
    <3>1. CASE account' = [account EXCEPT ![n] = NoAccount]
      BY <1>0, <3>1 DEF NoAccount
    <3>2. CASE UNCHANGED account
      BY <1>0, <3>2
    <3>3. QED
      BY <1>6, <3>1, <3>2 DEF Delete, StartProxy, StopProxy
  <2>3. proxy' \in [Users -> Nat]
    BY <1>0, <1>6 DEF Delete, StartProxy, StopProxy
  <2>4. QED
    BY <1>0, <2>1, <2>2, <2>3 DEF EntryOf
<1>7. CASE LoadRules
  <2>1. Len(config) \in Nat /\ DOMAIN config = 1 .. Len(config)
        /\ \A i \in 1 .. Len(config) : config[i].name \in Users
    <3>1. \A i \in 1 .. Len(config) : config[i] \in Entry
      BY <1>0
    <3>2. \A i \in 1 .. Len(config) : config[i].name \in Users
      BY <3>1 DEF Entry
    <3>3. Len(config) \in Nat /\ DOMAIN config = 1 .. Len(config)
      BY <1>0
    <3>4. QED
      BY <3>2, <3>3
  <2>2. NamesOf(config) \in Seq(Users)
    <3>1. NamesOf(config) = [i \in 1 .. Len(config) |-> config[i].name]
      BY <2>1 DEF NamesOf
    <3>2. QED
      BY <2>1, <3>1
  <2>3. QED
    BY <1>7, <2>2 DEF LoadRules, EntryOf
<1>8. ASSUME NEW users \in Seq(Entry), Edit(users)
      PROVE  TypeOK' /\ CreatesTyped'
  BY <1>0, <1>03, <1>8 DEF Edit, EntryOf, Events
<1>9. CASE OperatorInserts \/ OperatorRemoves
  <2>1. \A n \in Users, uid \in 0 .. MaxUid : [name |-> n, uid |-> uid] \in Entry
    BY ProvisioningAssumption DEF Entry
  <2>2. QED
    BY <1>8, <1>9, <2>1, EditTyped DEF OperatorInserts, OperatorRemoves
<1>10. ASSUME NEW n \in Users, NEW body \in Bodies, UserCreatesNetwork(n, body)
       PROVE  TypeOK' /\ CreatesTyped'
  <2>1. networks' \subseteq Network
    <3>1. CheckNetworkCreate(body, n).status = 200
          /\ networks' = networks \cup
               {[name |-> CheckNetworkCreate(body, n).body.name,
                 maker |-> CheckNetworkCreate(body, n).owner,
                 subnet |-> CheckNetworkCreate(body, n).body.subnet]}
      BY <1>10 DEF UserCreatesNetwork
    <3>2. CheckNetworkCreate(body, n) = [status |-> 200, body |-> body, owner |-> n]
      BY <3>1 DEF CheckNetworkCreate, Refused, Forwarded
    <3>3. QED
      BY <1>0, <3>1, <3>2, NetworksTyped
  <2>2. QED
    BY <1>0, <1>03, <1>10, <2>1 DEF UserCreatesNetwork, EntryOf
<1>11. CASE \E n \in Users, net \in networks : UserDeletesNetwork(n, net)
  BY <1>11 DEF UserDeletesNetwork, EntryOf
<1>12. CASE UNCHANGED vars
  BY <1>12 DEF vars, EntryOf
<1>13. QED
  BY <1>1, <1>2, <1>3, <1>4, <1>5, <1>6, <1>7, <1>9, <1>10, <1>11, <1>12 DEF Next, CreateStep

\* Every variable has its type in every reachable state.
LEMMA TypedInvariant == Spec => [](TypeOK /\ CreatesTyped)
<1>1. Init => TypeOK /\ CreatesTyped
  <2> SUFFICES ASSUME Init PROVE TypeOK /\ CreatesTyped
    OBVIOUS
  <2>1. /\ create \in [Creators -> CreateState]
        /\ \A c \in Creators : create[c].pc = "idle" /\ create[c].users \in Seq(Entry)
    <3>1. Idle \in CreateState /\ Idle.pc = "idle" /\ Idle.users \in Seq(Entry)
      BY DEF Idle, CreateState, CreatePcs
    <3>2. QED
      BY <3>1 DEF Init
  <2>2. account \in [Users -> [record : BOOLEAN, uid : Nat]]
        /\ \A n \in Users : account[n].uid = 0
    BY DEF Init, NoAccount
  <2>3. config \in Seq(Entry) /\ rules \in Seq(Users) /\ networks \subseteq Network
        /\ past \subseteq Events /\ proxy \in [Users -> Nat]
        /\ count \in [{"create", "edit", "network"} -> Nat]
    BY DEF Init
  <2>4. QED
    BY <2>1, <2>2, <2>3 DEF TypeOK, CreatesTyped
<1>2. TypeOK /\ CreatesTyped /\ [Next]_vars => TypeOK' /\ CreatesTyped'
  BY TypedStep
<1>3. QED
  BY <1>1, <1>2, PTL DEF Spec

\* The types of iso's files, accounts and networks, and that a create which is
\* past its entry has a UID to give.
THEOREM TypeCorrect == Spec => []TypeOK
  BY TypedInvariant, PTL

-----------------------------------------------------------------------------
(* While nothing is done behind iso's back                                  *)

\* What has happened stays so.
LEMMA PastGrows ==
  ASSUME [Next]_vars
  PROVE  past \subseteq past' /\ (Calm' => Calm)
<1>1. past \subseteq past'
  BY DEF Next, CreateStep, vars, StartCreate, Enter, MakeRecord, SetUid, MakeNetwork,
    Interrupt, Delete, LoadRules, OperatorInserts, OperatorRemoves, Edit, StartProxy,
    StopProxy, UserCreatesNetwork, UserDeletesNetwork
<1>2. QED
  BY <1>1 DEF Calm

\* config.toml only grows, by entries with a new name and a new UID.
NewEntry(e) ==
  /\ config' = Append(config, e)
  /\ ~Has(config, e.name) /\ e.uid \notin UidsOf(config)

\* While iso is alone with it, config.toml changes only by new entries.
LEMMA ConfigGrows ==
  ASSUME TypeOK, CreatesTyped, OneCreate, [Next]_vars, Calm'
  PROVE  config' = config \/ \E e \in Entry : NewEntry(e)
<1>0. config \in Seq(Entry)
  BY DEF TypeOK
<1>1. ASSUME NEW c \in Creators, Enter(c)
      PROVE  config' = config \/ \E e \in Entry : NewEntry(e)
  <2>1. create[c].users = config /\ create[c].name \in Users
    BY <1>1 DEF Enter, OneCreate, Running, CreatesTyped
  <2>2. \A uid \in 1 .. Len(config) + 1 :
          [name |-> create[c].name, uid |-> uid] \in Entry
    BY <1>0, <2>1 DEF Entry
  <2>3. QED
    BY <1>1, <2>1, <2>2 DEF Enter, Appended, IsNextUid, NewEntry
<1>2. ASSUME NEW users, Edit(users)
      PROVE  \E e \in Entry : NewEntry(e)
  <2>1. IsNewAtEnd(users) /\ config' = users /\ Readable(users)
    BY <1>2 DEF Edit, Calm
  <2>2. PICK n \in Users, uid \in 0 .. MaxUid :
          users = Append(config, [name |-> n, uid |-> uid]) /\ uid \notin UidsOf(config)
    BY <2>1 DEF IsNewAtEnd
  <2>3. [name |-> n, uid |-> uid] \in Entry
    BY ProvisioningAssumption DEF Entry
  <2>4. ~Has(config, n)
    <3>1. SUFFICES ASSUME NEW i \in 1 .. Len(config), config[i].name = n PROVE FALSE
      BY <1>0 DEF Has
    <3>2. /\ users[i] = config[i] /\ users[Len(config) + 1] = [name |-> n, uid |-> uid]
          /\ i \in DOMAIN users /\ Len(config) + 1 \in DOMAIN users /\ i # Len(config) + 1
      BY <1>0, <2>2, <2>3
    <3>3. QED
      BY <2>1, <3>1, <3>2 DEF Readable
  <2>5. QED
    BY <2>1, <2>2, <2>3, <2>4 DEF NewEntry
<1>3. QED
  BY <1>1, <1>2
  DEF Next, CreateStep, vars, StartCreate, MakeRecord, SetUid, MakeNetwork, Interrupt,
    Delete, LoadRules, OperatorInserts, OperatorRemoves, StartProxy, StopProxy,
    UserCreatesNetwork, UserDeletesNetwork

\* Then its old entries stay where they are, and all stay distinct.
LEMMA EntriesKept ==
  ASSUME TypeOK, EntriesDistinct, config' = config \/ \E e \in Entry : NewEntry(e)
  PROVE  /\ EntriesDistinct'
         /\ Len(config) <= Len(config')
         /\ \A i \in DOMAIN config : i \in DOMAIN config' /\ config'[i] = config[i]
         /\ \A n, uid : Registered(config, n, uid) => Registered(config', n, uid)
<1>0. config \in Seq(Entry)
  BY DEF TypeOK
<1>1. CASE config' = config
  BY <1>0, <1>1 DEF EntriesDistinct, Readable, Registered
<1>2. ASSUME NEW e \in Entry, NewEntry(e)
      PROVE  /\ EntriesDistinct'
             /\ Len(config) <= Len(config')
             /\ \A i \in DOMAIN config : i \in DOMAIN config' /\ config'[i] = config[i]
             /\ \A n, uid : Registered(config, n, uid) => Registered(config', n, uid)
  <2>1. /\ DOMAIN config = 1 .. Len(config) /\ Len(config) \in Nat
        /\ DOMAIN config' = 1 .. Len(config) + 1 /\ Len(config') = Len(config) + 1
        /\ config'[Len(config) + 1] = e
        /\ \A i \in 1 .. Len(config) : config'[i] = config[i]
    BY <1>0, <1>2 DEF NewEntry
  <2>2. \A i \in 1 .. Len(config) : config[i].name # e.name
    BY <1>2, <2>1 DEF NewEntry, Has
  <2>3. \A i \in 1 .. Len(config) : config[i].uid = e.uid => e.uid = 0
    BY <1>2, <2>1 DEF NewEntry, UidsOf
  <2>4. Readable(config')
    BY <2>1, <2>2 DEF EntriesDistinct, Readable
  <2>5. \A i, j \in DOMAIN config' :
          config'[i].uid = config'[j].uid /\ config'[i].uid # 0 => i = j
    BY <2>1, <2>3 DEF EntriesDistinct
  <2>6. QED
    BY <2>1, <2>4, <2>5 DEF EntriesDistinct, Registered
<1>3. QED
  BY <1>1, <1>2

\* One create runs at a time, on what config.toml still says.
LEMMA OneCreateStep ==
  ASSUME TypeOK, CreatesTyped, OneCreate, [Next]_vars, Calm'
  PROVE  OneCreate'
<1>0. create \in [Creators -> CreateState] /\ config \in Seq(Entry)
  BY DEF CreatesTyped, TypeOK
<1>1. ASSUME NEW c \in Creators, NEW n \in Users, StartCreate(c, n)
      PROVE  OneCreate'
  <2>1. Running = {} /\ UNCHANGED config
    BY <1>1 DEF StartCreate, Calm
  <2>2. /\ create'[c].users = config
        /\ \A d \in Creators : d # c => create'[d] = create[d]
    BY <1>0, <1>1 DEF StartCreate
  <2>3. QED
    BY <2>1, <2>2 DEF OneCreate, Running
<1>2. ASSUME NEW c \in Creators, Enter(c)
      PROVE  OneCreate'
  <2>0. c \in Running /\ create[c].users = config /\ create[c] \in CreateState
        /\ \A d \in Running : d = c
    BY <1>0, <1>2 DEF Enter, OneCreate, Running
  <2>1. /\ create'[c].users = config' \/ create'[c] = Idle
        /\ \A d \in Creators : d # c => create'[d] = create[d]
    <3>1. ASSUME NEW e,
                 config' = Append(config, e),
                 create' = [create EXCEPT ![c].pc = "account", ![c].users = Append(@, e)]
          PROVE  /\ create'[c].users = config'
                 /\ \A d \in Creators : d # c => create'[d] = create[d]
      BY <1>0, <2>0, <3>1 DEF CreateState
    <3>2. CASE UNCHANGED config /\ (Stop(c) \/ Step(c, "account"))
      BY <1>0, <2>0, <3>2 DEF Stop, Step, CreateState
    <3>3. QED
      BY <1>2, <3>1, <3>2 DEF Enter, Appended
  <2>2. Running' \subseteq {c} /\ (create'[c] = Idle => Running' = {})
    BY <2>0, <2>1 DEF Running, Idle
  <2>3. QED
    BY <2>1, <2>2 DEF OneCreate
<1>3. ASSUME UNCHANGED config,
             \A d \in Creators : create'[d].pc # "idle" =>
               create[d].pc # "idle" /\ create'[d].users = create[d].users
      PROVE  OneCreate'
  BY <1>3 DEF OneCreate, Running
<1>4. ASSUME NEW c \in Creators,
             MakeRecord(c) \/ SetUid(c) \/ MakeNetwork(c) \/ Interrupt(c)
      PROVE  OneCreate'
  <2>1. /\ UNCHANGED config /\ create[c].pc # "idle"
        /\ Stop(c) \/ \E to \in CreatePcs : Step(c, to)
    BY <1>4 DEF MakeRecord, SetUid, MakeNetwork, Interrupt, CreatePcs
  <2>2. \A d \in Creators : create'[d].pc # "idle" =>
          create[d].pc # "idle" /\ create'[d].users = create[d].users
    BY <1>0, <2>1 DEF Stop, Step, Idle, CreateState
  <2>3. QED
    BY <1>3, <2>1, <2>2
<1>5. ASSUME NEW users, Edit(users) PROVE OneCreate'
  <2>1. Running = {} /\ UNCHANGED create
    BY <1>5 DEF Edit, Calm
  <2>2. QED
    BY <2>1 DEF OneCreate, Running
<1>6. CASE UNCHANGED <<create, config>>
  BY <1>3, <1>6
<1>7. QED
  BY <1>1, <1>2, <1>4, <1>5, <1>6
  DEF Next, CreateStep, vars, Delete, LoadRules, OperatorInserts, OperatorRemoves,
    StartProxy, StopProxy, UserCreatesNetwork, UserDeletesNetwork

\* The entry a create works on is in config.toml.
LEMMA CreateRegistered ==
  ASSUME TypeOK, CreatesTyped, OneCreate, NEW c \in Creators,
         create[c].pc \in {"account", "uid", "network"}
  PROVE  Registered(config, create[c].name, EntryOf(c).uid)
<1>1. create[c].users = config /\ config \in Seq(Entry) /\ Has(config, create[c].name)
  BY DEF TypeOK, CreatesTyped, OneCreate, Running
<1>2. PICK i \in DOMAIN config :
        config[i].name = create[c].name /\ EntryOf(c) = config[i]
  BY <1>1, NamedEntry DEF EntryOf
<1>3. config[i] \in Entry
  BY <1>1
<1>4. QED
  BY <1>2, <1>3 DEF Registered, Entry

\* Accounts, proxies, rules and iso's networks keep following config.toml.
LEMMA FollowsStep ==
  ASSUME TypeOK, CreatesTyped, OneCreate, EntriesDistinct, FollowsConfig,
         [Next]_vars, Calm'
  PROVE  FollowsConfig'
<1>0. /\ config \in Seq(Entry) /\ account \in [Users -> [record : BOOLEAN, uid : Nat]]
      /\ proxy \in [Users -> Nat] /\ rules \in Seq(Users)
      /\ create \in [Creators -> CreateState]
  BY DEF TypeOK, CreatesTyped
<1>1. /\ Len(config) <= Len(config') /\ Len(config) \in Nat /\ Len(config') \in Nat
      /\ \A i \in DOMAIN config : i \in DOMAIN config' /\ config'[i] = config[i]
      /\ \A n, uid : Registered(config, n, uid) => Registered(config', n, uid)
  <2>1. config' \in Seq(Entry)
    BY TypedStep DEF TypeOK
  <2>2. QED
    BY <1>0, <2>1, ConfigGrows, EntriesKept
<1>2. ASSUME NEW n \in Users, account'[n].uid # 0, account'[n] # account[n]
      PROVE  Registered(config', n, account'[n].uid)
  <2>1. CASE \E c \in Creators : MakeRecord(c)
    <3>1. PICK c \in Creators : MakeRecord(c)
      BY <2>1
    <3>2. account'[n].uid = account[n].uid
      <4>1. create[c].name \in Users
        BY <3>1 DEF MakeRecord, CreatesTyped
      <4>2. \/ account' = [account EXCEPT ![create[c].name].record = TRUE]
            \/ UNCHANGED account
        BY <3>1 DEF MakeRecord
      <4>3. \A m \in Users : [account[m] EXCEPT !.record = TRUE].uid = account[m].uid
        BY <1>0
      <4>4. QED
        BY <1>0, <4>1, <4>2, <4>3
    <3>3. QED
      BY <1>1, <1>2, <3>2 DEF FollowsConfig
  <2>2. CASE \E c \in Creators : SetUid(c)
    <3>1. PICK c \in Creators : SetUid(c)
      BY <2>2
    <3>2. n = create[c].name /\ account'[n].uid = EntryOf(c).uid
      BY <1>0, <1>2, <3>1 DEF SetUid, CreatedUid
    <3>3. Registered(config, n, account'[n].uid)
      BY <3>1, <3>2, CreateRegistered DEF SetUid
    <3>4. UNCHANGED config
      BY <3>1 DEF SetUid
    <3>5. QED
      BY <3>3, <3>4 DEF Registered
  <2>3. ASSUME NEW m \in Users, Delete(m)
        PROVE  FALSE
    BY <1>0, <1>2, <2>3 DEF Delete, NoAccount
  <2>4. CASE UNCHANGED account
    BY <1>2, <2>4
  <2>5. QED
    BY <2>1, <2>2, <2>3, <2>4
    DEF Next, CreateStep, vars, StartCreate, Enter, MakeNetwork, Interrupt, LoadRules,
      OperatorInserts, OperatorRemoves, Edit, StartProxy, StopProxy,
      UserCreatesNetwork, UserDeletesNetwork
<1>3. ASSUME NEW n \in Users, proxy'[n] # 0, proxy'[n] # proxy[n]
      PROVE  Registered(config', n, proxy'[n])
  <2>1. ASSUME NEW m \in Users, StartProxy(m)
        PROVE  Registered(config', n, proxy'[n])
    <3>1. n = m /\ proxy'[n] = account[n].uid /\ account[n].uid # 0
      BY <1>0, <1>3, <2>1 DEF StartProxy, HasUid
    <3>2. Registered(config, n, proxy'[n])
      BY <3>1 DEF FollowsConfig
    <3>3. UNCHANGED config
      BY <2>1 DEF StartProxy
    <3>4. QED
      BY <3>2, <3>3 DEF Registered
  <2>2. ASSUME NEW m \in Users, StopProxy(m)
        PROVE  FALSE
    BY <1>0, <1>3, <2>2 DEF StopProxy
  <2>3. CASE UNCHANGED proxy
    BY <1>3, <2>3
  <2>4. QED
    BY <2>1, <2>2, <2>3
    DEF Next, CreateStep, vars, StartCreate, Enter, MakeRecord, SetUid, MakeNetwork,
      Interrupt, Delete, LoadRules, OperatorInserts, OperatorRemoves, Edit,
      UserCreatesNetwork, UserDeletesNetwork
<1>4. Len(rules') <= Len(config') /\ \A i \in DOMAIN rules' : rules'[i] = config'[i].name
  <2>1. CASE LoadRules
    <3>1. rules' = [i \in 1 .. Len(config) |-> config[i].name] /\ UNCHANGED config
      BY <1>0, <2>1 DEF LoadRules, NamesOf
    <3>2. QED
      BY <1>1, <3>1
  <2>2. CASE UNCHANGED rules
    <3>1. DOMAIN rules = 1 .. Len(rules) /\ Len(rules) \in Nat
          /\ DOMAIN config = 1 .. Len(config)
      BY <1>0
    <3>2. QED
      BY <1>1, <2>2, <3>1 DEF FollowsConfig
  <2>3. QED
    BY <2>1, <2>2
    DEF Next, CreateStep, vars, StartCreate, Enter, MakeRecord, SetUid, MakeNetwork,
      Interrupt, Delete, OperatorInserts, OperatorRemoves, Edit, StartProxy, StopProxy,
      UserCreatesNetwork, UserDeletesNetwork
<1>5. ASSUME NEW net \in networks', net.maker = Administrator
      PROVE  \E i \in DOMAIN config' :
               net.name = NetName(config'[i].name) /\ net.subnet = i - 1
  <2>1. CASE net \in networks
    <3>1. PICK i \in DOMAIN config :
            net.name = NetName(config[i].name) /\ net.subnet = i - 1
      BY <1>5, <2>1 DEF FollowsConfig
    <3>2. QED
      BY <1>1, <3>1
  <2>2. ASSUME NEW c \in Creators, MakeNetwork(c), net \notin networks
        PROVE  \E i \in DOMAIN config :
                 net.name = NetName(config[i].name) /\ net.subnet = i - 1
    <3>1. create[c].users = config /\ Has(config, create[c].name)
      BY <2>2 DEF MakeNetwork, OneCreate, Running, CreatesTyped
    <3>2. net.name = NetName(create[c].name) /\ net.subnet = Subnet(config, create[c].name)
      BY <2>2, <3>1 DEF MakeNetwork
    <3>3. QED
      BY <1>0, <3>1, <3>2, SubnetOf
  <2>3. ASSUME NEW n \in Users, NEW body \in Bodies, UserCreatesNetwork(n, body)
        PROVE  net \in networks
    <3>1. CheckNetworkCreate(body, n).status = 200
          /\ networks' = networks \cup
               {[name |-> CheckNetworkCreate(body, n).body.name,
                 maker |-> CheckNetworkCreate(body, n).owner,
                 subnet |-> CheckNetworkCreate(body, n).body.subnet]}
      BY <2>3 DEF UserCreatesNetwork
    <3>2. CheckNetworkCreate(body, n).owner = n
      BY <3>1 DEF CheckNetworkCreate, Refused, Forwarded
    <3>3. n # Administrator
      BY ProvisioningAssumption
    <3>4. QED
      BY <1>5, <3>1, <3>2, <3>3
  <2>4. ASSUME NEW c \in Creators, MakeNetwork(c)
        PROVE  UNCHANGED config
    BY <2>4 DEF MakeNetwork
  <2>5. CASE networks' \subseteq networks
    BY <2>1, <2>5
  <2>6. QED
    BY <2>1, <2>2, <2>3, <2>4, <2>5
    DEF Next, CreateStep, vars, StartCreate, Enter, MakeRecord, SetUid,
      Interrupt, Delete, LoadRules, OperatorInserts, OperatorRemoves, Edit, StartProxy,
      StopProxy, UserDeletesNetwork
<1>6. /\ \A n \in Users : account'[n].uid # 0 => Registered(config', n, account'[n].uid)
      /\ \A n \in Users : proxy'[n] # 0 => Registered(config', n, proxy'[n])
  BY <1>1, <1>2, <1>3 DEF FollowsConfig
<1>7. QED
  BY <1>4, <1>5, <1>6 DEF FollowsConfig, Registered

\* Unless a create ends between the record and its UID, no other step leaves an
\* account without one.
LEMMA FinishedStep ==
  ASSUME TypeOK, CreatesTyped, OneCreate, Finished, [Next]_vars, past' = {}
  PROVE  Finished'
<1>0. /\ account \in [Users -> [record : BOOLEAN, uid : Nat]]
      /\ create \in [Creators -> CreateState] /\ NoAccount \in [record : BOOLEAN, uid : Nat]
      /\ \A n \in Users : account[n].uid # 0 => account[n].record
      /\ \A c \in Creators : create[c].pc # "idle" => create[c].name \in Users
      /\ past = {}
  BY PastGrows DEF TypeOK, CreatesTyped, NoAccount
<1> USE DEF Finished
<1>1. ASSUME NEW c \in Creators, NEW n \in Users, StartCreate(c, n)
      PROVE  Finished'
  <2>1. /\ create[c].pc = "idle" /\ create'[c].pc = "loaded" /\ UNCHANGED account
        /\ \A d \in Creators : d # c => create'[d] = create[d]
    BY <1>0, <1>1 DEF StartCreate
  <2>2. QED
    BY <2>1
<1>2. ASSUME NEW c \in Creators, Enter(c)
      PROVE  Finished'
  <2>1. create[c].pc = "loaded" /\ UNCHANGED account
    BY <1>2 DEF Enter
  <2>2. create'[c].pc \in {"account", "idle"}
        /\ \A d \in Creators : d # c => create'[d] = create[d]
    <3>1. CASE Stop(c)
      BY <1>0, <3>1 DEF Stop, Idle
    <3>2. CASE Step(c, "account")
      BY <1>0, <3>2 DEF Step, CreateState
    <3>3. ASSUME NEW e, create' = [create EXCEPT ![c].pc = "account", ![c].users = Append(@, e)]
          PROVE  create'[c].pc \in {"account", "idle"}
                 /\ \A d \in Creators : d # c => create'[d] = create[d]
      BY <1>0, <3>3 DEF CreateState
    <3>4. QED
      BY <1>2, <3>1, <3>2, <3>3 DEF Enter
  <2>3. QED
    BY <2>1, <2>2
<1>3. ASSUME NEW c \in Creators, MakeRecord(c)
      PROVE  Finished'
  <2> DEFINE n == create[c].name
  <2>1. create[c].pc = "account" /\ n \in Users
        /\ \A d \in Creators : create[d].pc # "idle" => d = c
    BY <1>0, <1>3 DEF MakeRecord, OneCreate, Running
  <2>2. ASSUME account[n] = NoAccount,
               account' = [account EXCEPT ![n].record = TRUE], Step(c, "uid")
        PROVE  Finished'
    <3>1. /\ create'[c].pc = "uid" /\ create'[c].name = n
          /\ \A d \in Creators : d # c => create'[d] = create[d]
      BY <1>0, <2>2 DEF Step, CreateState
    <3>2. \A m \in Users : m # n => account'[m] = account[m]
      BY <1>0, <2>2
    <3>3. QED
      BY <2>1, <3>1, <3>2
  <2>3. ASSUME account[n] # NoAccount, UNCHANGED account, Step(c, "network")
        PROVE  Finished'
    <3>1. /\ create'[c].pc = "network" /\ create'[c].name = n
          /\ \A d \in Creators : d # c => create'[d] = create[d]
      BY <1>0, <2>3 DEF Step, CreateState
    <3>2. account[n].uid # 0
      <4>1. SUFFICES ASSUME account[n].uid = 0 PROVE FALSE
        OBVIOUS
      <4>2. account[n].record = TRUE
        BY <1>0, <2>1, <2>3, <4>1 DEF NoAccount
      <4>3. QED
        BY <2>1, <4>1, <4>2
    <3>3. QED
      BY <2>1, <2>3, <3>1, <3>2
  <2>4. QED
    BY <1>3, <2>2, <2>3 DEF MakeRecord
<1>4. ASSUME NEW c \in Creators, SetUid(c)
      PROVE  Finished'
  <2> DEFINE n == create[c].name
  <2>1. create[c].pc = "uid" /\ n \in Users /\ CreatedUid(c) # 0
        /\ \A d \in Creators : create[d].pc # "idle" => d = c
    BY <1>0, <1>4 DEF SetUid, OneCreate, Running, CreatesTyped, CreatedUid
  <2>2. /\ create'[c].pc = "network" /\ create'[c].name = n
        /\ \A d \in Creators : d # c => create'[d] = create[d]
    BY <1>0, <1>4 DEF SetUid, Step, CreateState
  <2>3. account'[n].uid # 0 /\ \A m \in Users : m # n => account'[m] = account[m]
    BY <1>0, <1>4, <2>1 DEF SetUid
  <2>4. QED
    BY <2>1, <2>2, <2>3
<1>5. ASSUME NEW c \in Creators, MakeNetwork(c) \/ Interrupt(c)
      PROVE  Finished'
  <2>1. create' = [create EXCEPT ![c] = Idle] /\ UNCHANGED account
        /\ create[c].pc # "uid"
    BY <1>5 DEF MakeNetwork, Interrupt, Stop
  <2>2. create'[c].pc = "idle" /\ \A d \in Creators : d # c => create'[d] = create[d]
    BY <1>0, <2>1 DEF Idle
  <2>3. QED
    BY <2>1, <2>2
<1>6. ASSUME NEW n \in Users, Delete(n)
      PROVE  Finished'
  <2>1. Running = {} /\ UNCHANGED create
    BY <1>6 DEF Delete
  <2>2. \A m \in Users : account'[m] = account[m] \/ account'[m] = NoAccount
    BY <1>0, <1>6 DEF Delete
  <2>3. QED
    BY <2>1, <2>2 DEF Running, NoAccount
<1>7. CASE UNCHANGED <<account, create>>
  BY <1>7
<1>8. QED
  BY <1>1, <1>2, <1>3, <1>4, <1>5, <1>6, <1>7
  DEF Next, CreateStep, vars, LoadRules, OperatorInserts, OperatorRemoves, Edit,
    StartProxy, StopProxy, UserCreatesNetwork, UserDeletesNetwork

\* The invariant holds in every reachable state.
LEMMA ProvInvariant == Spec => []ProvInv
<1>1. Init => OneCreate /\ EntriesDistinct /\ FollowsConfig /\ Finished
  BY DEF Init, OneCreate, EntriesDistinct, FollowsConfig, Finished, Running, Idle,
    NoAccount, Readable
<1>2. ProvInv /\ [Next]_vars => ProvInv'
  <2> SUFFICES ASSUME ProvInv, [Next]_vars PROVE ProvInv'
    OBVIOUS
  <2>1. TypeOK' /\ CreatesTyped'
    BY TypedStep DEF ProvInv
  <2>2. ASSUME Calm' PROVE OneCreate' /\ EntriesDistinct' /\ FollowsConfig'
    <3>1. OneCreate /\ EntriesDistinct /\ FollowsConfig
      BY <2>2, PastGrows DEF ProvInv
    <3>2. QED
      BY <2>2, <3>1, OneCreateStep, ConfigGrows, EntriesKept, FollowsStep DEF ProvInv
  <2>3. ASSUME past' = {} PROVE Finished'
    <3>1. past = {} /\ OneCreate /\ Finished
      BY <2>3, PastGrows DEF ProvInv, Calm
    <3>2. QED
      BY <2>3, <3>1, FinishedStep DEF ProvInv
  <2>4. QED
    BY <2>1, <2>2, <2>3 DEF ProvInv
<1>3. QED
  BY <1>1, <1>2, TypedInvariant, PTL DEF Spec, ProvInv

-----------------------------------------------------------------------------
(* The theorems                                                             *)

\* As long as nothing is changed behind its back, iso gives no UID twice, for
\* any users, creates, deletes and interruptions (next_uid, add_user_to_config).
THEOREM UidsAreUniqueHolds == Spec => []UidsAreUnique
<1>1. ProvInv => UidsAreUnique
  <2> SUFFICES ASSUME ProvInv, Calm PROVE DistinctUids
    BY DEF UidsAreUnique, Calm
  <2>1. EntriesDistinct /\ FollowsConfig
    BY DEF ProvInv
  <2>2. ASSUME NEW m \in Users, NEW n \in Users,
               HasUid(m), account[m].uid = account[n].uid
        PROVE  m = n
    <3>1. PICK i \in DOMAIN config : config[i] = [name |-> m, uid |-> account[m].uid]
      BY <2>1, <2>2 DEF FollowsConfig, HasUid, Registered
    <3>2. PICK j \in DOMAIN config : config[j] = [name |-> n, uid |-> account[n].uid]
      BY <2>1, <2>2 DEF FollowsConfig, HasUid, Registered
    <3>3. config[i].uid = config[j].uid /\ config[i].uid # 0
      BY <2>2, <3>1, <3>2 DEF HasUid
    <3>4. i = j
      BY <2>1, <3>3 DEF EntriesDistinct
    <3>5. config[i].name = m /\ config[j].name = n
      BY <3>1, <3>2
    <3>6. QED
      BY <3>4, <3>5
  <2>3. QED
    BY <2>1, <2>2 DEF DistinctUids, EntriesDistinct
<1>2. QED
  BY <1>1, ProvInvariant, PTL

\* Two users' networks have different names.
LEMMA NetNames ==
  ASSUME NEW m \in Users, NEW n \in Users, NetName(m) = NetName(n)
  PROVE  m = n
<1>1. m \in Seq(STRING) /\ n \in Seq(STRING)
  BY ProvisioningAssumption
<1>2. \A S : \A p, s, t \in Seq(S) : p \o s = p \o t => s = t
  <2> SUFFICES ASSUME NEW S, NEW p \in Seq(S), NEW s \in Seq(S), NEW t \in Seq(S),
                      p \o s = p \o t
               PROVE  s = t
    OBVIOUS
  <2>1. Len(p) + Len(s) = Len(p) + Len(t)
    BY ConcatProperties
  <2>2. Len(s) = Len(t)
    BY <2>1
  <2>3. ASSUME NEW i \in 1 .. Len(s) PROVE s[i] = t[i]
    <3>1. /\ Len(p) + i \in 1 .. Len(p) + Len(s) /\ ~(Len(p) + i <= Len(p))
          /\ Len(p) + i - Len(p) = i
      OBVIOUS
    <3>2. (p \o s)[Len(p) + i] = s[i] /\ (p \o t)[Len(p) + i] = t[i]
      BY <2>2, <3>1, ConcatProperties
    <3>3. QED
      BY <3>2
  <2>4. QED
    BY <2>2, <2>3, SeqEqual
<1>3. <<"iso", "-">> \in Seq(STRING)
  BY PrefixIsSeq
<1>4. QED
  BY <1>1, <1>2, <1>3, Zenon DEF NetName

\* The rules that iso pf wrote for a user are about the subnet of the network
\* that iso made for it, however long ago (user_subnet).
THEOREM RulesFollowNetworksHolds == Spec => []RulesFollowNetworks
<1>1. ProvInv => RulesFollowNetworks
  <2> SUFFICES ASSUME ProvInv, Calm, NEW net \in networks, NEW i \in DOMAIN rules,
                      net.maker = Administrator, net.name = NetName(rules[i])
               PROVE  net.subnet = i - 1
    BY DEF RulesFollowNetworks, SubnetsFollowUsers, Calm
  <2>1. /\ EntriesDistinct /\ FollowsConfig
        /\ config \in Seq(Entry) /\ rules \in Seq(Users)
    BY DEF ProvInv, TypeOK
  <2>2. i \in DOMAIN config /\ rules[i] = config[i].name /\ rules[i] \in Users
    BY <2>1 DEF FollowsConfig
  <2>3. PICK j \in DOMAIN config : net.name = NetName(config[j].name) /\ net.subnet = j - 1
    BY <2>1 DEF FollowsConfig
  <2>4. config[j] \in Entry
    BY <2>1
  <2>5. config[j].name \in Users
    BY <2>4 DEF Entry
  <2>6. config[j].name = config[i].name
    BY <2>2, <2>3, <2>5, NetNames
  <2>7. QED
    BY <2>1, <2>2, <2>3, <2>6 DEF EntriesDistinct, Readable
<1>2. QED
  BY <1>1, ProvInvariant, PTL

\* On its Unix socket a proxy serves its user and nobody else, root only when the
\* peer's UID cannot be had (peerUIDListener.Accept, resolveUID).
THEOREM SocketServesOnlyItsUserHolds == Spec => []SocketServesOnlyItsUser
<1>1. ProvInv => SocketServesOnlyItsUser
  <2> SUFFICES ASSUME ProvInv, Calm, NEW n \in Users, NEW p \in Principals,
                      NEW peer \in GetPeerUID(p[2]), proxy[n] # 0
               PROVE  Served(p, peer, n) <=> p[1] = n \/ (p[2] = Root /\ peer = {})
    BY DEF SocketServesOnlyItsUser, SocketServes, Calm
  <2>1. EntriesDistinct /\ FollowsConfig
    BY DEF ProvInv
  <2>2. PICK i \in DOMAIN config : config[i] = [name |-> n, uid |-> proxy[n]]
    BY <2>1 DEF FollowsConfig, Registered
  <2>3. ASSUME NEW m \in Users, HasUid(m)
        PROVE  account[m].uid = proxy[n] <=> m = n
    <3>1. PICK j \in DOMAIN config : config[j] = [name |-> m, uid |-> account[m].uid]
      BY <2>1, <2>3 DEF FollowsConfig, HasUid, Registered
    <3>2. /\ config[i].name = n /\ config[i].uid = proxy[n]
          /\ config[j].name = m /\ config[j].uid = account[m].uid
      BY <2>2, <3>1
    <3>3. QED
      BY <2>1, <3>2 DEF EntriesDistinct, Readable
  <2>4. CASE \E m \in Users : HasUid(m) /\ p = <<m, account[m].uid>>
    <3>1. PICK m \in Users : HasUid(m) /\ p = <<m, account[m].uid>>
      BY <2>4
    <3>2. p[1] = m /\ p[2] = account[m].uid /\ p[2] # Root
      BY <3>1 DEF HasUid, Root
    <3>3. Served(p, peer, n) <=> p[2] = proxy[n]
      BY <3>2 DEF Served, MayConnect, Admits, GetPeerUID
    <3>4. QED
      BY <2>3, <3>1, <3>2, <3>3
  <2>5. CASE p = <<Administrator, Root>>
    <3>1. p[1] # n /\ p[2] = Root
      BY <2>5, ProvisioningAssumption
    <3>2. Served(p, peer, n) <=> peer = {}
      BY <3>1 DEF Served, MayConnect, Admits, GetPeerUID, Root
    <3>3. QED
      BY <3>1, <3>2
  <2>6. QED
    BY <2>4, <2>5 DEF Principals
<1>2. QED
  BY <1>1, ProvInvariant, PTL

\* A create that runs to its end leaves the account with the UID of its entry.
THEOREM DoneIsUsableHolds == Spec => DoneIsUsable
<1>1. ProvInv /\ [Next]_vars =>
        [\A c \in Creators : Completes(c) /\ ~Disturbed => LeavesAccount(c)]_vars
  <2> SUFFICES ASSUME ProvInv, NEW c \in Creators, Completes(c), ~Disturbed
               PROVE  LeavesAccount(c)
    OBVIOUS
  <2>1. OneCreate /\ EntriesDistinct /\ FollowsConfig /\ Finished
        /\ TypeOK /\ CreatesTyped
    BY DEF ProvInv, Disturbed, Calm
  <2>2. create[c].pc = "network" /\ UNCHANGED account
    BY DEF Completes, MakeNetwork
  <2>3. create[c].name \in Users /\ account[create[c].name].uid # 0
    BY <2>1, <2>2 DEF CreatesTyped, Finished
  <2>4. PICK i \in DOMAIN config :
          config[i] = [name |-> create[c].name, uid |-> EntryOf(c).uid]
    BY <2>1, <2>2, CreateRegistered DEF Registered
  <2>5. PICK j \in DOMAIN config :
          config[j] = [name |-> create[c].name, uid |-> account[create[c].name].uid]
    BY <2>1, <2>3 DEF FollowsConfig, Registered
  <2>6. config[i].name = create[c].name /\ config[j].name = create[c].name
    BY <2>4, <2>5
  <2>7. i = j
    BY <2>1, <2>6 DEF EntriesDistinct, Readable
  <2>8. EntryOf(c).uid = account[create[c].name].uid
    BY <2>4, <2>5, <2>7
  <2>9. QED
    BY <2>2, <2>8 DEF LeavesAccount
<1>2. QED
  BY <1>1, ProvInvariant, PTL DEF Spec, DoneIsUsable

-----------------------------------------------------------------------------
(* The names of networks                                                    *)

\* A prefix agrees with the sequence at every place.
LEMMA PrefixPlaces ==
  ASSUME NEW S, NEW s \in Seq(S), NEW t \in Seq(S)
  PROVE  IsPrefix(s, t) <=> Len(s) <= Len(t) /\ \A i \in 1 .. Len(s) : s[i] = t[i]
<1>1. CASE Len(s) <= Len(t)
  <2>1. /\ SubSeq(s, 1, Len(s)) \in Seq(S) /\ SubSeq(t, 1, Len(s)) \in Seq(S)
        /\ Len(SubSeq(s, 1, Len(s))) = Len(s) /\ Len(SubSeq(t, 1, Len(s))) = Len(s)
        /\ \A i \in 1 .. Len(s) : SubSeq(s, 1, Len(s))[i] = s[i]
        /\ \A i \in 1 .. Len(s) : SubSeq(t, 1, Len(s))[i] = t[i]
    BY <1>1
  <2>2. SubSeq(s, 1, Len(s)) = SubSeq(t, 1, Len(s)) <=> \A i \in 1 .. Len(s) : s[i] = t[i]
    <3>1. ASSUME \A i \in 1 .. Len(s) : s[i] = t[i]
          PROVE  SubSeq(s, 1, Len(s)) = SubSeq(t, 1, Len(s))
      BY <2>1, <3>1, SeqEqual
    <3>2. QED
      BY <2>1, <3>1
  <2>3. QED
    BY <1>1, <2>2 DEF IsPrefix
<1>2. QED
  BY <1>1 DEF IsPrefix

\* The places of w followed by h.
LEMMA FollowedBy ==
  ASSUME NEW S, NEW h \in S, NEW w \in Seq(S)
  PROVE  /\ w \o <<h>> \in Seq(S) /\ Len(w \o <<h>>) = Len(w) + 1
         /\ (w \o <<h>>)[Len(w) + 1] = h
         /\ \A k \in 1 .. Len(w) : (w \o <<h>>)[k] = w[k]
<1>1. <<h>> \in Seq(S) /\ Len(<<h>>) = 1 /\ <<h>>[1] = h
  OBVIOUS
<1> DEFINE v == <<h>>
<1>2. v \in Seq(S) /\ Len(v) = 1 /\ v[1] = h
  BY <1>1
<1> HIDE DEF v
<1>3. /\ w \o v \in Seq(S) /\ Len(w \o v) = Len(w) + 1
      /\ (w \o v)[Len(w) + 1] = h
      /\ \A k \in 1 .. Len(w) : (w \o v)[k] = w[k]
  <2>1. /\ w \o v \in Seq(S) /\ Len(w \o v) = Len(w) + Len(v)
        /\ \A i \in 1 .. Len(w) + Len(v) :
             (w \o v)[i] = IF i <= Len(w) THEN w[i] ELSE v[i - Len(w)]
    BY <1>2, ConcatProperties
  <2>2. Len(w) \in Nat
    OBVIOUS
  <2>3. Len(w) + 1 \in 1 .. Len(w) + Len(v)
    BY <1>2, <2>2
  <2>4. \A k \in 1 .. Len(w) : k \in 1 .. Len(w) + Len(v)
    BY <1>2, <2>2
  <2>5. QED
    BY <1>2, <2>1, <2>2, <2>3, <2>4
<1>4. QED
  BY <1>3 DEF v

\* A sequence that has s followed by h as a prefix, or s alone.
LEMMA StartsWith ==
  ASSUME NEW S, NEW h \in S, NEW s \in Seq(S), NEW t \in Seq(S)
  PROVE  IsPrefix(s \o <<h>>, t) <=>
           Len(s) < Len(t) /\ t[Len(s) + 1] = h /\ \A k \in 1 .. Len(s) : t[k] = s[k]
<1> DEFINE v == s \o <<h>>
<1>1. /\ v \in Seq(S) /\ Len(v) = Len(s) + 1 /\ v[Len(s) + 1] = h
      /\ \A k \in 1 .. Len(s) : v[k] = s[k]
  BY FollowedBy
<1> HIDE DEF v
<1>2. IsPrefix(v, t) <=> Len(v) <= Len(t) /\ \A i \in 1 .. Len(v) : v[i] = t[i]
  BY <1>1, PrefixPlaces
<1>3. Len(s) \in Nat /\ Len(t) \in Nat
  OBVIOUS
<1>4. (\A i \in 1 .. Len(v) : v[i] = t[i])
        <=> t[Len(s) + 1] = h /\ \A k \in 1 .. Len(s) : t[k] = s[k]
  <2>1. \A i : i \in 1 .. Len(v) <=> i \in 1 .. Len(s) \/ i = Len(s) + 1
    BY <1>1, <1>3
  <2>2. QED
    BY <1>1, <2>1
<1>5. QED
  BY <1>1, <1>2, <1>3, <1>4 DEF v

\* What a name of the form p, u or p, u, h, ... says of u.
LEMMA NameOfPlaces ==
  ASSUME NEW S, NEW h \in S, NEW p \in Seq(S), NEW u \in Seq(S), NEW name \in Seq(S),
         name = p \o u \/ IsPrefix((p \o u) \o <<h>>, name)
  PROVE  /\ Len(name) >= Len(p) + Len(u)
         /\ \A k \in 1 .. Len(p) : name[k] = p[k]
         /\ \A k \in 1 .. Len(u) : name[Len(p) + k] = u[k]
         /\ Len(name) > Len(p) + Len(u) => name[Len(p) + Len(u) + 1] = h
<1> DEFINE w == p \o u
<1>1. /\ w \in Seq(S) /\ Len(w) = Len(p) + Len(u)
      /\ \A k \in 1 .. Len(p) : w[k] = p[k]
      /\ \A k \in 1 .. Len(u) : w[Len(p) + k] = u[k]
  OBVIOUS
<1>2. Len(p) \in Nat /\ Len(u) \in Nat /\ Len(name) \in Nat
  OBVIOUS
<1>3. name = w \/ IsPrefix(w \o <<h>>, name)
  OBVIOUS
<1> HIDE DEF w
<1>4. CASE name = w
  BY <1>1, <1>2, <1>4
<1>5. CASE IsPrefix(w \o <<h>>, name)
  <2>1. Len(w) < Len(name) /\ name[Len(w) + 1] = h
        /\ \A k \in 1 .. Len(w) : name[k] = w[k]
    <3>1. w \in Seq(S)
      BY <1>1
    <3>2. QED
      BY <1>5, <3>1, StartsWith
  <2>2. \A k \in 1 .. Len(p) : k \in 1 .. Len(w)
    BY <1>1, <1>2
  <2>3. \A k \in 1 .. Len(u) : Len(p) + k \in 1 .. Len(w)
    BY <1>1, <1>2
  <2>4. QED
    BY <1>1, <1>2, <2>1, <2>2, <2>3
<1>6. QED
  BY <1>3, <1>4, <1>5

\* So a name belongs to one u, unless one is another followed by h.
LEMMA OneNameOf ==
  ASSUME NEW S, NEW h \in S, NEW p \in Seq(S), NEW m \in Seq(S), NEW n \in Seq(S),
         NEW name \in Seq(S),
         name = p \o m \/ IsPrefix((p \o m) \o <<h>>, name),
         name = p \o n \/ IsPrefix((p \o n) \o <<h>>, name),
         ~IsPrefix(n \o <<h>>, m), ~IsPrefix(m \o <<h>>, n)
  PROVE  m = n
<1>0. ASSUME NEW u \in Seq(S), name = p \o u \/ IsPrefix((p \o u) \o <<h>>, name)
      PROVE  /\ Len(name) >= Len(p) + Len(u)
             /\ \A k \in 1 .. Len(u) : name[Len(p) + k] = u[k]
             /\ Len(name) > Len(p) + Len(u) => name[Len(p) + Len(u) + 1] = h
  BY <1>0, NameOfPlaces
<1>1. \A u, v \in Seq(S) :
        /\ name = p \o u \/ IsPrefix((p \o u) \o <<h>>, name)
        /\ name = p \o v \/ IsPrefix((p \o v) \o <<h>>, name)
        /\ Len(u) < Len(v)
        => IsPrefix(u \o <<h>>, v)
  <2> SUFFICES ASSUME NEW u \in Seq(S), NEW v \in Seq(S),
                      name = p \o u \/ IsPrefix((p \o u) \o <<h>>, name),
                      name = p \o v \/ IsPrefix((p \o v) \o <<h>>, name),
                      Len(u) < Len(v)
               PROVE  IsPrefix(u \o <<h>>, v)
    OBVIOUS
  <2>1. /\ Len(name) >= Len(p) + Len(u)
        /\ \A k \in 1 .. Len(u) : name[Len(p) + k] = u[k]
        /\ Len(name) > Len(p) + Len(u) => name[Len(p) + Len(u) + 1] = h
    BY <1>0
  <2>2. Len(name) >= Len(p) + Len(v) /\ \A k \in 1 .. Len(v) : name[Len(p) + k] = v[k]
    BY <1>0
  <2>3. Len(p) \in Nat /\ Len(u) \in Nat /\ Len(v) \in Nat /\ Len(name) \in Nat
    OBVIOUS
  <2>4. v[Len(u) + 1] = h
    <3>1. Len(u) + 1 \in 1 .. Len(v) /\ Len(p) + (Len(u) + 1) = Len(p) + Len(u) + 1
          /\ Len(name) > Len(p) + Len(u)
      BY <2>2, <2>3
    <3> DEFINE k == Len(u) + 1
    <3>2. name[Len(p) + k] = v[k]
      BY <2>2, <3>1
    <3>3. QED
      BY <2>1, <3>1, <3>2
  <2>5. \A k \in 1 .. Len(u) : v[k] = u[k]
    <3>1. \A k \in 1 .. Len(u) : k \in 1 .. Len(v)
      BY <2>3
    <3>2. QED
      BY <2>1, <2>2, <3>1
  <2>6. QED
    BY <2>4, <2>5, StartsWith
<1>2. Len(m) = Len(n)
  BY <1>1
<1>3. \A k \in 1 .. Len(m) : name[Len(p) + k] = m[k]
  BY <1>0
<1>4. \A k \in 1 .. Len(n) : name[Len(p) + k] = n[k]
  BY <1>0
<1>5. \A k \in 1 .. Len(m) : m[k] = n[k]
  BY <1>2, <1>3, <1>4
<1>6. QED
  BY <1>2, <1>5, SeqEqual

\* A name of this form has p as a prefix.
LEMMA NameBegins ==
  ASSUME NEW S, NEW h \in S, NEW p \in Seq(S), NEW u \in Seq(S), NEW name \in Seq(S),
         name = p \o u \/ IsPrefix((p \o u) \o <<h>>, name)
  PROVE  IsPrefix(p, name)
<1>1. Len(name) >= Len(p) + Len(u) /\ \A k \in 1 .. Len(p) : name[k] = p[k]
  BY NameOfPlaces
<1>2. Len(name) \in Nat /\ Len(p) \in Nat /\ Len(u) \in Nat
  OBVIOUS
<1>3. QED
  BY <1>1, <1>2, PrefixPlaces

\* The name p, n itself belongs to no u that is n followed by h.
LEMMA NotOfLonger ==
  ASSUME NEW S, NEW h \in S, NEW p \in Seq(S), NEW m \in Seq(S), NEW n \in Seq(S),
         p \o n = p \o m \/ IsPrefix((p \o m) \o <<h>>, p \o n)
  PROVE  ~IsPrefix(n \o <<h>>, m)
<1> DEFINE name == p \o n
<1>1. name \in Seq(S) /\ Len(name) = Len(p) + Len(n)
  OBVIOUS
<1>2. name = p \o m \/ IsPrefix((p \o m) \o <<h>>, name)
  OBVIOUS
<1> HIDE DEF name
<1>3. Len(name) >= Len(p) + Len(m)
  BY <1>1, <1>2, NameOfPlaces
<1>4. Len(p) \in Nat /\ Len(m) \in Nat /\ Len(n) \in Nat
  OBVIOUS
<1>5. IsPrefix(n \o <<h>>, m) => Len(n) < Len(m)
  BY StartsWith
<1>6. QED
  BY <1>1, <1>3, <1>4, <1>5

\* What a proxy lets through has a name its user may use.
MakersAllowed ==
  \A net \in networks :
    net.maker = Administrator \/ (net.maker \in Users /\ NameAllowed(net.name, net.maker))

\* CheckNetworkCreate lets nothing else through.
LEMMA MakersStep == MakersAllowed /\ [Next]_vars => MakersAllowed'
<1> SUFFICES ASSUME MakersAllowed, [Next]_vars PROVE MakersAllowed'
  OBVIOUS
<1>1. ASSUME NEW c \in Creators, MakeNetwork(c)
      PROVE  MakersAllowed'
  BY <1>1 DEF MakeNetwork, MakersAllowed
<1>2. ASSUME NEW n \in Users, NEW body \in Bodies, UserCreatesNetwork(n, body)
      PROVE  MakersAllowed'
  <2>1. CheckNetworkCreate(body, n).status = 200
        /\ networks' = networks \cup
             {[name |-> CheckNetworkCreate(body, n).body.name,
               maker |-> CheckNetworkCreate(body, n).owner,
               subnet |-> CheckNetworkCreate(body, n).body.subnet]}
    BY <1>2 DEF UserCreatesNetwork
  <2>2. Permitted(body, n)
        /\ CheckNetworkCreate(body, n) = [status |-> 200, body |-> body, owner |-> n]
    BY <2>1 DEF CheckNetworkCreate, Refused, Forwarded
  <2>3. NameAllowed(body.name, n)
    BY <2>2 DEF Permitted
  <2> DEFINE made == [name |-> body.name, maker |-> n, subnet |-> body.subnet]
  <2>4. networks' = networks \cup {made} /\ made.maker = n /\ made.name = body.name
    BY <2>1, <2>2
  <2> HIDE DEF made
  <2>5. QED
    BY <2>3, <2>4 DEF MakersAllowed
<1>3. CASE networks' \subseteq networks
  BY <1>3 DEF MakersAllowed
<1>4. QED
  BY <1>1, <1>2, <1>3
  DEF Next, CreateStep, vars, StartCreate, Enter, MakeRecord, SetUid, Interrupt, Delete,
    LoadRules, OperatorInserts, OperatorRemoves, Edit, StartProxy, StopProxy,
    UserDeletesNetwork

\* Whatever names the users have, a name below iso-<user> is used by iso, by the
\* user, or by one whose name and this one continue each other after a hyphen
\* (CheckNetworkCreate, validate_username).
THEOREM NamesAreReservedHolds == Spec => []NamesAreReserved
<1>1. TypeOK /\ MakersAllowed => NamesAreReserved
  <2> SUFFICES ASSUME TypeOK, MakersAllowed, NEW net \in networks, NEW n \in Users,
                      IsNameOf(net.name, n), net.maker # Administrator
               PROVE  \/ net.maker = n
                      \/ Continues(n, net.maker)
                      \/ Continues(net.maker, n) /\ net.name # NetName(n)
    BY DEF NamesAreReserved
  <2> DEFINE m == net.maker
             p == <<"iso", "-">>
  <2>1. m \in Users /\ NameAllowed(net.name, m)
    BY DEF MakersAllowed
  <2>2. /\ m \in Seq(STRING) /\ n \in Seq(STRING) /\ net.name \in Seq(STRING)
        /\ p \in Seq(STRING) /\ "-" \in STRING
    BY <2>1, ProvisioningAssumption, PrefixAssumption, PrefixIsSeq DEF TypeOK, Network
  <2>3. net.name = p \o n \/ IsPrefix((p \o n) \o <<"-">>, net.name)
    BY DEF IsNameOf, NetName
  <2>4. IsPrefix(p, net.name)
    <3> HIDE DEF p
    <3>1. QED
      BY <2>2, <2>3, NameBegins, Zenon
  <2>5. net.name = p \o m \/ IsPrefix((p \o m) \o <<"-">>, net.name)
    BY <2>1, <2>4 DEF NameAllowed, NetName
  <2> HIDE DEF p, m
  <2>6. m = n \/ IsPrefix(n \o <<"-">>, m) \/ IsPrefix(m \o <<"-">>, n)
    BY <2>2, <2>3, <2>5, OneNameOf, Zenon
  <2>7. net.name = p \o n => ~IsPrefix(n \o <<"-">>, m)
    BY <2>2, <2>5, NotOfLonger, Zenon
  <2>8. QED
    BY <2>6, <2>7 DEF Continues, NetName, m, p
<1>2. Init => MakersAllowed
  BY DEF Init, MakersAllowed
<1>3. QED
  BY <1>1, <1>2, MakersStep, TypedInvariant, PTL DEF Spec

-----------------------------------------------------------------------------
(* The inductive invariant                                                  *)

\* The files a generation writes before the one at place k.
Before(k) == {FileOrder[i] : i \in 1 .. k - 1}

\* ca.pem is there before any other file, and a file before its content; what a
\* proxy has loaded has been written.
FilesInOrder ==
  /\ \A f \in Files : file[f].exists => TreeExists
  /\ \A f \in Written : file[f].exists
  /\ \A s \in Sessions :
       /\ step[s] = "open" => next[s] = 1 \/ TreeExists
       /\ step[s] = "write" => file[FileOrder[next[s]]].exists
       /\ step[s] \in {"open", "write"} => gen[s] # 0
       /\ step[s] \in {"ready", "chown"} => TreeExists

\* Sessions that do not overlap: one at a time is at the tree, it generates only
\* where there was nothing, and what it has written is its own.
Alone ==
  /\ \A s, t \in AtTree : s = t
  /\ OneAuthor
  /\ \A s \in Sessions :
       /\ step[s] = "init" => ~TreeExists
       /\ step[s] = "open" /\ next[s] = 1 => ~TreeExists
       /\ step[s] \in {"open", "write"} =>
            /\ loaded = NotRunning
            /\ Written \subseteq Before(next[s])
            /\ \A f \in Written : file[f].by = gen[s]
  /\ loaded # NotRunning =>
       /\ TreeExists /\ loaded.ca # 0 /\ loaded.server = loaded.ca
       /\ \A f \in Written : file[f].by = loaded.ca

\* If, besides, nothing failed, a tree is whole unless it is being written.
Complete ==
  /\ \A s \in Sessions :
       /\ step[s] \in {"open", "write"} => Before(next[s]) \subseteq Written
       /\ step[s] = "chown" => Written = Files
       /\ step[s] = "ready" => \A f \in Files : owner[f] = "user"
  /\ TreeExists /\ (\A s \in Sessions : step[s] \in {"idle", "ready"}) =>
       Written = Files /\ \A f \in Files : owner[f] = "user"

CertInv ==
  /\ TreeTypeOK /\ FilesInOrder
  /\ ~overlapped => Alone
  /\ ~overlapped /\ ~torn => Complete

-----------------------------------------------------------------------------
(* The order of the files                                                   *)

\* generateCerts writes every file once, ca.pem first.
LEMMA Order ==
  /\ Len(FileOrder) = 6 /\ DOMAIN FileOrder = 1 .. 6
  /\ Files = {"ca.pem", "ca.key", "server.crt", "server.key", "cert.pem", "key.pem"}
  /\ \A i \in 1 .. 6 : FileOrder[i] \in Files
  /\ FileOrder[1] = "ca.pem"
  /\ Before(1) = {} /\ Before(7) = Files
  /\ \A k \in 1 .. 6 : Before(k + 1) = Before(k) \cup {FileOrder[k]}
<1>1. Len(FileOrder) = 6 /\ DOMAIN FileOrder = 1 .. 6
  BY DEF FileOrder
<1>2. /\ FileOrder[1] = "ca.pem" /\ FileOrder[2] = "ca.key" /\ FileOrder[3] = "server.crt"
      /\ FileOrder[4] = "server.key" /\ FileOrder[5] = "cert.pem" /\ FileOrder[6] = "key.pem"
  BY DEF FileOrder
<1>3. Files = {FileOrder[i] : i \in 1 .. 6}
  BY <1>1 DEF Files
<1>4. Files = {"ca.pem", "ca.key", "server.crt", "server.key", "cert.pem", "key.pem"}
  BY <1>2, <1>3
<1>5. Before(1) = {} /\ Before(7) = Files
  BY <1>3 DEF Before
<1>6. \A k \in 1 .. 6 : Before(k + 1) = Before(k) \cup {FileOrder[k]}
  BY DEF Before
<1>7. QED
  BY <1>1, <1>2, <1>3, <1>4, <1>5, <1>6

\* No file comes before itself.
LEMMA Distinct == \A k \in 1 .. 6 : FileOrder[k] \notin Before(k)
<1>1. \A i, k \in 1 .. 6 : i < k => FileOrder[i] # FileOrder[k]
  <2>1. /\ FileOrder[1] = "ca.pem" /\ FileOrder[2] = "ca.key" /\ FileOrder[3] = "server.crt"
        /\ FileOrder[4] = "server.key" /\ FileOrder[5] = "cert.pem" /\ FileOrder[6] = "key.pem"
    BY DEF FileOrder
  <2>2. \A i \in 1 .. 6 : i \in {1, 2, 3, 4, 5, 6}
    OBVIOUS
  <2>3. QED
    BY <2>1, <2>2
<1>2. QED
  BY <1>1 DEF Before

-----------------------------------------------------------------------------
(* Type correctness                                                         *)

\* Every variable keeps its type.
THEOREM TreeTypeCorrect == TreeSpec => []TreeTypeOK
<1>1. TreeInit => TreeTypeOK
  <2> SUFFICES ASSUME TreeInit PROVE TreeTypeOK
    OBVIOUS
  <2>1. [exists |-> FALSE, by |-> Unusable] \in [exists : BOOLEAN, by : Generations \cup {Unusable}]
    OBVIOUS
  <2>2. loaded \in [ca : Generations \cup {0}, server : Generations \cup {0}]
    BY DEF TreeInit, NotRunning
  <2>3. generations \in 0 .. MaxGenerations /\ faults \in 0 .. MaxFaults
    BY CertTreeAssumption DEF TreeInit
  <2>4. 1 \in DOMAIN FileOrder
    BY Order
  <2>5. QED
    BY <2>1, <2>2, <2>3, <2>4 DEF TreeInit, TreeTypeOK
<1>2. TreeTypeOK /\ [TreeNext]_treeVars => TreeTypeOK'
  <2> SUFFICES ASSUME TreeTypeOK, [TreeNext]_treeVars PROVE TreeTypeOK'
    OBVIOUS
  <2> USE CertTreeAssumption DEF TreeTypeOK, Go
  <2>1. ASSUME NEW s \in Sessions, EnterTree(s) PROVE TreeTypeOK'
    BY <2>1 DEF EnterTree
  <2>2. ASSUME NEW s \in Sessions, InitTLS(s) PROVE TreeTypeOK'
    BY <2>2, Order DEF InitTLS, Generations
  <2>3. ASSUME NEW s \in Sessions, OpenFile(s) PROVE TreeTypeOK'
    BY <2>3 DEF OpenFile, Unusable
  <2>4. ASSUME NEW s \in Sessions, WriteFile(s) PROVE TreeTypeOK'
    <3>1. PICK by \in Generations \cup {Unusable} :
            file' = [file EXCEPT ![FileOrder[next[s]]].by = by]
      BY <2>4 DEF WriteFile, Unusable
    <3>2. file' \in [Files -> [exists : BOOLEAN, by : Generations \cup {Unusable}]]
      <4> DEFINE FileState == [exists : BOOLEAN, by : Generations \cup {Unusable}]
                 written(f) == [file[f] EXCEPT !.by = by]
      <4>1. \A f \in Files : written(f) \in FileState
        OBVIOUS
      <4>2. \A f \in Files : file'[f] = file[f] \/ file'[f] = written(f)
        BY <3>1
      <4>3. file' = [f \in Files |-> file'[f]]
        BY <3>1
      <4>4. file \in [Files -> FileState]
        OBVIOUS
      <4> HIDE DEF FileState, written
      <4>5. \A f \in Files : file'[f] \in FileState
        BY <4>1, <4>2, <4>4
      <4>6. file' \in [Files -> FileState]
        BY <4>3, <4>5
      <4>7. QED
        BY <4>6 DEF FileState
    <3>3. next' \in [Sessions -> DOMAIN FileOrder]
      BY <2>4, Order DEF WriteFile, LastFile
    <3>4. step' \in [Sessions -> {"idle", "init", "open", "write", "chown", "ready"}]
      BY <2>4 DEF WriteFile
    <3>5. QED
      BY <2>4, <3>2, <3>3, <3>4 DEF WriteFile
  <2>5. ASSUME NEW s \in Sessions, Chown(s) PROVE TreeTypeOK'
    BY <2>5 DEF Chown
  <2>6. ASSUME NEW s \in Sessions, GiveUp(s) PROVE TreeTypeOK'
    BY <2>6 DEF GiveUp
  <2>7. ASSUME NEW s \in Sessions, Launch(s) PROVE TreeTypeOK'
    <3>1. file["ca.pem"].by \in Generations \cup {0}
          /\ file["server.crt"].by \in Generations \cup {0}
      BY Order DEF Unusable
    <3>2. QED
      BY <2>7, <3>1 DEF Launch
  <2>8. CASE ProxyEnds
    BY <2>8 DEF ProxyEnds, NotRunning, sessVars
  <2>9. CASE UNCHANGED treeVars
    BY <2>9 DEF treeVars, sessVars
  <2>10. QED
    BY <2>1, <2>2, <2>3, <2>4, <2>5, <2>6, <2>7, <2>8, <2>9 DEF TreeNext
<1>3. QED
  BY <1>1, <1>2, PTL DEF TreeSpec

-----------------------------------------------------------------------------
(* The steps on the files                                                   *)

\* ca.pem and the place of the next file are in the tree.
LEMMA Places ==
  ASSUME TreeTypeOK, NEW s \in Sessions
  PROVE  /\ "ca.pem" \in Files /\ next[s] \in 1 .. 6 /\ FileOrder[next[s]] \in Files
         /\ Before(next[s] + 1) = Before(next[s]) \cup {FileOrder[next[s]]}
  BY Order DEF TreeTypeOK

\* Opening a file makes it exist and empties it.
LEMMA Opened ==
  ASSUME TreeTypeOK, NEW s \in Sessions, OpenFile(s)
  PROVE  /\ \A f \in Files \ {FileOrder[next[s]]} : file'[f] = file[f]
         /\ file'[FileOrder[next[s]]].exists
         /\ Written' = Written \ {FileOrder[next[s]]}
<1>1. /\ file \in [Files -> [exists : BOOLEAN, by : Generations \cup {Unusable}]]
      /\ file' = [file EXCEPT ![FileOrder[next[s]]] = [exists |-> TRUE, by |-> Unusable]]
  BY DEF OpenFile, TreeTypeOK
<1>2. /\ \A f \in Files \ {FileOrder[next[s]]} : file'[f] = file[f]
      /\ file'[FileOrder[next[s]]] = [exists |-> TRUE, by |-> Unusable]
  BY <1>1, Places
<1>3. QED
  BY <1>2 DEF Written

\* Writing one changes its content only, to the session's generation when no
\* other session is at the tree.
LEMMA WrittenNext ==
  ASSUME TreeTypeOK, NEW s \in Sessions, WriteFile(s)
  PROVE  /\ \A f \in Files \ {FileOrder[next[s]]} : file'[f] = file[f]
         /\ \A f \in Files : file'[f].exists = file[f].exists
         /\ (\A t \in AtTree : t = s) => file'[FileOrder[next[s]]].by = gen[s]
<1>1. PICK by \in {gen[s]} \cup
                (IF \E t \in Sessions : WritesWith(s, t) THEN {Unusable} ELSE {}) :
        file' = [file EXCEPT ![FileOrder[next[s]]].by = by]
  BY DEF WriteFile
<1>2. file \in [Files -> [exists : BOOLEAN, by : Generations \cup {Unusable}]]
  BY DEF TreeTypeOK
<1>3. /\ \A f \in Files \ {FileOrder[next[s]]} : file'[f] = file[f]
      /\ file'[FileOrder[next[s]]].exists = file[FileOrder[next[s]]].exists
      /\ file'[FileOrder[next[s]]].by = by
  BY <1>1, <1>2, Places
<1>4. (\A t \in AtTree : t = s) => by = gen[s]
  BY <1>1 DEF WritesWith, AtTree
<1>5. QED
  BY <1>3, <1>4

\* The order of creation survives every step.
LEMMA FilesStep ==
  ASSUME TreeTypeOK, FilesInOrder, [TreeNext]_treeVars
  PROVE  FilesInOrder'
<1>0. "ca.pem" \in Files /\ step \in [Sessions -> {"idle", "init", "open", "write", "chown", "ready"}]
      /\ gen \in [Sessions -> Generations \cup {0}] /\ next \in [Sessions -> 1 .. 6]
      /\ file \in [Files -> [exists : BOOLEAN, by : Generations \cup {Unusable}]]
      /\ generations \in Nat
  BY Order, CertTreeAssumption DEF TreeTypeOK
<1> USE DEF FilesInOrder, TreeExists, Go
<1>1. ASSUME NEW s \in Sessions, EnterTree(s) PROVE FilesInOrder'
  BY <1>0, <1>1 DEF EnterTree, Written
<1>2. ASSUME NEW s \in Sessions, InitTLS(s) PROVE FilesInOrder'
  BY <1>0, <1>2 DEF InitTLS, Written
<1>3. ASSUME NEW s \in Sessions, OpenFile(s) PROVE FilesInOrder'
  <2>1. /\ \A f \in Files \ {FileOrder[next[s]]} : file'[f] = file[f]
        /\ file'[FileOrder[next[s]]].exists
        /\ Written' = Written \ {FileOrder[next[s]]}
    BY <1>3, Opened
  <2>2. FileOrder[next[s]] \in Files /\ (next[s] = 1 => FileOrder[next[s]] = "ca.pem")
    BY Order, Places
  <2>3. step[s] = "open" /\ UNCHANGED <<gen, next>> /\ step' = [step EXCEPT ![s] = "write"]
    BY <1>3 DEF OpenFile
  <2>4. TreeExists'
    BY <1>0, <2>1, <2>2, <2>3
  <2>5. \A f \in Files : file[f].exists => file'[f].exists
    BY <2>1, <2>2
  <2>6. \A f \in Written' : file'[f].exists
    BY <2>1, <2>5 DEF Written
  <2>7. \A t \in Sessions : t # s => step'[t] = step[t] /\ gen'[t] = gen[t] /\ next'[t] = next[t]
    BY <1>0, <2>3
  <2>8. \A t \in Sessions : step'[t] = "write" => file'[FileOrder[next'[t]]].exists
    BY <1>0, <2>1, <2>3, <2>5, <2>7, Places
  <2>9. QED
    BY <1>0, <2>3, <2>4, <2>6, <2>7, <2>8
<1>4. ASSUME NEW s \in Sessions, WriteFile(s) PROVE FilesInOrder'
  <2>1. /\ \A f \in Files : file'[f].exists = file[f].exists
        /\ \A f \in Files \ {FileOrder[next[s]]} : file'[f] = file[f]
    BY <1>4, WrittenNext
  <2>2. step[s] = "write" /\ FileOrder[next[s]] \in Files /\ file[FileOrder[next[s]]].exists
        /\ UNCHANGED gen
    BY <1>4, Places DEF WriteFile
  <2>3. TreeExists /\ TreeExists'
    BY <1>0, <2>1, <2>2
  <2>4. \A f \in Written' : file'[f].exists
    BY <2>1, <2>2 DEF Written
  <2>5. \A t \in Sessions : t # s => step'[t] = step[t] /\ next'[t] = next[t]
    BY <1>0, <1>4 DEF WriteFile
  <2>6. step'[s] \in {"open", "chown"}
    BY <1>0, <1>4 DEF WriteFile
  <2>7. \A t \in Sessions : step'[t] = "write" => file'[FileOrder[next'[t]]].exists
    BY <2>1, <2>5, <2>6, Places
  <2>8. QED
    BY <2>2, <2>3, <2>4, <2>5, <2>6, <2>7
<1>5. ASSUME NEW s \in Sessions, Chown(s) \/ GiveUp(s) \/ Launch(s) PROVE FilesInOrder'
  BY <1>0, <1>5 DEF Chown, GiveUp, Launch, Written
<1>6. CASE ProxyEnds \/ UNCHANGED treeVars
  BY <1>6 DEF ProxyEnds, treeVars, sessVars, Written
<1>7. QED
  BY <1>1, <1>2, <1>3, <1>4, <1>5, <1>6 DEF TreeNext

\* overlapped and torn are never taken back.
LEMMA HistoryGrows ==
  ASSUME [TreeNext]_treeVars
  PROVE  (overlapped => overlapped') /\ (torn => torn')
<1>1. ASSUME NEW s \in Sessions, EnterTree(s)
      PROVE  (overlapped => overlapped') /\ torn' = torn
  BY <1>1, Zenon DEF EnterTree
<1>2. ASSUME NEW s \in Sessions, GiveUp(s)
      PROVE  overlapped' = overlapped /\ torn'
  BY <1>2, Zenon DEF GiveUp
<1>3. CASE UNCHANGED <<overlapped, torn>>
  BY <1>3
<1>4. QED
  BY <1>1, <1>2, <1>3
  DEF TreeNext, treeVars, sessVars, InitTLS, OpenFile, WriteFile, Chown, Launch, ProxyEnds

\* Sessions that do not overlap leave the tree to one authority, step by step.
LEMMA AloneStep ==
  ASSUME TreeTypeOK, FilesInOrder, Alone, [TreeNext]_treeVars, ~overlapped'
  PROVE  Alone'
<1>0. /\ "ca.pem" \in Files /\ "server.crt" \in Files
      /\ step \in [Sessions -> {"idle", "init", "open", "write", "chown", "ready"}]
      /\ gen \in [Sessions -> Generations \cup {0}] /\ next \in [Sessions -> 1 .. 6]
      /\ file \in [Files -> [exists : BOOLEAN, by : Generations \cup {Unusable}]]
  BY Order DEF TreeTypeOK
<1>01. ~TreeExists => Written = {} /\ loaded = NotRunning
  BY <1>0 DEF FilesInOrder, Alone, Written
<1> USE DEF Go
<1>1. ASSUME NEW s \in Sessions, EnterTree(s) PROVE Alone'
  <2>1. \A t \in Sessions : step[t] = "idle"
    BY <1>1 DEF EnterTree, AtTree
  <2>2. step' = [step EXCEPT ![s] = IF TreeExists THEN "ready" ELSE "init"]
        /\ UNCHANGED <<gen, next, file, loaded>>
    BY <1>1 DEF EnterTree
  <2>3. \A t \in Sessions : step'[t] \in {"idle", "ready", "init"}
        /\ (step'[t] # "idle" => t = s) /\ (step'[t] = "init" => ~TreeExists)
    BY <1>0, <2>1, <2>2
  <2>4. QED
    BY <2>2, <2>3 DEF Alone, AtTree, Written, OneAuthor, TreeExists
<1>2. ASSUME NEW s \in Sessions, InitTLS(s) PROVE Alone'
  <2>1. step[s] = "init" /\ ~TreeExists /\ \A t \in Sessions : t # s => step[t] = "idle"
    BY <1>2 DEF InitTLS, Alone, AtTree
  <2>2. /\ step' = [step EXCEPT ![s] = "open"] /\ next' = [next EXCEPT ![s] = 1]
        /\ UNCHANGED <<file, loaded>>
    BY <1>2, <2>1 DEF InitTLS
  <2>3. /\ step'[s] = "open" /\ next'[s] = 1
        /\ \A t \in Sessions : t # s => step'[t] = "idle"
    BY <1>0, <2>1, <2>2
  <2>4. QED
    BY <1>01, <2>1, <2>2, <2>3 DEF Alone, AtTree, Written, OneAuthor, TreeExists
<1>3. ASSUME NEW s \in Sessions, OpenFile(s) PROVE Alone'
  <2>1. step[s] = "open" /\ \A t \in Sessions : t # s => step[t] = "idle"
    BY <1>3 DEF OpenFile, Alone, AtTree
  <2>2. step' = [step EXCEPT ![s] = "write"] /\ UNCHANGED <<gen, next, loaded>>
    BY <1>3 DEF OpenFile
  <2>3. step'[s] = "write" /\ \A t \in Sessions : t # s => step'[t] = "idle"
    BY <1>0, <2>1, <2>2
  <2>4. /\ Written' = Written \ {FileOrder[next[s]]}
        /\ \A f \in Written' : file'[f] = file[f]
    BY <1>3, Opened DEF Written
  <2>5. loaded = NotRunning /\ Written \subseteq Before(next[s])
        /\ \A f \in Written : file[f].by = gen[s]
    BY <2>1 DEF Alone
  <2>6. OneAuthor'
    BY <2>4, <2>5 DEF OneAuthor
  <2>61. (\A x, y \in AtTree : x = y)'
    BY <2>3 DEF AtTree
  <2>62. Before(next[s])' = Before(next[s])
    BY <2>2 DEF Before
  <2>7. QED
    BY <2>2, <2>3, <2>4, <2>5, <2>6, <2>61, <2>62 DEF Alone
<1>4. ASSUME NEW s \in Sessions, WriteFile(s) PROVE Alone'
  <2>1. step[s] = "write" /\ \A t \in Sessions : t # s => step[t] = "idle"
    BY <1>4 DEF WriteFile, Alone, AtTree
  <2>2. /\ UNCHANGED <<gen, loaded>>
        /\ \/ step' = [step EXCEPT ![s] = "open"] /\ next' = [next EXCEPT ![s] = @ + 1]
           \/ step' = [step EXCEPT ![s] = "chown"] /\ UNCHANGED next
    BY <1>4 DEF WriteFile
  <2>3. step'[s] \in {"open", "chown"} /\ (step'[s] = "open" => next'[s] = next[s] + 1)
        /\ \A t \in Sessions : t # s => step'[t] = "idle"
    BY <1>0, <2>1, <2>2
  <2>4. /\ \A f \in Files \ {FileOrder[next[s]]} : file'[f] = file[f]
        /\ \A f \in Files : file'[f].exists = file[f].exists
        /\ file'[FileOrder[next[s]]].by = gen[s]
    BY <1>4, <2>1, WrittenNext DEF AtTree
  <2>5. loaded = NotRunning /\ Written \subseteq Before(next[s])
        /\ (\A f \in Written : file[f].by = gen[s])
        /\ file[FileOrder[next[s]]].exists
    BY <2>1 DEF Alone, FilesInOrder
  <2>6. Written' \subseteq Written \cup {FileOrder[next[s]]}
        /\ \A f \in Written' : file'[f].by = gen[s]
    BY <2>4, <2>5 DEF Written
  <2>7. OneAuthor'
    BY <2>6 DEF OneAuthor
  <2>8. Written' \subseteq Before(next[s] + 1)
    BY <2>5, <2>6, Places
  <2>9. (\A x, y \in AtTree : x = y)'
    BY <2>3 DEF AtTree
  <2>10. ASSUME step'[s] = "open" PROVE next'[s] # 1 /\ (Written \subseteq Before(next[s]))'
    <3>1. next'[s] = next[s] + 1 /\ next[s] \in 1 .. 6
      BY <1>0, <2>3, <2>10
    <3>2. QED
      BY <2>8, <3>1 DEF Before
  <2>11. QED
    BY <2>2, <2>3, <2>5, <2>6, <2>7, <2>9, <2>10 DEF Alone
<1>5. ASSUME NEW s \in Sessions, Chown(s) \/ GiveUp(s) PROVE Alone'
  <2>1. /\ UNCHANGED <<gen, next, file, loaded>>
        /\ \E to \in {"ready", "idle"} : step' = [step EXCEPT ![s] = to]
        /\ step[s] # "idle"
    BY <1>5 DEF Chown, GiveUp
  <2>2. \A t \in Sessions : step'[t] = step[t] \/ (t = s /\ step'[t] \in {"ready", "idle"})
    BY <1>0, <2>1
  <2>3. QED
    BY <2>1, <2>2 DEF Alone, AtTree, Written, OneAuthor, TreeExists
<1>6. ASSUME NEW s \in Sessions, Launch(s) PROVE Alone'
  <2>1. step[s] = "ready" /\ \A t \in Sessions : t # s => step[t] = "idle"
    BY <1>6 DEF Launch, Alone, AtTree
  <2>2. step' = [step EXCEPT ![s] = "idle"] /\ UNCHANGED <<gen, next, file>>
    BY <1>6 DEF Launch
  <2>3. \A t \in Sessions : step'[t] = "idle"
    BY <1>0, <2>1, <2>2
  <2>4. CASE UNCHANGED loaded
    BY <2>2, <2>3, <2>4 DEF Alone, AtTree, Written, OneAuthor, TreeExists
  <2>5. CASE Loads /\ loaded' = [ca |-> file["ca.pem"].by, server |-> file["server.crt"].by]
    <3>1. "ca.pem" \in Written /\ "server.crt" \in Written
      BY <1>0, <2>5 DEF Loads, Written
    <3>2. /\ TreeExists /\ loaded'.ca # 0 /\ loaded'.server = loaded'.ca
          /\ \A f \in Written : file[f].by = loaded'.ca
      BY <2>5, <3>1 DEF Alone, OneAuthor, Written, Unusable, FilesInOrder
    <3>3. QED
      BY <2>2, <2>3, <3>2 DEF Alone, AtTree, Written, OneAuthor, TreeExists
  <2>6. QED
    BY <1>6, <2>4, <2>5 DEF Launch
<1>7. CASE ProxyEnds
  BY <1>7 DEF ProxyEnds, sessVars, Alone, AtTree, Written, OneAuthor, TreeExists
<1>8. CASE UNCHANGED treeVars
  BY <1>8 DEF treeVars, sessVars, Alone, AtTree, Written, OneAuthor, TreeExists
<1>9. QED
  BY <1>1, <1>2, <1>3, <1>4, <1>5, <1>6, <1>7, <1>8 DEF TreeNext

\* As long as nothing fails either, a tree is left whole.
LEMMA CompleteStep ==
  ASSUME TreeTypeOK, FilesInOrder, Alone, Complete, [TreeNext]_treeVars,
         ~overlapped', ~torn'
  PROVE  Complete'
<1>0. /\ "ca.pem" \in Files
      /\ step \in [Sessions -> {"idle", "init", "open", "write", "chown", "ready"}]
      /\ gen \in [Sessions -> Generations \cup {0}] /\ next \in [Sessions -> 1 .. 6]
      /\ file \in [Files -> [exists : BOOLEAN, by : Generations \cup {Unusable}]]
      /\ Written \subseteq Files
  BY Order DEF TreeTypeOK, Written
<1> USE DEF Go
<1>1. ASSUME NEW s \in Sessions, EnterTree(s) PROVE Complete'
  <2>1. \A t \in Sessions : step[t] = "idle"
    BY <1>1 DEF EnterTree, AtTree
  <2>2. step' = [step EXCEPT ![s] = IF TreeExists THEN "ready" ELSE "init"]
        /\ UNCHANGED <<gen, next, file, owner>>
    BY <1>1 DEF EnterTree
  <2>3. \A t \in Sessions : step'[t] \in {"idle", "ready", "init"}
        /\ (step'[t] = "ready" => TreeExists)
    BY <1>0, <2>1, <2>2
  <2>4. TreeExists => Written = Files /\ \A f \in Files : owner[f] = "user"
    BY <2>1 DEF Complete
  <2>5. QED
    BY <2>2, <2>3, <2>4 DEF Complete, Written, TreeExists
<1>2. ASSUME NEW s \in Sessions, InitTLS(s) PROVE Complete'
  <2>1. step[s] = "init" /\ ~TreeExists /\ \A t \in Sessions : t # s => step[t] = "idle"
    BY <1>2 DEF InitTLS, Alone, AtTree
  <2>2. /\ step' = [step EXCEPT ![s] = "open"] /\ next' = [next EXCEPT ![s] = 1]
        /\ UNCHANGED <<file, owner>>
    BY <1>2, <2>1 DEF InitTLS
  <2>3. /\ step'[s] = "open" /\ next'[s] = 1
        /\ \A t \in Sessions : t # s => step'[t] = "idle"
    BY <1>0, <2>1, <2>2
  <2>4. ~TreeExists'
    BY <2>1, <2>2 DEF TreeExists
  <2>5. Before(1) = {}
    BY Order
  <2>6. QED
    BY <2>3, <2>4, <2>5 DEF Complete, Before
<1>3. ASSUME NEW s \in Sessions, OpenFile(s) PROVE Complete'
  <2>1. step[s] = "open" /\ \A t \in Sessions : t # s => step[t] = "idle"
    BY <1>3 DEF OpenFile, Alone, AtTree
  <2>2. step' = [step EXCEPT ![s] = "write"] /\ UNCHANGED <<gen, next>>
    BY <1>3 DEF OpenFile
  <2>3. step'[s] = "write" /\ \A t \in Sessions : t # s => step'[t] = "idle"
    BY <1>0, <2>1, <2>2
  <2>4. Written' = Written \ {FileOrder[next[s]]}
    BY <1>3, Opened
  <2>5. FileOrder[next[s]] \notin Before(next[s]) /\ Before(next[s]) \subseteq Written
    BY <2>1, Distinct, Places DEF Complete
  <2>6. (Before(next[s]) \subseteq Written)'
    BY <2>2, <2>4, <2>5 DEF Before
  <2>7. QED
    BY <2>3, <2>6 DEF Complete
<1>4. ASSUME NEW s \in Sessions, WriteFile(s) PROVE Complete'
  <2>1. step[s] = "write" /\ \A t \in Sessions : t # s => step[t] = "idle"
    BY <1>4 DEF WriteFile, Alone, AtTree
  <2>2. IF next[s] < 6
        THEN step' = [step EXCEPT ![s] = "open"] /\ next' = [next EXCEPT ![s] = @ + 1]
        ELSE step' = [step EXCEPT ![s] = "chown"] /\ UNCHANGED next
    BY <1>4, Order DEF WriteFile, LastFile
  <2>3. /\ \A f \in Files \ {FileOrder[next[s]]} : file'[f] = file[f]
        /\ file'[FileOrder[next[s]]].by = gen[s] /\ gen[s] # 0
    BY <1>4, <2>1, WrittenNext DEF AtTree, FilesInOrder
  <2>4. Before(next[s] + 1) \subseteq Written'
    BY <2>1, <2>3, Places DEF Complete, Written, Unusable
  <2>5. \A t \in Sessions : t # s => step'[t] = "idle"
    BY <1>0, <2>1, <2>2
  <2>6. CASE next[s] < 6
    <3>1. step'[s] = "open" /\ next'[s] = next[s] + 1
      BY <1>0, <2>2, <2>6
    <3>2. (Before(next[s]) \subseteq Written)'
      BY <2>4, <3>1 DEF Before
    <3>3. QED
      BY <2>5, <3>1, <3>2 DEF Complete
  <2>7. CASE next[s] >= 6
    <3>1. step'[s] = "chown" /\ next[s] = 6
      BY <1>0, <2>2, <2>7
    <3>2. Written' = Files
      BY <2>4, <3>1, Order DEF Written
    <3>3. QED
      BY <2>5, <3>1, <3>2 DEF Complete
  <2>8. QED
    BY <1>0, <2>6, <2>7
<1>5. ASSUME NEW s \in Sessions, Chown(s) PROVE Complete'
  <2>1. step[s] = "chown" /\ \A t \in Sessions : t # s => step[t] = "idle"
    BY <1>5 DEF Chown, Alone, AtTree
  <2>2. step' = [step EXCEPT ![s] = "ready"] /\ UNCHANGED <<next, file>>
        /\ owner' = [f \in Files |-> IF file[f].exists THEN "user" ELSE owner[f]]
    BY <1>5 DEF Chown
  <2>3. step'[s] = "ready" /\ \A t \in Sessions : t # s => step'[t] = "idle"
    BY <1>0, <2>1, <2>2
  <2>4. Written = Files /\ Written' = Files /\ \A f \in Files : owner'[f] = "user"
    BY <2>1, <2>2 DEF Complete, FilesInOrder, Written
  <2>5. QED
    BY <2>3, <2>4 DEF Complete
<1>6. ASSUME NEW s \in Sessions, Launch(s) PROVE Complete'
  <2>1. step[s] = "ready" /\ \A t \in Sessions : t # s => step[t] = "idle"
    BY <1>6 DEF Launch, Alone, AtTree
  <2>2. step' = [step EXCEPT ![s] = "idle"] /\ UNCHANGED <<next, file, owner>>
    BY <1>6 DEF Launch
  <2>3. \A t \in Sessions : step'[t] = "idle" /\ step[t] \in {"idle", "ready"}
    BY <1>0, <2>1, <2>2
  <2>4. QED
    BY <2>2, <2>3 DEF Complete, Written, TreeExists
<1>7. ASSUME NEW s \in Sessions, GiveUp(s) PROVE FALSE
  BY <1>7 DEF GiveUp
<1>8. CASE ProxyEnds \/ UNCHANGED treeVars
  BY <1>8 DEF ProxyEnds, treeVars, sessVars, Complete, Written, TreeExists, Before
<1>9. QED
  BY <1>1, <1>2, <1>3, <1>4, <1>5, <1>6, <1>7, <1>8 DEF TreeNext

\* The invariant holds in every reachable state.
LEMMA CertInvariant == TreeSpec => []CertInv
<1>1. TreeInit => FilesInOrder /\ Alone /\ Complete
  BY Order DEF TreeInit, FilesInOrder, Alone, Complete, Written, OneAuthor, AtTree,
    TreeExists, NotRunning
<1>2. CertInv /\ [TreeNext]_treeVars /\ TreeTypeOK' => CertInv'
  BY HistoryGrows, FilesStep, AloneStep, CompleteStep DEF CertInv
<1>3. QED
  BY <1>1, <1>2, TreeTypeCorrect, PTL DEF TreeSpec, CertInv

-----------------------------------------------------------------------------
(* The theorems                                                             *)

\* Sessions that come one after the other leave the certificates to one
\* authority, which a running proxy has loaded.
THEOREM OneAuthorityWhenSequentialHolds == TreeSpec => []OneAuthorityWhenSequential
<1>1. CertInv => OneAuthorityWhenSequential
  BY DEF CertInv, Alone, OneAuthorityWhenSequential
<1>2. QED
  BY <1>1, CertInvariant, PTL

\* If nothing failed, a session that is given the directory finds the whole tree
\* there and its user can read the client's part.
THEOREM ReadyIsUsableHolds == TreeSpec => []ReadyIsUsable
<1>1. CertInv => ReadyIsUsable
  <2> SUFFICES ASSUME CertInv, ~overlapped, ~torn,
                      NEW s \in Sessions, step[s] = "ready"
               PROVE  /\ Written = Files /\ OneAuthor /\ Loads
                      /\ \A f \in ClientFiles : owner[f] = "user"
    BY DEF ReadyIsUsable
  <2>1. Alone /\ Complete /\ FilesInOrder
    BY DEF CertInv
  <2>2. \A t \in Sessions : step[t] \in {"idle", "ready"}
    BY <2>1 DEF Alone, AtTree
  <2>3. Written = Files /\ \A f \in Files : owner[f] = "user"
    BY <2>1, <2>2 DEF Complete, FilesInOrder
  <2>4. QED
    BY <2>1, <2>3, Order DEF Alone, OneAuthor, Loads, ClientFiles, Written
<1>2. QED
  BY <1>1, CertInvariant, PTL
=============================================================================

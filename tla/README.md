# A formal model of isolator

isolator runs coding agents under separate macOS accounts. `bin/iso` (Python)
provisions the accounts, writes the firewall rules and launches sessions; for
every account it starts one `docker-proxy` (Go, `cmd/docker-proxy`,
`internal/proxy`) that stands between the account and the one Docker daemon,
and that is also the account's HTTPS CONNECT proxy. This directory holds TLA+
models of the parts that keep state or run concurrently, TLC configurations
for them, and TLAPS proofs.

## Inventory

| Part | State | Operations | Interacts with | What makes it correct |
|---|---|---|---|---|
| Endpoint allowlist, route predicates (`allowlist.go`, `proxy.go`) | none | `IsEndpointAllowed`, `isLargeBodyPath`, `isContainerCreatePath`, `isNetworkCreatePath`, `isStreamingPath`, `maybeCheckOwnership` | called once per request | every allowed request reaches the guard that its meaning to the daemon calls for |
| Request handler, ownership (`proxy.go`, `ownership.go`) | the requests in flight; the daemon's containers, labels, execs | `ServeHTTP` and its handlers, `CheckContainerOwned`, `CheckExecOwned`, `FilterContainerList` | daemon (two or three exchanges per request), other users' proxies and the operator through the daemon | a parsed request acts on the user's own containers, whatever happens on the daemon between the check and the request |
| Container-create policy (`create.go`, `paths.go`) | the file system the sources are resolved in | `CheckCreate`, `ResolvePath`, `IsPathAllowed` | daemon, which mounts later | what is mounted is what was validated |
| Network-create policy (`network_create.go`) | none | `CheckNetworkCreate` | daemon | names of other users stay reserved, up to names that continue each other after a hyphen |
| CONNECT proxy, streaming, relay (`connect.go`, `proxy.go`, `relay.go`) | two connections, a read buffer, two goroutines | `handle`, `handleStreaming`, `Relay` | client, upstream | bytes complete and in order, ends passed on, connections closed |
| Host allowlist (`connect.go`, `main.go`, `bin/iso`) | file, pid file, signal channel, snapshot under an RWMutex | `write_proxy_allowlists`, `Reload`, `Contains` | `iso pf` by file and SIGHUP | lookups see one version; the last edit takes effect |
| Proxy life cycle, certificate tree (`main.go`, `tls_init.go`, `bin/iso`) | pid file, socket path, ports, certificate files, processes | `ensure_docker_proxy`, `main`, `generateCerts` | concurrent sessions, crashes | one reachable proxy per user, recovery from crashes |
| Peer-UID listener (`main.go`, `peer_*.go`) | none | `Accept` | kernel | a connection of another account to the Unix socket is closed; the TCP listeners have other means or none |
| Provisioning (`bin/iso`) | `config.toml`, directory service, Docker networks | `iso create`, `delete`, `copy` | firewall, proxy | unique uids and subnets; re-runs converge |
| Firewall (`bin/iso`) | pf anchor, iptables chains | `iso pf` | provisioning | rules in force at every moment are the old or the new ones |
| Sessions, remote, Chrome (`bin/iso`) | the pid file of the background session | `iso run`, `remote --bg/--stop/--status`, `chrome` | proxy life cycle, kernel pids | no session is lost; besides sessions, only processes that were given the pid of one are killed |
| pf-monitor, Python proxy, installer | none of their own | | | |

The hard behaviours are the interleaving of requests with changes on the
daemon (the ownership check and the request it admits are separate exchanges),
half-closes and early returns around the relay, coalescing signals and reads of
a file that is being rewritten, sessions that overlap without a lock, and
interruptions between the files of one operation. `PROJECT.json` lists them
under `hazards`, each at its line.

## Modules

| Module | Models | Uses |
|---|---|---|
| `Endpoints` | the rules of `allowlist.go`, the route predicates and dispatch order of `proxy.go` | |
| `EndpointsCheck` | a state machine that enumerates paths, and the routing properties | `Endpoints` |
| `DockerProxy` | `ServeHTTP` for all users over one daemon | `Endpoints` |
| `Ownership` | what all proxies together promise a user (abstract) | |
| `OwnershipRefinement` | `DockerProxy`, with a memory of names, is an `Ownership` | `DockerProxy`, `Ownership` |
| `CreatePolicy` | `CheckCreate` over a file system whose links move | |
| `NetworkPolicy` | `CheckNetworkCreate`, an operator | |
| `Provisioning` | `iso create` and `delete`, `config.toml`, networks, the subnets of `iso pf`, the peer check of each proxy | `NetworkPolicy` |
| `Tunnel` | `ConnectProxy.handle`, `handleStreaming`, `Relay` | |
| `ByteChannel` | what one direction of a connection promises (abstract) | |
| `TunnelRefinement` | both directions of `Tunnel` are `ByteChannel`s | `Tunnel`, `ByteChannel` |
| `AllowlistReload` | the allowlist file, SIGHUP, `Reload`, `Contains` | |
| `ProxyLifecycle` | `ensure_docker_proxy`, `main`, which certificate files exist | |
| `CertTree` | who wrote and who owns each certificate file, what a proxy loads | |
| `EgressRules` | the iptables script of `iso pf` | |
| `RemoteSessions` | `cmd_remote`: `--bg`, `--stop`, `--status` | |
| `MCEndpoints`, `MCDockerProxy`, `MCOwnership`, `MCCreatePolicy`, `MCProvisioning` | instances for TLC | |
| `EndpointsProofs`, `DockerProxyProofs`, `TunnelProofs`, `CreatePolicyProofs`, `ProxyLifecycleProofs`, `RemoteSessionsProofs` | theorems about the module of that name and its refinement | |
| `EgressProofs` | theorems about what `iso pf` writes: `AllowlistReload`, `EgressRules` | |
| `IsoProofs` | theorems about the rest of `bin/iso`: `Provisioning`, `CertTree` | |

`ProxyLifecycle` and `CertTree` look at the same certificate directory from two
sides: the first knows which files are there after complete, failed and
interrupted generation, the second which generation wrote each and who may
read it. `Provisioning` composes four parts of the system, because what is
wrong between them (a subnet that is a position in a file, a name that is a
prefix of another) is wrong in none of them alone.

Definitions keep the names of the functions they model. Operators marked
*Mutant* are plausible mistakes in the definition that follows them; each
property of a passing run is violated when the one `PROJECT.json` lists for it
takes the definition's place.

### Endpoints

A path is the sequence of its segments without percent escapes, so the escaped
path the allowlist reads and the decoded one the handler reads are the same.
Regular-expression classes are sets of segments (`Versions`, `Idents`,
`ImageSegs`); `Streamish` is the set of segments that begin with a streaming
word, because `isStreamingPath` searches for substrings such as `/exec`.
`IsEndpointAllowed` is the first-match chain of the code. `DaemonOnContainer`
and `DaemonOnExec` state what a request means to the daemon.

### DockerProxy

A slot is a goroutine in `ServeHTTP`. `Arrive` is everything up to the first
exchange with the daemon; each exchange is one step: `CheckExecOwned`,
`CheckContainerOwned`, then `ForwardApply`, `ForwardList`, `ForwardOther`,
`ForwardCreate`, or `StreamApply`/`StreamOther` and the relay. Between any two
of them the operator (`HostStep`), the other slots and the relays change the daemon.
`handleStreaming` copies what its client sends to a daemon connection that takes
further requests, so while a relay lasts anything may happen on the daemon
(`RelayCarries`): no handler sees these requests, and a container created by one
carries whatever owner label its client wrote; `creator` says `Relayed` of it. With `DaemonFaults` the daemon may also be unreachable
or answer garbage, which the checks turn into a refusal. `seen` records the
container the ownership check saw and `creator` who asked for a container; both
are history. The properties are about requests that a handler has parsed. They
say that such a request reaches neither a container of the operator's nor one
that another user's handler created; a container created over a relay belongs to
whom its label says.

Limits: container references are full IDs or names, not ID prefixes. A
reference by name may be rebound between the check and the request;
`ActsOnlyAfterOwnCheck` says exactly this, and `StableRefsActOnOwn` speaks of
the references that cannot be rebound. The references `json` and `create` are
exempt from the check in the code (`ExtractContainerTarget`) and in the
properties. A list body that cannot be parsed is passed on unchanged by the code
and does not occur in the model. Network connect and delete, volumes and images
are not subject to ownership in the code and are not daemon state here. What a
relay carries is taken for any request at all, whether or not the daemon, having
upgraded a connection, would still read requests from it.

### Ownership and OwnershipRefinement

`Ownership` knows nothing of endpoints, checks, labels or exchanges. A request
has at most one effect on the containers, in one step: it creates one for its
user, removes one, or runs a process in one; or it shows exactly the user's own
containers. It may act on a container of the user's own, and on one that carries
a name that a container of this user has had (`had`), or an exempt name: these
are the two ways in which a name leads elsewhere, a rebinding between
`CheckContainerOwned` and the forwarded request, and the references `json` and
`create`. The promise is about the request itself. The operator is bound by
nothing, and neither is a client to whom a request has left a pipe (`piped`,
`Carry`); a container is whose label it carries, which a pipe's client chooses.

`DockerProxy` remembers no names, so `OwnershipRefinement` adds `had` as a
history variable that no step reads. A request is open while `ServeHTTP` has exchanges ahead of it and piped while it is relayed; `owner` is the label; the checks are invisible.
Requests that only read or start a container change nothing that `Ownership`
keeps; `ActsOnlyAfterOwnCheck` is about those too.

### CreatePolicy

A body is abstracted to what each check of `CheckCreate` decides on: at most
one flaw among its fields, a network name, and a mount with its source; a proof takes any number of flaws, mounts and networks.
`EvalSymlinks` goes along a path to where it is interrupted (`Stops`), by a link
or by nothing, and starts again with the link replaced (`Through`), as often as
the bound allows; `NoPath` is its error. `ResolvePath` follows links in a small file system. Between the check and the
mount the user re-points links, puts new ones where there was nothing or a
directory (`Relink`) and takes links away (`Unlink`). The lookups within one check are one step. A source that does not exist is taken lexically, as in the code. The rewriting
defends against links on the way the client wrote and not against a link that
comes later in place of the validated directory or of one above it:
`MountsWhatWasValidated` says that the daemon mounts what was validated just when
there is no such link, and `CreateReplace` shows one. Resolved names contain no colon.

### Tunnel

Bytes are numbered by their sender; the request head is the client's first byte
and the 200 response of CONNECT is byte 0 of the downward stream. `ReadRequest`
may read ahead into the buffer, `FlushPrelude` passes that on, the relay's two
goroutines read and write chunks of any size. Peers may half-close, close or
reset at any moment; a write to a peer that is gone may fail or vanish. Headers
are not modelled; in particular the replayed head of a streaming request lacks
the Transfer-Encoding header that net/http removed.

### AllowlistReload

A file content is the version it was generated from, kept apart for its
wildcard and exact lines: `tee` truncates and writes the live file, and the
sorted file puts the wildcards first, so a reader may meet nothing, the first
part, or parts of two versions. SIGHUP is ignored until `signal.Notify`
(the launch goes through `nohup`); then it is pending, on a channel of capacity
one, or dropped. `Reload` scans without the lock and swaps two fields under it;
`Contains` reads them under the read lock. Matching of names is not modelled.

### ByteChannel and TunnelRefinement

A `ByteChannel` has a sender, a receiver, the bytes written and the bytes
passed on. It knows nothing of buffers, goroutines or system calls. It passes
on a growing prefix of what was written and ends only when the sender has ended
and nothing is left, or when there is nobody to pass it to; it may be refused
while it is set up. `ChannelState` maps a tunnel to it: a direction is joined
when its copy goroutine starts and has ended when the peer was told of the end
or everything was closed. Head reader, prelude, CONNECT's own 200 and both
copy loops are invisible. `DirectionsAreChannels` includes the fairness of the
abstract specification: a joined direction passes on what was written unless
the sender aborts, and ends once the sender has, without waiting for the other
one.

### ProxyLifecycle

Sessions run `ensure_docker_proxy` statement by statement, each subprocess call
a step of its own; proxies run `main` from the removal of the stale socket to
its exit. A socket path is the proxy it leads to. `past`
remembers what the promises depend on. It is "disturbed" once two sessions
overlapped, a session gave up waiting, was interrupted or failed to write a
certificate, or a proxy was ended while a session ran; there is no lock, and
what can be promised without one is conditional on it. It is "hindered" once a
proxy, its socket already in place, could not read its allowlist or found one
of its loopback ports taken by a program that is no proxy of this user, of
whatever account (`CannotListen`): this may happen to every proxy at any time,
so a session may have answered "ready" for a proxy that then exits. The pid of a dead proxy may go to another user's
docker-proxy (`ReusePid`), which passes the `ps` test. The CONNECT and the TLS
port are one resource; the user is one with a hosts file.

### CertTree

Each generation makes a CA of its own and signs both certificates with it, so
the content of a file is the number of the generation that wrote it. A file is
opened with O_TRUNC and written later; while two generations have the same file
open, either may win or both may spoil it. `chown -R` follows as a step of its
own and includes `ca.key`, which `tls_init.go:21` calls root-only. A proxy loads the tree once.

### NetworkPolicy and Provisioning

A name is a sequence of characters, so that prefixes mean what they mean in
`HasPrefix`. A position in `config.toml` stands for the subnet, a UID for its
distance from `BASE_UID` plus one. A create process reads the table once and
works on its copy; the commands that make an account are two steps, record and
UniqueID, because what an interruption leaves between them decides whether a
re-run repairs it. `past` records what the operator or a second process did in
between, and the properties say under which events they hold. `GetPeerUID` may
fail; `Accept` lets such a peer in, so root gets through in that case and
another account never does, because the socket has mode 0600. This is about
the Unix socket: whoever reaches the loopback port of the CONNECT listener is
served (`ReachesConnect`), which no property rules out. A user's name may
continue another's after a hyphen, and the properties about network names
say what such users can do to each other. Docker (external)
refuses a name or a subnet in use, and may refuse for reasons of its own, of
which `create_docker_network` takes no notice. Volumes are not modelled.

### EgressRules

iptables is external and modelled by what its manual and the script rely on: a
jump leads to a chain and not to a name, so `-E` takes the jumps along; a chain
that is jumped to cannot be deleted; every command may fail for a lock. The
script is one list of commands joined by `&&`, some of which end in `|| true`.
The shell groups from the left, so these rescue every failure before them: a
failed command skips to the next rescue, and the list as a whole never fails
(`GiveUp`, `Finish`). LOG rules put their prefix in single quotes inside a
script passed between single quotes; `logAt` is where the first such rule
cuts the list off. A run may be interrupted at any command and started again on
what is left; the daemon or the whole VM may restart.

### RemoteSessions

`--bg`, `--stop` and `--status` are sequences of steps that share the pid file.
A pid is free, a background session, or another process, and the kernel gives
freed pids to any of them at any time. `--stop` recognises a session by two
substrings of its `ps` line, the user's name and `claude` (`LooksLikeSession`,
`bin/iso:1487`). Other processes have them too: the user's session in a
terminal, one of a user whose name contains this one's, anything with both words
in its arguments. Such a process is `alike`; the line of a session is taken to
be complete. `past` records that two commands overlapped, that `--bg` started a
second session, that the pid `--stop` looked at changed hands before its kill,
and that an alike process was given a pid that `--bg`, the file or `--stop` still
took for a session's. A process that is killed ends at once.

## Runs

| Run | Bounds | Shows |
|---|---|---|
| `endpoints` | paths of up to 5 segments over an alphabet with every word on which two rules collide | `RoutedToGuard`, `CollectionsKeepTheirMethod` |
| `proxy` | 2 users, 2 slots, 2 containers, 2 names (one of them `json`), 1 exec, 6 paths, daemon faults, relays that carry anything; symmetric in users and slots; with the memory of names (`MCOwnership`) | a parsed request acts on, relays from and lists no container of the operator's or of another user's handler; `DockerProxy` implements `Ownership` |
| `proxy_refusals` | the same with 1 slot, 10 paths, without faults and symmetry | a 403 of the check is about someone else's container |
| `tunnel` | the head and 2 bytes up, 3 bytes down | order, completeness, ends, closing, and that each direction implements `ByteChannel` |
| `allowlist` | 3 edits, 2 launches | one version per lookup, no lost update |
| `create` | 2 users, a file system with links inside and across roots, a directory that may become a link | what is mounted is what was validated, just when no link has come in its place |
| `lifecycle` | 2 sessions, 2 proxies, 1 kill, 1 reused pid | sequential sessions keep one reachable proxy, recover from a crash and report ready only for a bound proxy; a bound proxy fails only on its allowlist or on somebody else's use of its ports; sessions return |
| `cert_authority` | 2 sessions, 3 generations, 2 faults | sequential sessions never mix two authorities nor replace what a proxy has loaded, and hand out whole, readable trees |
| `egress` | rule sets of 3, a LOG rule in any place but the last, 3 runs, 1 failing command, 2 restarts | rules in force do not change while the next set is built, and are a whole set or none |
| `provisioning` | 3 users (two names continue the first, one of them after a hyphen), 2 creating processes, 2 creates, 1 edit by hand, 1 user network | UIDs and subnets stay with their user; network names stay with their user and those whose names continue each other after a hyphen; a proxy's Unix socket serves its user only |
| `remote` | 3 pids, 3 sessions, 2 other processes, as root | sequential commands lose no session, and `--stop` leaves none; what else it kills was given the pid of a session |
| `egress_swap` | rule sets of 2, 1 run | finding 1 |

Why the bounds are enough to be of interest. `proxy`: a rebinding needs one
container that loses the name and one that gains it, a race needs two requests,
and isolation needs two users. Neither exception of `May`
in `Ownership` can be left out on this instance. `tunnel`: the head, one byte that may be read
ahead with it and bytes in the opposite direction meet all boundaries between
head reader, buffer and relay. `allowlist`: a signal may arrive during a reload
that a previous one caused while the file is rewritten, and a proxy may be
restarted. `lifecycle`: two sessions overlap in every way two can, and a kill
may come at any step. `cert_authority`: a generation that is interrupted, one
that meets its remains, and one beside it. `egress`: the second run meets the
chains the first left, the third those of a run that found these, and each may
be a partial one. `provisioning`: a user deleted and
made anew, or two users made one after the other, beside an entry that was
written by hand, and a create interrupted at each step with one that repeats it;
the three names are the three ways in which one can stand to another. `remote`: a pid
is reused by a session, by a process that passes the look of `--stop` and by one that does not, while the file still names it.

Fairness. `DockerProxy` has none and no liveness property: `subrequest` sets no
deadline and the server no timeout for its client (`main.go:149`), so a daemon
that stays silent, or a client that sends half a body or reads nothing, holds a
handler for as long as it likes. `Tunnel`: goroutines run, the 30 s head deadline and the dial timeout expire,
receivers read; nothing is asked of senders. `AllowlistReload`: iso and the
goroutines run; strong fairness for the swap, because `sync.RWMutex` keeps new
readers out while a writer waits. `ProxyLifecycle`: processes run and the poll
loop is bounded. The other modules have safety properties only and no fairness.

### Findings

1. `LoadedIsInForce` (run `egress_swap`): the swap of `generate_docker_iptables`
   (`bin/iso:907`) is meant to avoid "the brief window where DOCKER-USER is
   empty" (`bin/iso:879`). `iptables -E` takes the jumps along, so afterwards
   FORWARD jumps to DOCKER-USER-OLD, which the next command flushes, and
   nothing jumps to the new DOCKER-USER until Docker restarts and looks the
   chain up by name.

The following configurations are counterexamples to one statement each that
the repository makes of itself. They are kept beside the runs: `tlc -config
<cfg> <module>` prints a behaviour that leads there.

| Configuration, module | Property | What happens | Against |
|---|---|---|---|
| `EgressReport`, `EgressRules` | `LoadedIsNamed` | DOCKER-USER-OLD is still jumped to and cannot be deleted, so the renames of the next run fail; `\|\| true` rescues that | `bin/iso:935` prints "Docker iptables rules loaded" |
| `EgressLog`, `EgressRules` | `LoggedIsBuilt` | the quotes of the first log prefix end the script, which is reported as loaded | `README.md:288` "log all traffic via pf log + Docker iptables LOG" |
| `ProxyOverlap`, `ProxyLifecycle` | `OneProxy` | overlapping sessions start two proxies | `bin/iso:1221` "Start per-user Docker proxy if not already running" |
| `ProxyReuse`, `ProxyLifecycle` | `ReadyIsBoundDespiteReuse` | a pid that went to another user's proxy is taken for this user's | `bin/iso:1243` "verify pid belongs to docker-proxy" |
| `TreeComplete`, `ProxyLifecycle` | `TreeIsComplete` | `--init-tls` looks at `ca.pem`, the first file written; after an interruption the rest stays missing | `main.go:61` "skips generation if files already exist" |
| `CertOverlap`, `CertTree` | `OneAuthority` | two generations at a time leave the CA of one with certificates of the other | `docs/ryuk-and-the-proxy-socket.md:275` "Cert generation is one-shot" |
| `CreateOverlap`, `MCProvisioning` | `DistinctUids` | two creates choose one UID from the tables they read | `README.md:136` "the next available UID" |
| `CreateRerun`, `MCProvisioning` | `RerunCompletes` | the record exists before its UniqueID; a re-run finds the user and skips the account | `README.md:138` "idempotent — safe to re-run" |
| `SubnetShift`, `MCProvisioning` | `SubnetsFollowUsers` | an entry inserted or removed by hand shifts the subnets of the rules, not those of the networks | `specs/docker-security.md:84` "Each user gets a network with a predictable subnet" |
| `NetworkNames`, `MCProvisioning` | `LiveNamesAreReserved` | a user name may contain hyphens, so `iso-<user>-` covers the network of a user whose name continues it | `docs/docker-proxy-go-spec.md:400` |
| `UidReuse`, `MCProvisioning` | `SocketServesDespiteEdits` | the operator takes the entry of a deleted user out, iso gives the UID to the next user, and the proxy that still runs serves that one | `docs/docker-proxy-go-spec.md:38` "Socket hijack by wrong user" |
| `ConnectOpen`, `MCProvisioning` | `ConnectServesOnlyItsUser` | the CONNECT listener asks nothing of its peer and the anchor passes all of lo0 (`bin/iso:804`) | `main.go:177` "pf restricts which uid can reach the port" |
| `CreateReplace`, `MCCreatePolicy` | `MountsOnlyWhatWasValidated` | after the check the user puts a link in place of the validated directory, and the daemon follows it | `docs/docker-proxy-go-spec.md:633` "Docker will mount what we validated, not what a symlink might later point to" |
| `RemoteAlike`, `RemoteSessions` | `KillsNoOther` | the session ends, its pid goes to another process with the user's name and `claude` in its `ps` line, and `--stop` kills that | `bin/iso:1484` "Verify the PID belongs to our user (prevent killing arbitrary process)" |
| `RemoteStop`, `RemoteSessions` | `StopFindsSession` | without root `--stop` cannot see the pid file in root's 0700 directory | `README.md:100` "stop the session" |
| `AllowlistStartup`, `AllowlistReload` | `RunningProxyTakesEffect` | an edit between the proxy's first load and its `signal.Notify` is lost | `bin/iso:1080` "Sends SIGHUP to any docker-proxy already running so the new allowlist takes effect" |
| `TunnelEither`, `Tunnel` | `EitherSideCloses` | `Relay` waits for both directions; a client that goes away leaves it in place while the upstream is silent | `proxy.go:266` "bidirectional relay until either side closes" |

## Proofs

The theorems hold for every value of the constants that satisfies the named
assumptions of the modules, so for any number of users, requests, containers,
bytes, edits, rules, sessions, proxies and pids. TLC evaluates the assumptions
on every instance. They say that numbers are natural numbers, paths are
sequences of segments, the markers `None`, `Host` and `Relayed` are no user or container,
IDs are no names (`DaemonAssumption`) and consist of hexadecimal digits
(`HexAssumption`), that users' links are not where the system's links are (`PolicyAssumption`), and how many slots and instances there are. One theorem, `AcceptedForOneUserHolds`,
has a hypothesis of its own, given with it below.

`TypeOK` of `DockerProxy`, `Tunnel`, `AllowlistReload`, `EgressRules`,
`Provisioning`, `RemoteSessions` and `ProxyLifecycle` is proved and not run.

* **Routing** (`EndpointsProofs`). Lemmas classify a path by its second segment;
  `RoutedToGuardHolds` and `CollectionsKeepTheirMethodHolds` follow for all
  paths of all lengths. The handler's proof cites the same lemmas.
* **Ownership** (`DockerProxyProofs`). The safety properties are not inductive:
  they speak of requests that have passed every check and say nothing of how a
  request got there. `CheckedRequests` adds what each stage has established
  (`RequestInv`), that a stored label names the creator, unless the container came over a relay (`LabelTellsCreator`),
  that IDs are assigned once (`KnownAreBorn`) and that live containers have
  names. It is inductive with `TypeOK`; each action is one step of the proof.
  `ActsOnlyAfterOwnCheck`, `StableRefsActOnOwn`, `RelayOnlyAfterOwnCheck` and
  `ListsOnlyOwn` follow. The action property `RefusesOnlyForeign` needs the converse of
`LabelTellsCreator` too: what a user's handler created carries that user's label
(`CreatorLabelled`), so what is refused is someone else's.
* **Refinement of Ownership** (`DockerProxyProofs`). `HistoryInv` adds that the
  names of live containers are remembered (`HadNames`) and that a name by which
  the check found a container is one of them (`FoundByOwnName`).
  `ReachesWhatItMay` follows; `SlotServes` takes the handler's steps one by one
  to steps of the promise or to nothing, and `ProxiesImplementOwnership` is the
  whole.
* **Container create** (`CreatePolicyProofs`). `CreateInv` says that what was
  forwarded is what `CheckCreate` made of the body, over the links of that
  moment. The rest is about operators, for any bound of `EvalSymlinks`: what it
  returns leads through directories only (`EvalSymlinksIs`), so that resolving it
again leaves it as it is (`ResolveIsStable`), later too, unless a link has come
in place of one of these directories (`UnlessReplaced`),
  and `Clean` leaves names alone (`CleanKeeps`). `MountsWhatWasValidated` and
  `RewriteIsStable` follow. `AcceptedForOneUser` is proved from `UsersApart`:
  sockets and networks are named after one user, none of whom is called
  `Workspaces` (`/Users/Workspaces/<user>` would be the workspace of one and
  `/Users/<user>/tmp` that of the other; `iso create` does not refuse that
  name), users' links are in `/Users`, and no other link leads there or is named
  like a socket. Recursive functions are reasoned about with
  `NatSetInduction`, which is derived from the well-foundedness of finite sets,
  and `StepsHaveValues`; the verdicts need no recursion, as the first failure is
  a search.
* **Provisioning** (`IsoProofs`). `ProvInv` holds as long as nobody edits
  `config.toml` and creates do not overlap (`Calm`): the one create has read the
  file as it is (`OneCreate`), names and UIDs are in it once (`EntriesDistinct`),
  and accounts, proxies, rules and networks follow it (`FollowsConfig`), which
  only grows at its end. With no interruption either, an account without a UID
  is one that is being made (`Finished`). `UidsAreUnique`, `RulesFollowNetworks`,
  `SocketServesOnlyItsUser` and `DoneIsUsable` follow. `NamesAreReserved` needs
  none of it and holds for any set of names: what was let through has a name
  its user may use (`MakersAllowed`), and a name that two users may use makes
  one of them continue the other after a hyphen (`OneNameOf`, `NotOfLonger`).
* **Certificate tree** (`IsoProofs`). `CertInv`: files are opened in their order
  (`FilesInOrder`); sessions in turn find the tree their own or a predecessor's
  (`Alone`); if besides nothing failed, a tree that nobody is writing is whole
  and the user's (`Complete`).
* **Firewall rules** (`EgressProofs`). `EgressInv` counts what a run has appended
  (`RunCounted`), says that no jump leads to the staging chain
  (`StagingUnused`) and, while no command has failed, that the chains in use are
  whole and the staging chain is what the run has built. `NeverHalfASet`,
  `LoadedIsBuilt` and the action property `BuildIsInvisible` follow.
* **Byte streams** (`TunnelProofs`). `InOrder` needs to know where the next byte
  is: `StreamInv` says that what was accepted, what a goroutine holds, the
  buffer and the wire are consecutive runs of numbers, stage by stage
  (`HeadInv`, `BufferInv`, `FlushInv` before the relay, `RelayInv` in it), and
  that they add up to what was sent unless the sender aborted. The lemmas on
  `Run` say how appending, concatenating and splitting keep runs. `InOrder` is
  a conjunct, `NothingLost` follows by concatenation. `EndInv` adds that a
  finished direction had nothing left to pass on or nobody to pass it to;
  `EndAfterData` follows. `NoLeak` is inductive by itself.
* **Allowlist** (`EgressProofs`). Type correctness needs a count:
  every Reload is paid for by an edit or a launch (`ReloadsCounted`).
  `LockInv` says who holds the mutex and that only a writer between its two
  assignments leaves two versions; `LookupSeesOneReload` follows.
  `QuietIsCurrent` is strengthened to every stage of a Reload
  (`ReloadIsCurrent`), together with the fact that a signalled proxy is the
  one in the pid file (`SignalledServes`), so that a later edit signals it
  again.
* **Refinement of ByteChannel** (`TunnelProofs`). `UpRefines` and `DownRefines` show
  that every initial state of a tunnel is one of the channel and every step a
  step of it or a stutter, from the stream invariants and
  `ChannelInv`: at no stage of the setup (`SetupWithin`) nor of the relay
  (`RelayWithin`) is a byte on its way that was not sent, an aborting sender
  included, and a goroutine that is done has told its peer (`DoneIsTold`). The fairness part of
  `DirectionsAreChannels` is TLC's.
* **Proxy life cycle** (`ProxyLifecycleProofs`). Nothing of what sessions are
  promised is inductive, since it depends on which proxy each file leads to.
  `LifecycleInv` holds in every behaviour: unlaunched proxies have no state
  (`Unborn`), the port holder is alive (`PortHeld`), a session under
  way has not answered (`Pending`). As long as nothing is `disturbed` it adds
  `Orderly`: one session at a time (`Alone`), one live proxy (`OneAlive`) and
  none while a session is about to launch (`NoneLives`), a socket and a pid file
  that follow it (`SocketFollows`, `PidFollows`), no failure of a session while no
  proxy was hindered (`NoFailure`) and certificates as far as the session has come (`CertsFollow`). The four
  properties follow.
* **Background sessions** (`RemoteSessionsProofs`). `SessionInv` says what each
  command still knows when it acts: `--stop`'s look at the process holds until
  its kill unless a pid changed hands (`LookHolds`), an alike process stands at the
  pid of a session only if it was given it (`HeirsAreMarked`), at most one command is
  under way when given in turn (`OneCommand`), the one session is the one in
  the file or in `--bg`'s hands (`SessionIsKnown`), and a command removes only
  the file of a session that is over (`RemovesItsOwn`).

The strengthenings are proved and not run.

Only model-checked: what holds under fairness (`EndsWhenBothEnd`, `HupTakesEffect`, `SessionsReturn`, and of
`DirectionsAreChannels` the fairness), since the prover has no rules for
`ENABLED`. Every other property of a passing run is a theorem.

## Not modelled, and the plan

What would come next:

1. Which upgraded connections the daemon goes on reading requests from, so that
   less than anything is possible while a relay lasts.
2. The headers of a replayed request (`proxy.go:326`), of which
   Transfer-Encoding is lost.
3. Volumes, and networks as something a request may be refused, if the proxy
   ever checks who owns them.

Parts left out, and why:

* the home skeleton, keychain and ssh key of `iso create`, and `iso copy`: file
  copying, with no state another part reads;
* the pf anchor: written as a whole and loaded by one `pfctl`, its text is
  formatting; so is the resolution of host names for it;
* secrets and `iso run`: assembling one command line; Chrome sessions keep
  nothing in this code that outlives them;
* pf-monitor: a read-only observer; the Python docker-proxy: replaced by the Go
  one, which iso launches; the installer and shell profile: file copying;
* the matching of host names against wildcards (a pure string comparison) and
  the contents of certificates.

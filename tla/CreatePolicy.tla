---------------------------- MODULE CreatePolicy ----------------------------
(***************************************************************************)
(* The container-create check of the docker-proxy (internal/proxy/         *)
(* create.go, paths.go) over a file system that its                        *)
(* user goes on changing: CheckCreate resolves every bind source, rewrites *)
(* it, and the daemon mounts the rewritten source later.                   *)
(*                                                                         *)
(* A path is the sequence of its segments.  A source without ":" in its    *)
(* resolved form is assumed, as validateAndRewriteBind does.               *)
(***************************************************************************)
EXTENDS Naturals, Sequences, SequencesExt

CONSTANTS
  Users,       \* users, one proxy each
  Segments,    \* segments of paths
  Dirs,        \* existing paths, except where there is a symbolic link now
  SystemLinks, \* symbolic links nobody changes: a function from path to target
  UserLinks,   \* paths at which users may put symbolic links, their
               \* directories included
  Targets,     \* what those may lead to
  SockSegs,    \* segments that contain "docker.sock"
  SockOf,      \* SockOf[u] is the segment "<u>.sock"
  IsoNet,      \* IsoNet[u] is the network "iso-<u>"
  Bodies,      \* create bodies the clients send
  MaxHops      \* bound of EvalSymlinks (255 in Go)

\* The segments that name something in a directory.
Names == Segments \ {".", ".."}

(* A body is [flaws, network, entries, endpoints, labels]:                  *)
(*   flaws      format errors and forbidden fields it has, see Verdicts     *)
(*   network    NetworkMode ("" when absent)                                *)
(*   entries    Binds, then Mounts: [kind, source] with kind "bind" (an     *)
(*              absolute source), "tmpfs", "policy" (a named volume, a      *)
(*              relative source, another mount type) or "format"            *)
(*   endpoints  keys of EndpointsConfig                                     *)
(*   labels     the owner label it carries                                  *)
Flaws == {"size", "json", "userType", "rootUser", "hostConfigType", "dangerousField",
          "extraHostsType", "extraHosts", "networkModeType", "bindsOrMountsType",
          "networkingConfigType", "endpointsType"}
Entries == [kind : {"bind", "tmpfs", "policy", "format"}, source : Seq(Segments)]
CreateBodies == [
  flaws : SUBSET Flaws, network : STRING, entries : Seq(Entries),
  endpoints : SUBSET STRING, labels : STRING]

ASSUME PolicyAssumption ==
  /\ MaxHops \in Nat
  /\ UserLinks \cap DOMAIN SystemLinks = {}
  /\ "/" \notin Segments
  /\ Users \subseteq STRING
  /\ Dirs \subseteq Seq(Names) /\ Targets \subseteq Seq(Segments)
  /\ \A p \in DOMAIN SystemLinks : SystemLinks[p] \in Seq(Segments)
  /\ Bodies \subseteq CreateBodies

VARIABLES
  links,    \* the user links that exist now: a function from path to target
  user, phase, body,
  forwarded,  \* the rewritten body
  fsAtCheck,  \* history: links when CheckCreate ran
  mounted     \* mounted[i]: where entry i's source led when the daemon mounted it

vars == <<links, user, phase, body, forwarded, fsAtCheck, mounted>>

NoPath == <<"/">>   \* EvalSymlinks returned an error

-----------------------------------------------------------------------------
(* paths.go                                                                 *)

\* One more segment of a path, in what it is so far.
Enter(done, seg) ==
  CASE seg = "."                     -> done
    [] seg = ".." /\ done = <<>>     -> done
    [] seg = ".." /\ done # <<>>     -> Front(done)
    [] OTHER                         -> Append(done, seg)

\* filepath.Clean of a rooted path.
Clean(p) ==
  LET upTo[n \in 0 .. Len(p)] == IF n = 0 THEN <<>> ELSE Enter(upTo[n - 1], p[n])
  IN upTo[Len(p)]

\* The symbolic links there are, the user's and the others.
AllLinks(fs) ==
  [p \in DOMAIN fs \cup DOMAIN SystemLinks |->
     IF p \in DOMAIN fs THEN fs[p] ELSE SystemLinks[p]]

\* Where the way along p is interrupted: by a link, or by nothing at all.
Stops(fs, p) ==
  {k \in 1 .. Len(p) : SubSeq(p, 1, k) \notin Dirs \ DOMAIN AllLinks(fs)}

\* p with the link at place k replaced by its target.
Through(fs, p, k) ==
  AllLinks(fs)[SubSeq(p, 1, k)] \o SubSeq(p, k + 1, Len(p))

\* filepath.EvalSymlinks (external) in file system fs; n is the number of links
\* it may still follow.
EvalSymlinks(fs, p) ==
  LET Walk[n \in 0 .. MaxHops] ==
        [q \in Seq(Segments) |->
           IF Stops(fs, q) = {} THEN q
           ELSE LET k == Min(Stops(fs, q)) IN
                IF n > 0 /\ SubSeq(q, 1, k) \in DOMAIN AllLinks(fs)
                THEN Walk[n - 1][Through(fs, q, k)]
                ELSE NoPath]
  IN Walk[MaxHops][p]

ResolvePath(fs, p) ==
  LET resolved == EvalSymlinks(fs, Clean(p))
  IN IF resolved = NoPath THEN Clean(p) ELSE resolved

\* Mutant: the workspace root without the user.
AnyWorkspace(fs, p, u) == IsPrefix(<<"Users", "Workspaces">>, p)

IsPathAllowed(fs, p, u) ==
  LET literal == <<"var", "run", "isolator-docker", SockOf[u]>> IN
  \/ IsPrefix(<<"Users", "Workspaces", u>>, p)
  \/ IsPrefix(<<"Users", u, "tmp">>, p)
  \/ IsPrefix(<<"Users", u, ".isolator-docker-proxy">>, p)
  \/ p = literal
  \/ p = EvalSymlinks(fs, literal) /\ p # NoPath

-----------------------------------------------------------------------------
(* create.go                                                                *)

networkAllowedForUser(n, u) == n \in {"", "default", "bridge", IsoNet[u]}

\* Mutant: the source is validated before it is resolved.
ValidatesUnresolved(fs, e, u) ==
  CASE e.kind = "tmpfs"  -> 200
    [] e.kind = "format" -> 400
    [] e.kind = "policy" -> 403
    [] e.kind = "bind"   -> IF IsPathAllowed(fs, Clean(e.source), u) THEN 200 ELSE 403

\* validateAndRewriteBind, validateAndRewriteMount
EntryStatus(fs, e, u) ==
  LET resolved == ResolvePath(fs, e.source) IN
  CASE e.kind = "tmpfs"  -> 200
    [] e.kind = "format" -> 400
    [] e.kind = "policy" -> 403
    [] e.kind = "bind"   ->
         IF /\ IsPathAllowed(fs, resolved, u)
            /\ \A i \in DOMAIN resolved : resolved[i] \notin SockSegs
         THEN 200 ELSE 403

\* Mutant: the source is forwarded as the client wrote it.
KeepsSource(fs, e) == e

RewriteSource(fs, e) ==
  IF e.kind = "bind" THEN [e EXCEPT !.source = ResolvePath(fs, @)] ELSE e

OnFlaw(b, flaw, code) == IF flaw \in b.flaws THEN code ELSE 200
Policy(ok) == IF ok THEN 200 ELSE 403

\* The checks of CheckCreate in their order: those before the bind sources,
FirstVerdicts(b, u) ==
  << OnFlaw(b, "size", 413), OnFlaw(b, "json", 400),
     OnFlaw(b, "userType", 400), OnFlaw(b, "rootUser", 403),
     OnFlaw(b, "hostConfigType", 400), OnFlaw(b, "dangerousField", 403),
     OnFlaw(b, "extraHostsType", 400), OnFlaw(b, "extraHosts", 403),
     OnFlaw(b, "networkModeType", 400), Policy(networkAllowedForUser(b.network, u)),
     OnFlaw(b, "bindsOrMountsType", 400) >>

\* those of the sources, in their order in the body,
EntryVerdicts(fs, b, u) == [i \in DOMAIN b.entries |-> EntryStatus(fs, b.entries[i], u)]

\* and those after them.
LastVerdicts(b, u) ==
  << OnFlaw(b, "networkingConfigType", 400), OnFlaw(b, "endpointsType", 400),
     Policy(\A n \in b.endpoints : networkAllowedForUser(n, u)) >>

Verdicts(fs, b, u) == FirstVerdicts(b, u) \o EntryVerdicts(fs, b, u) \o LastVerdicts(b, u)

\* The first check that fails decides.
FirstFailure(verdicts) ==
  LET bad == SelectInSeq(verdicts, LAMBDA code : code # 200)
  IN IF bad = 0 THEN 200 ELSE verdicts[bad]

Status(fs, b, u) == FirstFailure(Verdicts(fs, b, u))

\* The body CheckCreate serialises when every check has passed.
Rewritten(fs, b, u) ==
  [b EXCEPT !.entries = [i \in DOMAIN @ |-> RewriteSource(fs, @[i])],
            !.labels = u]

-----------------------------------------------------------------------------
Init ==
  /\ links \in UNION {[L -> Targets] : L \in SUBSET UserLinks}
  /\ user \in Users /\ body \in Bodies
  /\ phase = "received"
  /\ forwarded = body /\ fsAtCheck = links /\ mounted = <<>>

\* handleContainerCreate: check, rewrite, forward.
CheckCreate ==
  /\ phase = "received"
  /\ fsAtCheck' = links
  /\ \/ /\ Status(links, body, user) = 200
        /\ forwarded' = Rewritten(links, body, user) /\ phase' = "forwarded"
     \/ Status(links, body, user) # 200 /\ phase' = "refused" /\ UNCHANGED forwarded
  /\ UNCHANGED <<links, user, body, mounted>>

\* The daemon (external) follows the sources when it mounts them.
Mount ==
  /\ phase = "forwarded" /\ phase' = "mounted"
  /\ mounted' = [i \in DOMAIN forwarded.entries |->
                   IF forwarded.entries[i].kind = "bind"
                   THEN EvalSymlinks(links, forwarded.entries[i].source) ELSE <<>>]
  /\ UNCHANGED <<links, user, body, forwarded, fsAtCheck>>

\* After the check the user points a symbolic link elsewhere, puts a new one
\* where nothing or a directory was, or takes one away (external).  What the
\* links are before it is any of Init's choices.
Relink(p, t) ==
  /\ phase = "forwarded"
  /\ links' = [q \in DOMAIN links \cup {p} |-> IF q = p THEN t ELSE links[q]]
  /\ UNCHANGED <<user, phase, body, forwarded, fsAtCheck, mounted>>

Unlink(p) ==
  /\ phase = "forwarded" /\ p \in DOMAIN links
  /\ links' = [q \in DOMAIN links \ {p} |-> links[q]]
  /\ UNCHANGED <<user, phase, body, forwarded, fsAtCheck, mounted>>

Next ==
  \/ CheckCreate \/ Mount
  \/ \E p \in UserLinks : Unlink(p) \/ \E t \in Targets : Relink(p, t)

Spec == Init /\ [][Next]_vars

-----------------------------------------------------------------------------
(* Properties                                                               *)

\* Entry i is a bind whose source existed when CheckCreate looked.
Existed(i) ==
  /\ body.entries[i].kind = "bind"
  /\ EvalSymlinks(fsAtCheck, Clean(body.entries[i].source)) # NoPath

\* What CheckCreate resolved and validated for entry i.
Validated(i) == ResolvePath(fsAtCheck, body.entries[i].source)

\* There is a link now in place of a directory on the way along p.
Replaced(p) == \E k \in 1 .. Len(p) : SubSeq(p, 1, k) \in DOMAIN links

\* What the rewriting in validateAndRewriteBind achieves, and what it does not:
\* for a source that existed at the check, the daemon mounts the directory that
\* was validated, one of the user's own, wherever the links of the source lead
\* by then and whatever links there are elsewhere; unless the user has put a
\* link in place of that very directory or of one above it, and then it never
\* does.
MountsWhatWasValidated ==
  phase = "mounted" =>
    \A i \in DOMAIN mounted :
      Existed(i) => /\ IsPathAllowed(fsAtCheck, Validated(i), user)
                    /\ mounted[i] = Validated(i) <=> ~Replaced(Validated(i))

\* A rewritten body is one CheckCreate accepts as it is: a client that inspects
\* its container and submits the same sources again gets the same container.
RewriteIsStable ==
  phase = "forwarded" =>
    /\ Status(fsAtCheck, forwarded, user) = 200
    /\ Rewritten(fsAtCheck, forwarded, user) = forwarded

\* What one user's proxy accepts with a bind mount or with a per-user network,
\* another user's proxy refuses: the roots and the networks
\* of two users have nothing in common.
AcceptedForOneUser ==
  phase = "forwarded" =>
    \A other \in Users \ {user} :
      \/ Status(fsAtCheck, forwarded, other) # 200
      \/ /\ \A i \in DOMAIN forwarded.entries : forwarded.entries[i].kind # "bind"
         /\ IsoNet[user] \notin forwarded.endpoints \cup {forwarded.network}

-----------------------------------------------------------------------------
(* Refuted                                                                  *)

\* "Docker will mount what we validated, not what a symlink might later point
\* to" (docs/docker-proxy-go-spec.md:633): the daemon mounts what was validated,
\* whatever the user does to the file system after the check.
MountsOnlyWhatWasValidated ==
  phase = "mounted" => \A i \in DOMAIN mounted : Existed(i) => mounted[i] = Validated(i)

=============================================================================

--------------------------- MODULE ProxyLifecycle ---------------------------
(***************************************************************************)
(* How one user's docker-proxy comes and goes: ensure_docker_proxy and     *)
(* ensure_proxy_tls_certs of bin/iso, run by every "iso <user> ..."        *)
(* session, against the start-up and shut-down of the proxy processes they *)
(* launch (cmd/docker-proxy/main.go, tls_init.go).                         *)
(*                                                                         *)
(* They meet in the file system and the port space: <user>.pid, the socket *)
(* path, the certificate directory and the user's loopback ports, which    *)
(* any program of any account may bind while no proxy holds them.  The     *)
(* user is a restricted one with an allowlist file, so that every proxy    *)
(* loads it and binds ports (the CONNECT and the TLS port count as one).   *)
(***************************************************************************)
EXTENDS Naturals, FiniteSets

CONSTANTS
  Sessions,   \* iso processes that may run at the same time
  MaxProxies, \* bound: launches
  MaxKills,   \* bound: proxies ended from outside
  MaxReuses   \* bound: pids that go to another user's proxy

ASSUME LifecycleAssumption ==
  /\ IsFiniteSet(Sessions) /\ MaxProxies \in Nat /\ MaxKills \in Nat
  /\ MaxReuses \in Nat

Proxies == 1 .. MaxProxies

VARIABLES
  step,      \* step[s]: where session s is in ensure_docker_proxy
  result,    \* result[s]: what it last returned
  withCerts, \* withCerts[s]: ensure_proxy_tls_certs returned a directory to launch with
  launched,  \* number of proxies launched
  child,     \* child[s]: the proxy s launched, until its pid is written (0: none)
  proxy,     \* proxy[p]: where process p is
  tls,       \* tls[p]: p was given --tcp-port and --tls-cert-dir
  reused,    \* dead proxies whose pid another user's docker-proxy has by now
  pidFile,   \* the pid in <user>.pid (0: no file)
  sock,      \* the proxy whose socket the path leads to (0: no file)
  port,      \* the proxy that holds the ports (0: none; they may still be taken)
  certs,     \* the certificate files that exist
  kills,
  past       \* history: see Hinder and Disturb

files == <<pidFile, sock, port>>
sessVars == <<step, result, withCerts, child>>
procVars == <<launched, proxy, tls, reused>>
vars == <<sessVars, procVars, files, certs, kills, past>>

\* ca.pem (and ca.key), server.crt and server.key, cert.pem and key.pem.
CertFiles == {"ca", "server", "client"}

\* Alive: ps shows the process.  Bound: it has bound the socket.
Bound == {"bound", "owned", "ported", "serving"}
Alive == {"new", "cleaned"} \cup Bound

TypeOK ==
  /\ step \in [Sessions -> {"idle", "check", "rmPid", "rmSock", "upstream", "certs",
                            "server", "client", "launch", "spawn", "pid", "poll",
                            "failPid", "failSock"}]
  /\ result \in [Sessions -> {"none", "ready", "failed", "unavailable"}]
  /\ withCerts \in [Sessions -> BOOLEAN]
  /\ launched \in 0 .. MaxProxies
  /\ child \in [Sessions -> 0 .. MaxProxies]
  /\ proxy \in [Proxies -> Alive \cup {"none", "exited", "stopped", "killed"}]
  /\ tls \in [Proxies -> BOOLEAN]
  /\ reused \subseteq {p \in Proxies : proxy[p] \notin Alive}
  /\ pidFile \in 0 .. MaxProxies /\ sock \in 0 .. MaxProxies /\ port \in 0 .. MaxProxies
  /\ certs \subseteq CertFiles
  /\ kills \in 0 .. MaxKills
  /\ past \in {"calm", "hindered", "disturbed"}

Init ==
  /\ step = [s \in Sessions |-> "idle"]
  /\ result = [s \in Sessions |-> "none"]
  /\ withCerts = [s \in Sessions |-> FALSE]
  /\ launched = 0
  /\ child = [s \in Sessions |-> 0]
  /\ proxy = [p \in Proxies |-> "none"]
  /\ tls = [p \in Proxies |-> FALSE]
  /\ reused = {}
  /\ pidFile = 0 /\ sock = 0 /\ port = 0
  /\ certs = {}
  /\ kills = 0
  /\ past = "calm"

\* What the history remembers: a proxy could not read its allowlist, or met a
\* program that is no proxy of this user on its ports; two sessions overlapped, a
\* session gave up waiting, was interrupted or failed to write a certificate, or
\* a proxy was ended while a session ran.
Hinder == past' = IF past = "calm" THEN "hindered" ELSE past
Disturb(cond) == past' = IF cond THEN "disturbed" ELSE past
disturbed == past = "disturbed"
Busy == {s \in Sessions : step[s] # "idle"}

-----------------------------------------------------------------------------
(* ensure_docker_proxy                                                      *)

Go(s, to) == step' = [step EXCEPT ![s] = to]
Return(s, r) == Go(s, "idle") /\ result' = [result EXCEPT ![s] = r]

Enter(s) ==
  /\ step[s] = "idle" /\ launched < MaxProxies
  /\ Go(s, "check") /\ result' = [result EXCEPT ![s] = "none"]
  /\ Disturb(Busy # {})
  /\ UNCHANGED <<withCerts, child, procVars, files, certs, kills>>

\* Mutants: ps is matched against the wrong name; the pid file is taken for a
\* live process.
PidNeverMatches == FALSE
PidTrusted == pidFile # 0

\* ps shows a docker-proxy under the pid in the pid file: whose, it does not say.
PidAlive == pidFile # 0 /\ (proxy[pidFile] \in Alive \/ pidFile \in reused)
SockExists == sock # 0

CheckRunning(s) ==
  /\ step[s] = "check"
  /\ \/ PidAlive /\ SockExists /\ Return(s, "ready")
     \/ pidFile # 0 /\ ~(PidAlive /\ SockExists) /\ Go(s, "rmPid") /\ UNCHANGED result
     \/ pidFile = 0 /\ Go(s, "upstream") /\ UNCHANGED result
  /\ UNCHANGED <<withCerts, child, procVars, files, certs, kills, past>>

RemovePidFile(s) ==
  /\ step[s] \in {"rmPid", "failPid"}
  /\ pidFile' = 0
  /\ Go(s, IF step[s] = "rmPid" THEN "rmSock" ELSE "failSock")
  /\ UNCHANGED <<result, withCerts, child, procVars, sock, port, certs, kills, past>>

RemoveSocket(s) ==
  /\ step[s] \in {"rmSock", "failSock"}
  /\ sock' = 0
  /\ \/ step[s] = "rmSock" /\ Go(s, "upstream") /\ UNCHANGED result
     \/ step[s] = "failSock" /\ Return(s, "failed")
  /\ UNCHANGED <<withCerts, child, procVars, pidFile, port, certs, kills, past>>

\* upstream.exists()
FindUpstream(s) ==
  /\ step[s] = "upstream"
  /\ \/ Go(s, "certs") /\ UNCHANGED result
     \/ Return(s, "unavailable")
  /\ UNCHANGED <<withCerts, child, procVars, files, certs, kills, past>>

\* Mutant: the tree is taken for granted.
TreeAssumed == TRUE

\* ca.pem is taken for the whole tree, by iso and by --init-tls alike.
TreeExists == "ca" \in certs

\* Mutant: iso goes on as soon as --init-tls has been started.
EnsureCertsAsync(s) ==
  /\ step[s] = "certs" /\ Go(s, "launch")
  /\ withCerts' = [withCerts EXCEPT ![s] = TRUE]
  /\ certs' = certs \cup {"ca"}
  /\ UNCHANGED <<result, child, procVars, files, kills, past>>

\* ensure_proxy_tls_certs: the tree is there, or generateCerts starts.
EnsureCerts(s) ==
  /\ step[s] = "certs"
  /\ \/ /\ TreeExists /\ Go(s, "launch")
        /\ withCerts' = [withCerts EXCEPT ![s] = TRUE]
        /\ UNCHANGED certs
     \/ /\ ~TreeExists /\ Go(s, "server")
        /\ certs' = certs \cup {"ca"}
        /\ UNCHANGED withCerts
  /\ UNCHANGED <<result, child, procVars, files, kills, past>>

GenerateCerts(s) ==
  /\ \/ /\ step[s] = "server" /\ Go(s, "client")
        /\ certs' = certs \cup {"server"}
        /\ UNCHANGED withCerts
     \/ /\ step[s] = "client" /\ Go(s, "launch")
        /\ certs' = certs \cup {"client"}
        /\ withCerts' = [withCerts EXCEPT ![s] = TRUE]
  /\ UNCHANGED <<result, child, procVars, files, kills, past>>

\* A write fails: --init-tls exits 1, iso warns and does without TLS.
GenerateCertsFails(s) ==
  /\ step[s] \in {"certs", "server", "client"}
  /\ step[s] = "certs" => ~TreeExists
  /\ Go(s, "launch") /\ Disturb(TRUE)
  /\ UNCHANGED <<result, withCerts, child, procVars, files, certs, kills>>

\* "rm -f <sock> <pid>; nohup docker-proxy ... & echo $! > <pid>"
RemoveBoth(s) ==
  /\ step[s] = "launch" /\ Go(s, "spawn")
  /\ sock' = 0 /\ pidFile' = 0
  /\ UNCHANGED <<result, withCerts, child, procVars, port, certs, kills, past>>

Spawn(s) ==
  /\ step[s] = "spawn" /\ launched < MaxProxies /\ Go(s, "pid")
  /\ launched' = launched + 1
  /\ proxy' = [proxy EXCEPT ![launched + 1] = "new"]
  /\ tls' = [tls EXCEPT ![launched + 1] = withCerts[s]]
  /\ child' = [child EXCEPT ![s] = launched + 1]
  /\ withCerts' = [withCerts EXCEPT ![s] = FALSE]
  /\ UNCHANGED <<result, reused, files, certs, kills, past>>

WritePid(s) ==
  /\ step[s] = "pid" /\ Go(s, "poll")
  /\ pidFile' = child[s] /\ child' = [child EXCEPT ![s] = 0]
  /\ UNCHANGED <<result, withCerts, procVars, sock, port, certs, kills, past>>

\* Mutant: the wait lasts as long as the process.
PollForever(s) ==
  /\ step[s] = "poll"
  /\ \/ SockExists /\ Return(s, "ready")
     \/ ~SockExists /\ ~PidAlive /\ Go(s, "failPid") /\ UNCHANGED result
  /\ UNCHANGED <<withCerts, child, procVars, files, certs, kills, past>>

\* Up to ten looks for the socket; a dead or missing pid, or the tenth look,
\* ends the wait.
Poll(s) ==
  /\ step[s] = "poll"
  /\ \/ SockExists /\ Return(s, "ready") /\ UNCHANGED past
     \/ /\ ~SockExists /\ Go(s, "failPid")
        /\ Disturb(PidAlive) /\ UNCHANGED result
  /\ UNCHANGED <<withCerts, child, procVars, files, certs, kills>>

\* Ctrl-C, a closed terminal or a refused sudo.
Interrupt(s) ==
  /\ step[s] # "idle" /\ Go(s, "idle") /\ Disturb(TRUE)
  /\ withCerts' = [withCerts EXCEPT ![s] = FALSE]
  /\ child' = [child EXCEPT ![s] = 0]
  /\ UNCHANGED <<result, procVars, files, certs, kills>>

-----------------------------------------------------------------------------
(* The proxy process                                                        *)

Becomes(p, pc) == proxy' = [proxy EXCEPT ![p] = pc]
Released(p) == IF port = p THEN 0 ELSE port

\* cleanup(): the listener's Close and os.Remove unlink the path, whoever's
\* socket it leads to by now.
Cleanup(p, pc) ==
  Becomes(p, pc) /\ sock' = 0 /\ port' = Released(p) /\ UNCHANGED pidFile

RemoveStale(p) ==
  /\ proxy[p] = "new" /\ Becomes(p, "cleaned")
  /\ sock' = 0
  /\ UNCHANGED <<sessVars, launched, tls, reused, pidFile, port, certs, kills, past>>

\* net.Listen("unix"): fatal if the path exists again.
Bind(p) ==
  /\ proxy[p] = "cleaned"
  /\ \/ sock = 0 /\ sock' = p /\ Becomes(p, "bound")
     \/ sock # 0 /\ Becomes(p, "exited") /\ UNCHANGED sock
  /\ UNCHANGED <<sessVars, launched, tls, reused, pidFile, port, certs, kills, past>>

\* chown and chmod go by path: fatal if it is gone.  Then signal.Notify.
TakeOwnership(p) ==
  /\ proxy[p] = "bound"
  /\ \/ sock # 0 /\ Becomes(p, "owned") /\ UNCHANGED files
     \/ sock = 0 /\ Cleanup(p, "exited")
  /\ UNCHANGED <<sessVars, launched, tls, reused, certs, kills, past>>

\* The CONNECT and the TLS listener; a port in use is fatal.
ListenPorts(p) ==
  /\ proxy[p] = "owned"
  /\ \/ port = 0 /\ port' = p /\ Becomes(p, "ported") /\ UNCHANGED <<pidFile, sock>>
     \/ port # 0 /\ Cleanup(p, "exited")
  /\ UNCHANGED <<sessVars, launched, tls, reused, certs, kills, past>>

\* The same, when LoadHostAllowlist cannot read the file that iso saw, or when
\* a program that is no proxy of this user holds one of the ports.
CannotListen(p) ==
  /\ proxy[p] = "owned" /\ Cleanup(p, "exited") /\ Hinder
  /\ UNCHANGED <<sessVars, launched, tls, reused, certs, kills>>

\* loadServerTLS reads ca.pem, server.crt and server.key.
LoadsTLS == {"ca", "server"} \subseteq certs

StartServing(p) ==
  /\ proxy[p] = "ported"
  /\ \/ (tls[p] => LoadsTLS) /\ Becomes(p, "serving") /\ UNCHANGED files
     \/ tls[p] /\ ~LoadsTLS /\ Cleanup(p, "exited")
  /\ UNCHANGED <<sessVars, launched, tls, reused, certs, kills, past>>

\* SIGTERM or SIGINT with the handler installed.
Terminate(p) ==
  /\ proxy[p] \in {"owned", "ported", "serving"} /\ kills < MaxKills
  /\ kills' = kills + 1 /\ Cleanup(p, "stopped") /\ Disturb(Busy # {})
  /\ UNCHANGED <<sessVars, launched, tls, reused, certs>>

\* SIGKILL, a panic, or SIGTERM before the handler: the socket file stays.
Kill(p) ==
  /\ proxy[p] \in Alive /\ kills < MaxKills
  /\ kills' = kills + 1 /\ Becomes(p, "killed") /\ port' = Released(p)
  /\ Disturb(Busy # {})
  /\ UNCHANGED <<sessVars, launched, tls, reused, pidFile, sock, certs>>

\* The kernel gives the pid of a dead proxy to the proxy of another user.
ReusePid(p) ==
  /\ proxy[p] \in {"exited", "stopped", "killed"} /\ p \notin reused
  /\ Cardinality(reused) < MaxReuses
  /\ reused' = reused \cup {p}
  /\ UNCHANGED <<sessVars, launched, proxy, tls, files, certs, kills, past>>

-----------------------------------------------------------------------------
SessionStep(s) ==
  \/ CheckRunning(s) \/ RemovePidFile(s) \/ RemoveSocket(s) \/ FindUpstream(s)
  \/ EnsureCerts(s) \/ GenerateCerts(s) \/ GenerateCertsFails(s)
  \/ RemoveBoth(s) \/ Spawn(s) \/ WritePid(s) \/ Poll(s)

ProxyStep(p) ==
  \/ RemoveStale(p) \/ Bind(p) \/ TakeOwnership(p)
  \/ ListenPorts(p) \/ CannotListen(p) \/ StartServing(p)

Next ==
  \/ \E s \in Sessions : Enter(s) \/ SessionStep(s) \/ Interrupt(s)
  \/ \E p \in Proxies : ProxyStep(p) \/ Terminate(p) \/ Kill(p) \/ ReusePid(p)

Spec == Init /\ [][Next]_vars

\* iso and the proxies are scheduled; the poll loop is bounded.
FairSpec ==
  /\ Spec
  /\ \A s \in Sessions : WF_vars(SessionStep(s))
  /\ \A p \in Proxies : WF_vars(ProxyStep(p))

-----------------------------------------------------------------------------
(* Properties                                                               *)

\* Sessions that run one after the other never have two proxies alive, whatever
\* a crash of the last proxy left behind, and the socket path leads to the live
\* one as soon as it has bound it ("Start per-user Docker proxy if not already
\* running").  A session that gives up after the tenth look counts as a
\* disturbance: it removes the files of a proxy that is slow and alive, which
\* then binds the socket unknown to the next session, and there are two.
OneReachableProxy ==
  ~disturbed =>
    /\ \A p, q \in Proxies : {proxy[p], proxy[q]} \subseteq Alive => p = q
    /\ \A p \in Proxies : proxy[p] \in Bound => sock = p

\* A session that nothing disturbed, now or earlier, only fails if a proxy could
\* not read its allowlist or found somebody else on its ports: stale pid files,
\* stale sockets and the ports of an earlier proxy are no obstacle.
RecoversFromCrash ==
  \A s \in Sessions : result[s] = "failed" => past # "calm"

\* "ready" means that the user's own proxy is there, unless its pid was reused
\* or sessions disturbed each other.
Answers(s) == step[s] \in {"check", "poll"} /\ step'[s] = "idle" /\ result'[s] = "ready"
OwnProxyBound == sock # 0 /\ proxy[sock] \in Bound
ReadyIsBound ==
  [][\A s \in Sessions :
       Answers(s) /\ ~disturbed /\ reused = {} => OwnProxyBound]_vars

\* The same, pids being reused ("Start per-user Docker proxy if not already
\* running").
ReadyIsBoundDespiteReuse ==
  [][\A s \in Sessions : Answers(s) /\ ~disturbed => OwnProxyBound]_vars

\* What may still end a proxy after its socket has appeared, and so after a
\* session has answered "ready", unless sessions disturb each other: an allowlist
\* that cannot be read, or a program that is no proxy of this user on its ports.
\* Never the removal of its socket, the ports of an earlier proxy of the user, or
\* certificates that are not all there.
Fails(p) == proxy[p] \in Bound /\ proxy'[p] = "exited"
MeetsNoProxy(p) == proxy[p] = "owned" /\ port = 0
BoundFailsForOthers ==
  [][\A p \in Proxies :
       Fails(p) => disturbed \/ MeetsNoProxy(p)]_vars

\* Every session returns: the wait for the socket is bounded.
SessionsReturn ==
  \A s \in Sessions : step[s] # "idle" ~> step[s] = "idle" \/ launched = MaxProxies

\* "Start per-user Docker proxy if not already running", for any sessions.
OneProxy == Cardinality({p \in Proxies : proxy[p] \in Alive}) <= 1

\* "Idempotent: skips generation if files already exist" (--init-tls): with no
\* generation under way, a session that was given the directory has the files
\* the server loads.
TreeIsComplete ==
  \A s \in Sessions :
    /\ withCerts[s]
    /\ \A t \in Sessions : step[t] \notin {"server", "client"}
    => LoadsTLS

=============================================================================

------------------------ MODULE ProxyLifecycleProofs ------------------------
(***************************************************************************)
(* Theorems about ProxyLifecycle, for any number of sessions, proxies,     *)
(* kills and reused pids.                                                  *)
(***************************************************************************)
EXTENDS ProxyLifecycle, TLAPS

-----------------------------------------------------------------------------
(* What holds of the processes, disturbed or not.                           *)

\* A proxy that was not launched yet has no state and no pid to be reused.
Unborn == \A p \in Proxies : p > launched => proxy[p] = "none" /\ p \notin reused

\* The ports belong to a live process, which got beyond listening on them.
PortHeld == port # 0 => proxy[port] \in {"ported", "serving"}

\* A session under way has not answered yet.
Pending == \A s \in Sessions : step[s] # "idle" => result[s] = "none"

-----------------------------------------------------------------------------
(* What holds as long as nothing was disturbed: one session at a time, and  *)
(* from its step follows which proxy lives and where the files lead.        *)

Lives(p) == proxy[p] \in Alive

Alone == \A s, t \in Sessions : step[s] # "idle" /\ step[t] # "idle" => s = t

OneAlive == \A p, q \in Proxies : Lives(p) /\ Lives(q) => p = q

\* From the moment a session found no usable proxy until it launches one, and
\* when it gives up on one.
Replacing == {"rmPid", "rmSock", "upstream", "certs", "server", "client", "launch", "spawn",
              "failPid", "failSock"}
NoneLives == \A s \in Sessions : step[s] \in Replacing => \A p \in Proxies : ~Lives(p)

\* The path leads to a proxy that has bound it; until then the session that
\* launched the proxy is waiting and there is no socket, nor is there one if the
\* proxy could not go on.
SocketFollows ==
  /\ \A s \in Sessions : step[s] = "spawn" => sock = 0
  /\ \A p \in Proxies : proxy[p] \in Bound => sock = p
  /\ \A p \in Proxies : proxy[p] \in {"new", "cleaned"} =>
       sock = 0 /\ \E s \in Sessions : step[s] \in {"pid", "poll"}
  /\ \A s \in Sessions : step[s] \in {"pid", "poll"} /\ sock # 0 =>
       sock \in Proxies /\ proxy[sock] \in Bound

\* The pid of a live proxy is in the file or about to be written there, and a
\* session writes and watches the pid of a live proxy, unless that was hindered.
PidFollows ==
  /\ \A p \in Proxies : Lives(p) =>
       pidFile = p \/ \E s \in Sessions : step[s] = "pid" /\ child[s] = p
  /\ \A s \in Sessions : step[s] \in {"spawn", "pid"} => pidFile = 0
  /\ \A s \in Sessions : step[s] = "pid" /\ past = "calm" =>
       child[s] # 0 /\ Lives(child[s])
  /\ \A s \in Sessions : step[s] = "poll" /\ past = "calm" =>
       pidFile # 0 /\ Lives(pidFile)

\* Only a hindered proxy makes a session fail.
NoFailure ==
  \A s \in Sessions :
    step[s] \in {"failPid", "failSock"} \/ result[s] = "failed" => past # "calm"

\* ca.pem stands for the tree, except while the rest is being written.
CertsFollow ==
  /\ "ca" \in certs => "server" \in certs \/ \E s \in Sessions : step[s] = "server"
  /\ \A s \in Sessions :
       /\ step[s] = "server" => "ca" \in certs
       /\ step[s] = "client" \/ withCerts[s] => LoadsTLS
  /\ \A p \in Proxies : Lives(p) /\ tls[p] => LoadsTLS

Orderly ==
  Alone /\ OneAlive /\ NoneLives /\ SocketFollows /\ PidFollows /\ NoFailure /\ CertsFollow

LifecycleInv == TypeOK /\ Unborn /\ PortHeld /\ Pending /\ (~disturbed => Orderly)

-----------------------------------------------------------------------------
(* Types, processes and ports.                                              *)

\* Bounds hold by the guards; a dead proxy's pid is reused only once it was launched.
LEMMA TypeNext ==
  TypeOK /\ Unborn /\ [Next]_vars => TypeOK'
<1> SUFFICES ASSUME TypeOK, Unborn, [Next]_vars PROVE TypeOK'
  OBVIOUS
<1> USE LifecycleAssumption DEF vars, sessVars, procVars, files, Go, Return, Becomes,
      Released, Cleanup, Proxies, Alive, Bound, TypeOK, Unborn, Disturb, CertFiles
<1>1. ASSUME NEW s \in Sessions, Enter(s) PROVE TypeOK'
  BY <1>1 DEF Enter, Disturb, disturbed, Busy
<1>2. ASSUME NEW s \in Sessions, CheckRunning(s) PROVE TypeOK'
  BY <1>2 DEF CheckRunning, PidAlive, SockExists
<1>3. ASSUME NEW s \in Sessions, RemovePidFile(s) PROVE TypeOK'
  BY <1>3 DEF RemovePidFile
<1>4. ASSUME NEW s \in Sessions, RemoveSocket(s) PROVE TypeOK'
  <2>1. \E x \in {"upstream", "idle"} : step' = [step EXCEPT ![s] = x]
    BY <1>4 DEF RemoveSocket
  <2>2. step' \in [Sessions -> {"idle", "check", "rmPid", "rmSock", "upstream", "certs",
                  "server", "client", "launch", "spawn", "pid", "poll", "failPid", "failSock"}]
    BY <2>1
  <2>3. result' \in [Sessions -> {"none", "ready", "failed", "unavailable"}]
    BY <1>4 DEF RemoveSocket
  <2> QED
    BY <1>4, <2>2, <2>3 DEF RemoveSocket
<1>5. ASSUME NEW s \in Sessions, FindUpstream(s) PROVE TypeOK'
  BY <1>5 DEF FindUpstream
<1>6. ASSUME NEW s \in Sessions, EnsureCerts(s) PROVE TypeOK'
  BY <1>6 DEF EnsureCerts, TreeExists, CertFiles
<1>7. ASSUME NEW s \in Sessions, GenerateCerts(s) PROVE TypeOK'
  BY <1>7 DEF GenerateCerts, CertFiles
<1>8. ASSUME NEW s \in Sessions, GenerateCertsFails(s) PROVE TypeOK'
  BY <1>8 DEF GenerateCertsFails, Disturb, disturbed, Busy
<1>9. ASSUME NEW s \in Sessions, RemoveBoth(s) PROVE TypeOK'
  BY <1>9 DEF RemoveBoth
<1>10. ASSUME NEW s \in Sessions, Spawn(s) PROVE TypeOK'
  BY <1>10 DEF Spawn
<1>11. ASSUME NEW s \in Sessions, WritePid(s) PROVE TypeOK'
  BY <1>11 DEF WritePid
<1>12. ASSUME NEW s \in Sessions, Poll(s) PROVE TypeOK'
  BY <1>12 DEF Poll, PidAlive, SockExists, Disturb, disturbed, Busy
<1>13. ASSUME NEW s \in Sessions, Interrupt(s) PROVE TypeOK'
  BY <1>13 DEF Interrupt, Disturb, disturbed, Busy
<1>14. ASSUME NEW p \in Proxies, RemoveStale(p) PROVE TypeOK'
  BY <1>14 DEF RemoveStale
<1>15. ASSUME NEW p \in Proxies, Bind(p) PROVE TypeOK'
  BY <1>15 DEF Bind
<1>16. ASSUME NEW p \in Proxies, TakeOwnership(p) PROVE TypeOK'
  BY <1>16 DEF TakeOwnership
<1>17. ASSUME NEW p \in Proxies, ListenPorts(p) PROVE TypeOK'
  <2>1. proxy' \in [Proxies -> Alive \cup {"none", "exited", "stopped", "killed"}]
    BY <1>17 DEF ListenPorts
  <2>2. {sock', port'} \subseteq 0 .. MaxProxies
    BY <1>17 DEF ListenPorts
  <2>3. reused' \subseteq {q \in Proxies : proxy'[q] \notin Alive}
    BY <1>17 DEF ListenPorts
  <2> QED
    BY <1>17, <2>1, <2>2, <2>3 DEF ListenPorts
<1>18. ASSUME NEW p \in Proxies, StartServing(p) PROVE TypeOK'
  BY <1>18 DEF StartServing, LoadsTLS
<1>19. ASSUME NEW p \in Proxies, Terminate(p) PROVE TypeOK'
  BY <1>19 DEF Terminate, Disturb, disturbed, Busy
<1>20. ASSUME NEW p \in Proxies, Kill(p) PROVE TypeOK'
  BY <1>20 DEF Kill, Disturb, disturbed, Busy
<1>21. ASSUME NEW p \in Proxies, ReusePid(p) PROVE TypeOK'
  BY <1>21 DEF ReusePid
<1>22. ASSUME NEW p \in Proxies, CannotListen(p) PROVE TypeOK'
  BY <1>22 DEF CannotListen, Hinder
<1>23. CASE UNCHANGED vars
  BY <1>23
<1> QED
  BY <1>1, <1>2, <1>3, <1>4, <1>5, <1>6, <1>7, <1>8, <1>9, <1>10, <1>11, <1>12,
     <1>13, <1>14, <1>15, <1>16, <1>17, <1>18, <1>19, <1>20, <1>21, <1>22, <1>23 DEF Next,
          SessionStep, ProxyStep

\* A launch takes the next number.
LEMMA UnbornNext ==
  TypeOK /\ Unborn /\ [Next]_vars => Unborn'
<1> SUFFICES ASSUME TypeOK, Unborn, [Next]_vars PROVE Unborn'
  OBVIOUS
<1> USE LifecycleAssumption DEF vars, sessVars, procVars, files, Go, Return, Becomes,
      Released, Cleanup, Proxies, Alive, Bound, TypeOK, Unborn
<1>1. ASSUME NEW s \in Sessions, Enter(s) PROVE Unborn'
  BY <1>1 DEF Enter
<1>2. ASSUME NEW s \in Sessions, CheckRunning(s) PROVE Unborn'
  BY <1>2 DEF CheckRunning, PidAlive, SockExists
<1>3. ASSUME NEW s \in Sessions, RemovePidFile(s) PROVE Unborn'
  BY <1>3 DEF RemovePidFile
<1>4. ASSUME NEW s \in Sessions, RemoveSocket(s) PROVE Unborn'
  BY <1>4 DEF RemoveSocket
<1>5. ASSUME NEW s \in Sessions, FindUpstream(s) PROVE Unborn'
  BY <1>5 DEF FindUpstream
<1>6. ASSUME NEW s \in Sessions, EnsureCerts(s) PROVE Unborn'
  BY <1>6 DEF EnsureCerts, TreeExists, CertFiles
<1>7. ASSUME NEW s \in Sessions, GenerateCerts(s) PROVE Unborn'
  BY <1>7 DEF GenerateCerts, CertFiles
<1>8. ASSUME NEW s \in Sessions, GenerateCertsFails(s) PROVE Unborn'
  BY <1>8 DEF GenerateCertsFails
<1>9. ASSUME NEW s \in Sessions, RemoveBoth(s) PROVE Unborn'
  BY <1>9 DEF RemoveBoth
<1>10. ASSUME NEW s \in Sessions, Spawn(s) PROVE Unborn'
  BY <1>10 DEF Spawn
<1>11. ASSUME NEW s \in Sessions, WritePid(s) PROVE Unborn'
  BY <1>11 DEF WritePid
<1>12. ASSUME NEW s \in Sessions, Poll(s) PROVE Unborn'
  BY <1>12 DEF Poll, PidAlive, SockExists
<1>13. ASSUME NEW s \in Sessions, Interrupt(s) PROVE Unborn'
  BY <1>13 DEF Interrupt
<1>14. ASSUME NEW p \in Proxies, RemoveStale(p) PROVE Unborn'
  BY <1>14 DEF RemoveStale
<1>15. ASSUME NEW p \in Proxies, Bind(p) PROVE Unborn'
  BY <1>15 DEF Bind
<1>16. ASSUME NEW p \in Proxies, TakeOwnership(p) PROVE Unborn'
  BY <1>16 DEF TakeOwnership
<1>17. ASSUME NEW p \in Proxies, ListenPorts(p) PROVE Unborn'
  BY <1>17 DEF ListenPorts
<1>18. ASSUME NEW p \in Proxies, StartServing(p) PROVE Unborn'
  BY <1>18 DEF StartServing, LoadsTLS
<1>19. ASSUME NEW p \in Proxies, Terminate(p) PROVE Unborn'
  BY <1>19 DEF Terminate
<1>20. ASSUME NEW p \in Proxies, Kill(p) PROVE Unborn'
  BY <1>20 DEF Kill
<1>21. ASSUME NEW p \in Proxies, ReusePid(p) PROVE Unborn'
  BY <1>21 DEF ReusePid
<1>22. ASSUME NEW p \in Proxies, CannotListen(p) PROVE Unborn'
  BY <1>22 DEF CannotListen, Hinder
<1>23. CASE UNCHANGED vars
  BY <1>23
<1> QED
  BY <1>1, <1>2, <1>3, <1>4, <1>5, <1>6, <1>7, <1>8, <1>9, <1>10, <1>11, <1>12,
     <1>13, <1>14, <1>15, <1>16, <1>17, <1>18, <1>19, <1>20, <1>21, <1>22, <1>23 DEF Next,
          SessionStep, ProxyStep

\* A process that ends lets go of the ports.
LEMMA PortNext ==
  TypeOK /\ Unborn /\ PortHeld /\ [Next]_vars => PortHeld'
<1> SUFFICES ASSUME TypeOK, Unborn, PortHeld, [Next]_vars PROVE PortHeld'
  OBVIOUS
<1> USE LifecycleAssumption DEF vars, sessVars, procVars, files, Go, Return, Becomes,
      Released, Cleanup, Proxies, Alive, Bound, TypeOK, Unborn, PortHeld
<1>1. ASSUME NEW s \in Sessions, Enter(s) PROVE PortHeld'
  BY <1>1 DEF Enter
<1>2. ASSUME NEW s \in Sessions, CheckRunning(s) PROVE PortHeld'
  BY <1>2 DEF CheckRunning, PidAlive, SockExists
<1>3. ASSUME NEW s \in Sessions, RemovePidFile(s) PROVE PortHeld'
  BY <1>3 DEF RemovePidFile
<1>4. ASSUME NEW s \in Sessions, RemoveSocket(s) PROVE PortHeld'
  BY <1>4 DEF RemoveSocket
<1>5. ASSUME NEW s \in Sessions, FindUpstream(s) PROVE PortHeld'
  BY <1>5 DEF FindUpstream
<1>6. ASSUME NEW s \in Sessions, EnsureCerts(s) PROVE PortHeld'
  BY <1>6 DEF EnsureCerts, TreeExists, CertFiles
<1>7. ASSUME NEW s \in Sessions, GenerateCerts(s) PROVE PortHeld'
  BY <1>7 DEF GenerateCerts, CertFiles
<1>8. ASSUME NEW s \in Sessions, GenerateCertsFails(s) PROVE PortHeld'
  BY <1>8 DEF GenerateCertsFails
<1>9. ASSUME NEW s \in Sessions, RemoveBoth(s) PROVE PortHeld'
  BY <1>9 DEF RemoveBoth
<1>10. ASSUME NEW s \in Sessions, Spawn(s) PROVE PortHeld'
  BY <1>10 DEF Spawn
<1>11. ASSUME NEW s \in Sessions, WritePid(s) PROVE PortHeld'
  BY <1>11 DEF WritePid
<1>12. ASSUME NEW s \in Sessions, Poll(s) PROVE PortHeld'
  BY <1>12 DEF Poll, PidAlive, SockExists
<1>13. ASSUME NEW s \in Sessions, Interrupt(s) PROVE PortHeld'
  BY <1>13 DEF Interrupt
<1>14. ASSUME NEW p \in Proxies, RemoveStale(p) PROVE PortHeld'
  BY <1>14 DEF RemoveStale
<1>15. ASSUME NEW p \in Proxies, Bind(p) PROVE PortHeld'
  BY <1>15 DEF Bind
<1>16. ASSUME NEW p \in Proxies, TakeOwnership(p) PROVE PortHeld'
  BY <1>16 DEF TakeOwnership
<1>17. ASSUME NEW p \in Proxies, ListenPorts(p) PROVE PortHeld'
  BY <1>17 DEF ListenPorts
<1>18. ASSUME NEW p \in Proxies, StartServing(p) PROVE PortHeld'
  BY <1>18 DEF StartServing, LoadsTLS
<1>19. ASSUME NEW p \in Proxies, Terminate(p) PROVE PortHeld'
  BY <1>19 DEF Terminate
<1>20. ASSUME NEW p \in Proxies, Kill(p) PROVE PortHeld'
  BY <1>20 DEF Kill
<1>21. ASSUME NEW p \in Proxies, ReusePid(p) PROVE PortHeld'
  BY <1>21 DEF ReusePid
<1>22. ASSUME NEW p \in Proxies, CannotListen(p) PROVE PortHeld'
  BY <1>22 DEF CannotListen, Hinder
<1>23. CASE UNCHANGED vars
  BY <1>23
<1> QED
  BY <1>1, <1>2, <1>3, <1>4, <1>5, <1>6, <1>7, <1>8, <1>9, <1>10, <1>11, <1>12,
     <1>13, <1>14, <1>15, <1>16, <1>17, <1>18, <1>19, <1>20, <1>21, <1>22, <1>23 DEF Next,
          SessionStep, ProxyStep

\* A session answers as it returns.
LEMMA PendingNext ==
  TypeOK /\ Pending /\ [Next]_vars => Pending'
<1> SUFFICES ASSUME TypeOK, Pending, [Next]_vars PROVE Pending'
  OBVIOUS
<1> USE LifecycleAssumption DEF vars, sessVars, procVars, files, Go, Return, Becomes,
      Released, Cleanup, Proxies, Alive, Bound, TypeOK, Pending
<1>1. ASSUME NEW s \in Sessions, Enter(s) PROVE Pending'
  BY <1>1 DEF Enter
<1>2. ASSUME NEW s \in Sessions, CheckRunning(s) PROVE Pending'
  BY <1>2 DEF CheckRunning, PidAlive, SockExists
<1>3. ASSUME NEW s \in Sessions, RemovePidFile(s) PROVE Pending'
  BY <1>3 DEF RemovePidFile
<1>4. ASSUME NEW s \in Sessions, RemoveSocket(s) PROVE Pending'
  BY <1>4 DEF RemoveSocket
<1>5. ASSUME NEW s \in Sessions, FindUpstream(s) PROVE Pending'
  BY <1>5 DEF FindUpstream
<1>6. ASSUME NEW s \in Sessions, EnsureCerts(s) PROVE Pending'
  BY <1>6 DEF EnsureCerts, TreeExists, CertFiles
<1>7. ASSUME NEW s \in Sessions, GenerateCerts(s) PROVE Pending'
  BY <1>7 DEF GenerateCerts, CertFiles
<1>8. ASSUME NEW s \in Sessions, GenerateCertsFails(s) PROVE Pending'
  BY <1>8 DEF GenerateCertsFails
<1>9. ASSUME NEW s \in Sessions, RemoveBoth(s) PROVE Pending'
  BY <1>9 DEF RemoveBoth
<1>10. ASSUME NEW s \in Sessions, Spawn(s) PROVE Pending'
  BY <1>10 DEF Spawn
<1>11. ASSUME NEW s \in Sessions, WritePid(s) PROVE Pending'
  BY <1>11 DEF WritePid
<1>12. ASSUME NEW s \in Sessions, Poll(s) PROVE Pending'
  BY <1>12 DEF Poll, PidAlive, SockExists
<1>13. ASSUME NEW s \in Sessions, Interrupt(s) PROVE Pending'
  BY <1>13 DEF Interrupt
<1>14. ASSUME NEW p \in Proxies, RemoveStale(p) PROVE Pending'
  BY <1>14 DEF RemoveStale
<1>15. ASSUME NEW p \in Proxies, Bind(p) PROVE Pending'
  BY <1>15 DEF Bind
<1>16. ASSUME NEW p \in Proxies, TakeOwnership(p) PROVE Pending'
  BY <1>16 DEF TakeOwnership
<1>17. ASSUME NEW p \in Proxies, ListenPorts(p) PROVE Pending'
  BY <1>17 DEF ListenPorts
<1>18. ASSUME NEW p \in Proxies, StartServing(p) PROVE Pending'
  BY <1>18 DEF StartServing, LoadsTLS
<1>19. ASSUME NEW p \in Proxies, Terminate(p) PROVE Pending'
  BY <1>19 DEF Terminate
<1>20. ASSUME NEW p \in Proxies, Kill(p) PROVE Pending'
  BY <1>20 DEF Kill
<1>21. ASSUME NEW p \in Proxies, ReusePid(p) PROVE Pending'
  BY <1>21 DEF ReusePid
<1>22. ASSUME NEW p \in Proxies, CannotListen(p) PROVE Pending'
  BY <1>22 DEF CannotListen, Hinder
<1>23. CASE UNCHANGED vars
  BY <1>23
<1> QED
  BY <1>1, <1>2, <1>3, <1>4, <1>5, <1>6, <1>7, <1>8, <1>9, <1>10, <1>11, <1>12,
     <1>13, <1>14, <1>15, <1>16, <1>17, <1>18, <1>19, <1>20, <1>21, <1>22, <1>23 DEF Next,
          SessionStep, ProxyStep

-----------------------------------------------------------------------------
(* One session after the other.                                             *)

\* What was disturbed stays so.
LEMMA DisturbedStays ==
  disturbed /\ TypeOK /\ [Next]_vars => disturbed'
<1> SUFFICES ASSUME disturbed, TypeOK, [Next]_vars PROVE disturbed'
  OBVIOUS
<1> USE DEF vars, Disturb, disturbed, TypeOK
<1>1. ASSUME NEW s \in Sessions, Enter(s) PROVE disturbed'
  BY <1>1 DEF Enter
<1>2. ASSUME NEW s \in Sessions, CheckRunning(s) PROVE disturbed'
  BY <1>2 DEF CheckRunning, PidAlive, SockExists
<1>3. ASSUME NEW s \in Sessions, RemovePidFile(s) PROVE disturbed'
  BY <1>3 DEF RemovePidFile
<1>4. ASSUME NEW s \in Sessions, RemoveSocket(s) PROVE disturbed'
  BY <1>4 DEF RemoveSocket
<1>5. ASSUME NEW s \in Sessions, FindUpstream(s) PROVE disturbed'
  BY <1>5 DEF FindUpstream
<1>6. ASSUME NEW s \in Sessions, EnsureCerts(s) PROVE disturbed'
  BY <1>6 DEF EnsureCerts, TreeExists, CertFiles
<1>7. ASSUME NEW s \in Sessions, GenerateCerts(s) PROVE disturbed'
  BY <1>7 DEF GenerateCerts, CertFiles
<1>8. ASSUME NEW s \in Sessions, GenerateCertsFails(s) PROVE disturbed'
  BY <1>8 DEF GenerateCertsFails
<1>9. ASSUME NEW s \in Sessions, RemoveBoth(s) PROVE disturbed'
  BY <1>9 DEF RemoveBoth
<1>10. ASSUME NEW s \in Sessions, Spawn(s) PROVE disturbed'
  BY <1>10 DEF Spawn
<1>11. ASSUME NEW s \in Sessions, WritePid(s) PROVE disturbed'
  BY <1>11 DEF WritePid
<1>12. ASSUME NEW s \in Sessions, Poll(s) PROVE disturbed'
  BY <1>12 DEF Poll, PidAlive, SockExists
<1>13. ASSUME NEW s \in Sessions, Interrupt(s) PROVE disturbed'
  BY <1>13 DEF Interrupt
<1>14. ASSUME NEW p \in Proxies, RemoveStale(p) PROVE disturbed'
  BY <1>14 DEF RemoveStale
<1>15. ASSUME NEW p \in Proxies, Bind(p) PROVE disturbed'
  BY <1>15 DEF Bind
<1>16. ASSUME NEW p \in Proxies, TakeOwnership(p) PROVE disturbed'
  BY <1>16 DEF TakeOwnership
<1>17. ASSUME NEW p \in Proxies, ListenPorts(p) PROVE disturbed'
  BY <1>17 DEF ListenPorts
<1>18. ASSUME NEW p \in Proxies, StartServing(p) PROVE disturbed'
  BY <1>18 DEF StartServing, LoadsTLS
<1>19. ASSUME NEW p \in Proxies, Terminate(p) PROVE disturbed'
  BY <1>19 DEF Terminate
<1>20. ASSUME NEW p \in Proxies, Kill(p) PROVE disturbed'
  BY <1>20 DEF Kill
<1>21. ASSUME NEW p \in Proxies, ReusePid(p) PROVE disturbed'
  BY <1>21 DEF ReusePid
<1>22. ASSUME NEW p \in Proxies, CannotListen(p) PROVE disturbed'
  BY <1>22 DEF CannotListen, Hinder
<1>23. CASE UNCHANGED vars
  BY <1>23
<1> QED
  BY <1>1, <1>2, <1>3, <1>4, <1>5, <1>6, <1>7, <1>8, <1>9, <1>10, <1>11, <1>12,
     <1>13, <1>14, <1>15, <1>16, <1>17, <1>18, <1>19, <1>20, <1>21, <1>22, <1>23 DEF Next,
          SessionStep, ProxyStep

-----------------------------------------------------------------------------
(* What a session and a proxy meet as long as nothing was disturbed.        *)

\* A session that starts its check finds the files of the live proxy.
LEMMA CheckFinds ==
  ASSUME TypeOK, Orderly, NEW s \in Sessions, step[s] = "check",
         NEW p \in Proxies, Lives(p)
  PROVE  pidFile = p /\ sock = p /\ PidAlive /\ SockExists /\ proxy[p] \in Bound
<1>1. \A t \in Sessions : step[t] \notin {"pid", "poll"}
  BY DEF Orderly, Alone
<1>2. pidFile = p
  BY <1>1 DEF Orderly, PidFollows
<1>3. proxy[p] \in Bound
  BY <1>1 DEF Orderly, SocketFollows, Lives, Alive
<1> QED
  BY <1>2, <1>3 DEF Orderly, SocketFollows, PidAlive, SockExists, Lives, Proxies

\* A session that waits finds the socket of the proxy it launched, or that proxy
\* dead: without a socket and with the process alive the wait ended too early.
LEMMA PollFinds ==
  ASSUME TypeOK, Orderly, NEW s \in Sessions, Poll(s), ~disturbed'
  PROVE  /\ UNCHANGED <<withCerts, child, procVars, files, certs, past>>
         /\ \/ /\ sock \in Proxies /\ proxy[sock] \in Bound
               /\ step' = [step EXCEPT ![s] = "idle"]
               /\ result' = [result EXCEPT ![s] = "ready"]
            \/ /\ past # "calm" /\ sock = 0 /\ \A p \in Proxies : ~Lives(p)
               /\ step' = [step EXCEPT ![s] = "failPid"] /\ UNCHANGED result
<1>1. step[s] = "poll" /\ past' = past /\ UNCHANGED <<withCerts, child, procVars, files, certs>>
  BY DEF Poll, Disturb, disturbed
<1>2. CASE SockExists
  <2>1. sock \in Proxies /\ proxy[sock] \in Bound
    BY <1>1, <1>2 DEF Orderly, SocketFollows, SockExists
  <2> QED
    BY <1>1, <1>2, <2>1 DEF Poll, Return, Go, SockExists
<1>3. CASE ~SockExists
  <2>1. ~PidAlive /\ step' = [step EXCEPT ![s] = "failPid"] /\ UNCHANGED result
    BY <1>3 DEF Poll, Go, Disturb, disturbed
  <2>2. \A t \in Sessions : step[t] # "pid"
    BY <1>1 DEF Orderly, Alone
  <2>3. ASSUME NEW p \in Proxies, Lives(p) PROVE FALSE
    <3>1. pidFile = p /\ p # 0
      BY <2>2, <2>3 DEF Orderly, PidFollows, Proxies
    <3> QED
      BY <2>1, <2>3, <3>1 DEF PidAlive, Lives
  <2>4. past # "calm"
    <3> SUFFICES ASSUME past = "calm" PROVE FALSE
      OBVIOUS
    <3>1. pidFile # 0 /\ Lives(pidFile)
      BY <1>1 DEF Orderly, PidFollows
    <3> QED
      BY <2>1, <3>1 DEF PidAlive, Lives
  <2> QED
    BY <1>1, <1>3, <2>1, <2>3, <2>4 DEF SockExists
<1> QED
  BY <1>2, <1>3

\* A proxy finds the path free when it binds it, ...
LEMMA BindSucceeds ==
  ASSUME TypeOK, Orderly, NEW p \in Proxies, Bind(p)
  PROVE  /\ proxy[p] = "cleaned" /\ sock' = p /\ proxy' = [proxy EXCEPT ![p] = "bound"]
         /\ UNCHANGED <<sessVars, launched, tls, reused, pidFile, port, certs, past>>
  BY DEF Bind, Becomes, Orderly, SocketFollows

\* ... its own socket there when it goes by the path, ...
LEMMA OwnershipSucceeds ==
  ASSUME TypeOK, Orderly, NEW p \in Proxies, TakeOwnership(p)
  PROVE  /\ proxy[p] = "bound" /\ proxy' = [proxy EXCEPT ![p] = "owned"]
         /\ UNCHANGED <<sessVars, launched, tls, reused, files, certs, past>>
<1>1. sock # 0
  BY DEF TakeOwnership, Bound, Orderly, SocketFollows, Proxies
<1> QED
  BY <1>1 DEF TakeOwnership, Becomes

\* ... the ports free of other proxies, since only a live one holds them, ...
LEMMA PortsFree ==
  ASSUME TypeOK, PortHeld, Orderly, NEW p \in Proxies, proxy[p] = "owned"
  PROVE  port = 0
<1>1. port \in 0 .. MaxProxies /\ (port # 0 => port \in Proxies)
  BY LifecycleAssumption DEF TypeOK, Proxies
<1>2. port # 0 => Lives(port) /\ port # p
  BY DEF PortHeld, Lives, Alive, Bound
<1>3. Lives(p)
  BY DEF Lives, Alive, Bound
<1> QED
  BY <1>1, <1>2, <1>3 DEF Orderly, OneAlive

LEMMA ListenSucceeds ==
  ASSUME TypeOK, PortHeld, Orderly, NEW p \in Proxies, ListenPorts(p)
  PROVE  /\ proxy[p] = "owned" /\ proxy' = [proxy EXCEPT ![p] = "ported"]
         /\ UNCHANGED <<sessVars, launched, tls, reused, pidFile, sock, certs, past>>
<1>1. port = 0
  BY PortsFree DEF ListenPorts
<1> QED
  BY <1>1 DEF ListenPorts, Becomes

\* ... and the certificates it was promised.
LEMMA ServingSucceeds ==
  ASSUME TypeOK, Orderly, NEW p \in Proxies, StartServing(p)
  PROVE  /\ proxy[p] = "ported" /\ proxy' = [proxy EXCEPT ![p] = "serving"]
         /\ UNCHANGED <<sessVars, launched, tls, reused, files, certs, past>>
<1>1. tls[p] => LoadsTLS
  BY DEF StartServing, Orderly, CertsFollow, Lives, Alive, Bound
<1> QED
  BY <1>1 DEF StartServing, Becomes

-----------------------------------------------------------------------------
(* Each part is kept by every step that disturbs nothing.                   *)

\* A session that begins beside another disturbs it.
LEMMA AloneNext ==
  TypeOK /\ Unborn /\ PortHeld /\ Orderly /\ ~disturbed' /\ [Next]_vars => Alone'
<1> SUFFICES ASSUME TypeOK, Unborn, PortHeld, Orderly, ~disturbed', [Next]_vars
             PROVE Alone'
  OBVIOUS
<1> USE DEF vars, sessVars, procVars, files, Go, Return, Becomes, Released, Cleanup,
      Proxies, Alive, Bound, TypeOK, Orderly, Lives, Alone
<1>1. ASSUME NEW s \in Sessions, Enter(s) PROVE Alone'
  BY <1>1 DEF Enter, Disturb, disturbed, Busy
<1>2. ASSUME NEW s \in Sessions, CheckRunning(s) PROVE Alone'
  BY <1>2 DEF CheckRunning, PidAlive, SockExists
<1>3. ASSUME NEW s \in Sessions, RemovePidFile(s) PROVE Alone'
  BY <1>3 DEF RemovePidFile
<1>4. ASSUME NEW s \in Sessions, RemoveSocket(s) PROVE Alone'
  <2>1. step[s] # "idle" /\ \A t \in Sessions : t # s => step'[t] = step[t]
    BY <1>4 DEF RemoveSocket
  <2> QED
    BY <2>1
<1>5. ASSUME NEW s \in Sessions, FindUpstream(s) PROVE Alone'
  BY <1>5 DEF FindUpstream
<1>6. ASSUME NEW s \in Sessions, EnsureCerts(s) PROVE Alone'
  <2>1. step[s] # "idle" /\ \A t \in Sessions : t # s => step'[t] = step[t]
    BY <1>6 DEF EnsureCerts
  <2> QED
    BY <2>1
<1>7. ASSUME NEW s \in Sessions, GenerateCerts(s) PROVE Alone'
  <2>1. step[s] # "idle" /\ \A t \in Sessions : t # s => step'[t] = step[t]
    BY <1>7 DEF GenerateCerts
  <2> QED
    BY <2>1
<1>8. ASSUME NEW s \in Sessions, GenerateCertsFails(s) PROVE Alone'
  BY <1>8 DEF GenerateCertsFails, Disturb, disturbed, Busy
<1>9. ASSUME NEW s \in Sessions, RemoveBoth(s) PROVE Alone'
  BY <1>9 DEF RemoveBoth
<1>10. ASSUME NEW s \in Sessions, Spawn(s) PROVE Alone'
  BY <1>10 DEF Spawn
<1>11. ASSUME NEW s \in Sessions, WritePid(s) PROVE Alone'
  BY <1>11 DEF WritePid
<1>12. ASSUME NEW s \in Sessions, Poll(s) PROVE Alone'
  <2>1. step[s] # "idle" /\ \A t \in Sessions : t # s => step'[t] = step[t]
    BY <1>12 DEF Poll
  <2> QED
    BY <2>1
<1>13. ASSUME NEW s \in Sessions, Interrupt(s) PROVE Alone'
  BY <1>13 DEF Interrupt, Disturb, disturbed, Busy
<1>14. ASSUME NEW p \in Proxies, RemoveStale(p) PROVE Alone'
  BY <1>14 DEF RemoveStale
<1>15. ASSUME NEW p \in Proxies, Bind(p) PROVE Alone'
  BY <1>15 DEF Bind
<1>16. ASSUME NEW p \in Proxies, TakeOwnership(p) PROVE Alone'
  BY <1>16 DEF TakeOwnership
<1>17. ASSUME NEW p \in Proxies, ListenPorts(p) PROVE Alone'
  BY <1>17 DEF ListenPorts
<1>18. ASSUME NEW p \in Proxies, StartServing(p) PROVE Alone'
  BY <1>18 DEF StartServing, LoadsTLS
<1>19. ASSUME NEW p \in Proxies, Terminate(p) PROVE Alone'
  BY <1>19 DEF Terminate, Disturb, disturbed, Busy
<1>20. ASSUME NEW p \in Proxies, Kill(p) PROVE Alone'
  BY <1>20 DEF Kill, Disturb, disturbed, Busy
<1>21. ASSUME NEW p \in Proxies, ReusePid(p) PROVE Alone'
  BY <1>21 DEF ReusePid
<1>22. ASSUME NEW p \in Proxies, CannotListen(p) PROVE Alone'
  BY <1>22 DEF CannotListen, Hinder
<1>23. CASE UNCHANGED vars
  BY <1>23
<1> QED
  BY <1>1, <1>2, <1>3, <1>4, <1>5, <1>6, <1>7, <1>8, <1>9, <1>10, <1>11, <1>12,
     <1>13, <1>14, <1>15, <1>16, <1>17, <1>18, <1>19, <1>20, <1>21, <1>22, <1>23 DEF Next,
          SessionStep, ProxyStep

\* A proxy is launched only when none lives.
LEMMA OneAliveNext ==
  TypeOK /\ Unborn /\ PortHeld /\ Orderly /\ ~disturbed' /\ [Next]_vars => OneAlive'
<1> SUFFICES ASSUME TypeOK, Unborn, PortHeld, Orderly, ~disturbed', [Next]_vars
             PROVE OneAlive'
  OBVIOUS
<1>b. ASSUME NEW p \in Proxies, Bind(p)
      PROVE  /\ proxy[p] = "cleaned" /\ sock' = p /\ proxy' = [proxy EXCEPT ![p] = "bound"]
             /\ UNCHANGED <<sessVars, launched, tls, reused, pidFile, port, certs, past>>
  BY <1>b, BindSucceeds
<1>o. ASSUME NEW p \in Proxies, TakeOwnership(p)
      PROVE  /\ proxy[p] = "bound" /\ proxy' = [proxy EXCEPT ![p] = "owned"]
             /\ UNCHANGED <<sessVars, launched, tls, reused, files, certs, past>>
  BY <1>o, OwnershipSucceeds
<1>l. ASSUME NEW p \in Proxies, ListenPorts(p)
      PROVE  /\ proxy[p] = "owned" /\ proxy' = [proxy EXCEPT ![p] = "ported"]
             /\ UNCHANGED <<sessVars, launched, tls, reused, pidFile, sock, certs, past>>
  BY <1>l, ListenSucceeds
<1>v. ASSUME NEW p \in Proxies, StartServing(p)
      PROVE  /\ proxy[p] = "ported" /\ proxy' = [proxy EXCEPT ![p] = "serving"]
             /\ UNCHANGED <<sessVars, launched, tls, reused, files, certs, past>>
  BY <1>v, ServingSucceeds
<1> USE DEF vars, sessVars, procVars, files, Go, Return, Becomes, Released, Cleanup,
      Proxies, Alive, Bound, TypeOK, Orderly, Lives, OneAlive, NoneLives, Replacing
<1>1. ASSUME NEW s \in Sessions, Enter(s) PROVE OneAlive'
  BY <1>1 DEF Enter, Disturb, disturbed, Busy
<1>2. ASSUME NEW s \in Sessions, CheckRunning(s) PROVE OneAlive'
  BY <1>2 DEF CheckRunning, PidAlive, SockExists
<1>3. ASSUME NEW s \in Sessions, RemovePidFile(s) PROVE OneAlive'
  BY <1>3 DEF RemovePidFile
<1>4. ASSUME NEW s \in Sessions, RemoveSocket(s) PROVE OneAlive'
  BY <1>4 DEF RemoveSocket
<1>5. ASSUME NEW s \in Sessions, FindUpstream(s) PROVE OneAlive'
  BY <1>5 DEF FindUpstream
<1>6. ASSUME NEW s \in Sessions, EnsureCerts(s) PROVE OneAlive'
  BY <1>6 DEF EnsureCerts, TreeExists, CertFiles
<1>7. ASSUME NEW s \in Sessions, GenerateCerts(s) PROVE OneAlive'
  BY <1>7 DEF GenerateCerts, CertFiles
<1>8. ASSUME NEW s \in Sessions, GenerateCertsFails(s) PROVE OneAlive'
  BY <1>8 DEF GenerateCertsFails, Disturb, disturbed, Busy
<1>9. ASSUME NEW s \in Sessions, RemoveBoth(s) PROVE OneAlive'
  BY <1>9 DEF RemoveBoth
<1>10. ASSUME NEW s \in Sessions, Spawn(s) PROVE OneAlive'
  BY <1>10 DEF Spawn
<1>11. ASSUME NEW s \in Sessions, WritePid(s) PROVE OneAlive'
  BY <1>11 DEF WritePid
<1>12. ASSUME NEW s \in Sessions, Poll(s) PROVE OneAlive'
  BY <1>12 DEF Poll, PidAlive, SockExists, Disturb, disturbed, Busy
<1>13. ASSUME NEW s \in Sessions, Interrupt(s) PROVE OneAlive'
  BY <1>13 DEF Interrupt, Disturb, disturbed, Busy
<1>14. ASSUME NEW p \in Proxies, RemoveStale(p) PROVE OneAlive'
  BY <1>14 DEF RemoveStale
<1>15. ASSUME NEW p \in Proxies, Bind(p) PROVE OneAlive'
  <2>1. /\ proxy[p] = "cleaned" /\ sock' = p /\ proxy' = [proxy EXCEPT ![p] = "bound"]
       /\ UNCHANGED <<sessVars, launched, tls, reused, pidFile, port, certs, past>>
    BY <1>15, <1>b
  <2> QED
    BY <2>1
<1>16. ASSUME NEW p \in Proxies, TakeOwnership(p) PROVE OneAlive'
  <2>1. /\ proxy[p] = "bound" /\ proxy' = [proxy EXCEPT ![p] = "owned"]
       /\ UNCHANGED <<sessVars, launched, tls, reused, files, certs, past>>
    BY <1>16, <1>o
  <2> QED
    BY <2>1
<1>17. ASSUME NEW p \in Proxies, ListenPorts(p) PROVE OneAlive'
  <2>1. /\ proxy[p] = "owned" /\ proxy' = [proxy EXCEPT ![p] = "ported"]
       /\ UNCHANGED <<sessVars, launched, tls, reused, pidFile, sock, certs, past>>
    BY <1>17, <1>l
  <2> QED
    BY <2>1
<1>18. ASSUME NEW p \in Proxies, StartServing(p) PROVE OneAlive'
  <2>1. /\ proxy[p] = "ported" /\ proxy' = [proxy EXCEPT ![p] = "serving"]
       /\ UNCHANGED <<sessVars, launched, tls, reused, files, certs, past>>
    BY <1>18, <1>v
  <2> QED
    BY <2>1
<1>19. ASSUME NEW p \in Proxies, Terminate(p) PROVE OneAlive'
  BY <1>19 DEF Terminate, Disturb, disturbed, Busy
<1>20. ASSUME NEW p \in Proxies, Kill(p) PROVE OneAlive'
  BY <1>20 DEF Kill, Disturb, disturbed, Busy
<1>21. ASSUME NEW p \in Proxies, ReusePid(p) PROVE OneAlive'
  BY <1>21 DEF ReusePid
<1>22. ASSUME NEW p \in Proxies, CannotListen(p) PROVE OneAlive'
  BY <1>22 DEF CannotListen, Hinder
<1>23. CASE UNCHANGED vars
  BY <1>23
<1> QED
  BY <1>1, <1>2, <1>3, <1>4, <1>5, <1>6, <1>7, <1>8, <1>9, <1>10, <1>11, <1>12,
     <1>13, <1>14, <1>15, <1>16, <1>17, <1>18, <1>19, <1>20, <1>21, <1>22, <1>23 DEF Next,
          SessionStep, ProxyStep

\* A session replaces the proxy only if the pid file or the socket is stale.
LEMMA NoneLivesNext ==
  TypeOK /\ Unborn /\ PortHeld /\ Orderly /\ ~disturbed' /\ [Next]_vars => NoneLives'
<1> SUFFICES ASSUME TypeOK, Unborn, PortHeld, Orderly, ~disturbed', [Next]_vars
             PROVE NoneLives'
  OBVIOUS
<1> USE DEF vars, sessVars, procVars, files, Go, Return, Becomes, Released, Cleanup,
      Proxies, Alive, Bound, TypeOK, Orderly, Lives, Alone, OneAlive, NoneLives,
      Replacing, SocketFollows, PidFollows, NoFailure
<1>1. ASSUME NEW s \in Sessions, Enter(s) PROVE NoneLives'
  BY <1>1 DEF Enter, Disturb, disturbed, Busy
<1>2. ASSUME NEW s \in Sessions, CheckRunning(s) PROVE NoneLives'
  <2>1. ASSUME NEW p \in Proxies, Lives(p) PROVE step'[s] \notin Replacing
    <3>1. PidAlive /\ SockExists
      BY <2>1, <1>2, CheckFinds DEF CheckRunning
    <3> QED
      BY <3>1, <1>2 DEF CheckRunning, PidAlive
  <2>2. \A t \in Sessions : t # s => step'[t] = step[t]
    BY <1>2 DEF CheckRunning
  <2>3. proxy' = proxy
    BY <1>2 DEF CheckRunning
  <2> QED
    BY <2>1, <2>2, <2>3
<1>3. ASSUME NEW s \in Sessions, RemovePidFile(s) PROVE NoneLives'
  BY <1>3 DEF RemovePidFile
<1>4. ASSUME NEW s \in Sessions, RemoveSocket(s) PROVE NoneLives'
  BY <1>4 DEF RemoveSocket
<1>5. ASSUME NEW s \in Sessions, FindUpstream(s) PROVE NoneLives'
  BY <1>5 DEF FindUpstream
<1>6. ASSUME NEW s \in Sessions, EnsureCerts(s) PROVE NoneLives'
  BY <1>6 DEF EnsureCerts, TreeExists, CertFiles
<1>7. ASSUME NEW s \in Sessions, GenerateCerts(s) PROVE NoneLives'
  BY <1>7 DEF GenerateCerts, CertFiles
<1>8. ASSUME NEW s \in Sessions, GenerateCertsFails(s) PROVE NoneLives'
  BY <1>8 DEF GenerateCertsFails, Disturb, disturbed, Busy
<1>9. ASSUME NEW s \in Sessions, RemoveBoth(s) PROVE NoneLives'
  BY <1>9 DEF RemoveBoth
<1>10. ASSUME NEW s \in Sessions, Spawn(s) PROVE NoneLives'
  <2>1. \A t \in Sessions : t # s => step'[t] = "idle"
    BY <1>10 DEF Spawn
  <2>2. step'[s] = "pid"
    BY <1>10 DEF Spawn
  <2>3. \A t \in Sessions : step'[t] \in {"idle", "pid"}
    BY <2>1, <2>2
  <2> QED
    BY <2>3
<1>11. ASSUME NEW s \in Sessions, WritePid(s) PROVE NoneLives'
  BY <1>11 DEF WritePid
<1>12. ASSUME NEW s \in Sessions, Poll(s) PROVE NoneLives'
  <2>1. /\ proxy' = proxy /\ \A t \in Sessions : t # s => step[t] = "idle"
       /\ \/ step' = [step EXCEPT ![s] = "idle"]
          \/ (\A p \in Proxies : ~Lives(p)) /\ step' = [step EXCEPT ![s] = "failPid"]
    <3>1. step[s] = "poll"
      BY <1>12 DEF Poll
    <3> QED
      BY <1>12, <3>1, PollFinds
  <2> QED
    BY <2>1
<1>13. ASSUME NEW s \in Sessions, Interrupt(s) PROVE NoneLives'
  BY <1>13 DEF Interrupt, Disturb, disturbed, Busy
<1>14. ASSUME NEW p \in Proxies, RemoveStale(p) PROVE NoneLives'
  BY <1>14 DEF RemoveStale
<1>15. ASSUME NEW p \in Proxies, Bind(p) PROVE NoneLives'
  BY <1>15 DEF Bind
<1>16. ASSUME NEW p \in Proxies, TakeOwnership(p) PROVE NoneLives'
  BY <1>16 DEF TakeOwnership
<1>17. ASSUME NEW p \in Proxies, ListenPorts(p) PROVE NoneLives'
  BY <1>17 DEF ListenPorts
<1>18. ASSUME NEW p \in Proxies, StartServing(p) PROVE NoneLives'
  BY <1>18 DEF StartServing, LoadsTLS
<1>19. ASSUME NEW p \in Proxies, Terminate(p) PROVE NoneLives'
  BY <1>19 DEF Terminate, Disturb, disturbed, Busy
<1>20. ASSUME NEW p \in Proxies, Kill(p) PROVE NoneLives'
  BY <1>20 DEF Kill, Disturb, disturbed, Busy
<1>21. ASSUME NEW p \in Proxies, ReusePid(p) PROVE NoneLives'
  BY <1>21 DEF ReusePid
<1>22. ASSUME NEW p \in Proxies, CannotListen(p) PROVE NoneLives'
  BY <1>22 DEF CannotListen, Hinder
<1>23. CASE UNCHANGED vars
  BY <1>23
<1> QED
  BY <1>1, <1>2, <1>3, <1>4, <1>5, <1>6, <1>7, <1>8, <1>9, <1>10, <1>11, <1>12,
     <1>13, <1>14, <1>15, <1>16, <1>17, <1>18, <1>19, <1>20, <1>21, <1>22, <1>23 DEF Next,
          SessionStep, ProxyStep

\* Only the live proxy binds the path, and nobody unlinks it beside a live one.
LEMMA SocketNext ==
  TypeOK /\ Unborn /\ PortHeld /\ Orderly /\ ~disturbed' /\ [Next]_vars => SocketFollows'
<1> SUFFICES ASSUME TypeOK, Unborn, PortHeld, Orderly, ~disturbed', [Next]_vars
             PROVE SocketFollows'
  OBVIOUS
<1>b. ASSUME NEW p \in Proxies, Bind(p)
      PROVE  /\ proxy[p] = "cleaned" /\ sock' = p /\ proxy' = [proxy EXCEPT ![p] = "bound"]
             /\ UNCHANGED <<sessVars, launched, tls, reused, pidFile, port, certs, past>>
  BY <1>b, BindSucceeds
<1>o. ASSUME NEW p \in Proxies, TakeOwnership(p)
      PROVE  /\ proxy[p] = "bound" /\ proxy' = [proxy EXCEPT ![p] = "owned"]
             /\ UNCHANGED <<sessVars, launched, tls, reused, files, certs, past>>
  BY <1>o, OwnershipSucceeds
<1>l. ASSUME NEW p \in Proxies, ListenPorts(p)
      PROVE  /\ proxy[p] = "owned" /\ proxy' = [proxy EXCEPT ![p] = "ported"]
             /\ UNCHANGED <<sessVars, launched, tls, reused, pidFile, sock, certs, past>>
  BY <1>l, ListenSucceeds
<1>v. ASSUME NEW p \in Proxies, StartServing(p)
      PROVE  /\ proxy[p] = "ported" /\ proxy' = [proxy EXCEPT ![p] = "serving"]
             /\ UNCHANGED <<sessVars, launched, tls, reused, files, certs, past>>
  BY <1>v, ServingSucceeds
<1> USE DEF vars, sessVars, procVars, files, Go, Return, Becomes, Released, Cleanup,
      Proxies, Alive, Bound, TypeOK, Orderly, Lives, Alone, OneAlive, NoneLives,
      Replacing, SocketFollows, PidFollows, NoFailure, PortHeld, CertsFollow
<1>1. ASSUME NEW s \in Sessions, Enter(s) PROVE SocketFollows'
  BY <1>1 DEF Enter, Disturb, disturbed, Busy
<1>2. ASSUME NEW s \in Sessions, CheckRunning(s) PROVE SocketFollows'
  BY <1>2 DEF CheckRunning, PidAlive, SockExists
<1>3. ASSUME NEW s \in Sessions, RemovePidFile(s) PROVE SocketFollows'
  BY <1>3 DEF RemovePidFile
<1>4. ASSUME NEW s \in Sessions, RemoveSocket(s) PROVE SocketFollows'
  BY <1>4 DEF RemoveSocket
<1>5. ASSUME NEW s \in Sessions, FindUpstream(s) PROVE SocketFollows'
  BY <1>5 DEF FindUpstream
<1>6. ASSUME NEW s \in Sessions, EnsureCerts(s) PROVE SocketFollows'
  BY <1>6 DEF EnsureCerts, TreeExists, CertFiles
<1>7. ASSUME NEW s \in Sessions, GenerateCerts(s) PROVE SocketFollows'
  BY <1>7 DEF GenerateCerts, CertFiles
<1>8. ASSUME NEW s \in Sessions, GenerateCertsFails(s) PROVE SocketFollows'
  BY <1>8 DEF GenerateCertsFails, Disturb, disturbed, Busy
<1>9. ASSUME NEW s \in Sessions, RemoveBoth(s) PROVE SocketFollows'
  BY <1>9 DEF RemoveBoth
<1>10. ASSUME NEW s \in Sessions, Spawn(s) PROVE SocketFollows'
  BY <1>10 DEF Spawn
<1>11. ASSUME NEW s \in Sessions, WritePid(s) PROVE SocketFollows'
  BY <1>11 DEF WritePid
<1>12. ASSUME NEW s \in Sessions, Poll(s) PROVE SocketFollows'
  <2>1. sock' = sock /\ proxy' = proxy
    BY <1>12, PollFinds
  <2>2. CASE sock # 0 /\ step' = [step EXCEPT ![s] = "idle"]
    BY <2>1, <2>2
  <2>3. CASE (\A p \in Proxies : ~Lives(p)) /\ step' = [step EXCEPT ![s] = "failPid"]
    BY <2>1, <2>3
  <2> QED
    BY <1>12, <2>2, <2>3, PollFinds
<1>13. ASSUME NEW s \in Sessions, Interrupt(s) PROVE SocketFollows'
  BY <1>13 DEF Interrupt, Disturb, disturbed, Busy
<1>14. ASSUME NEW p \in Proxies, RemoveStale(p) PROVE SocketFollows'
  BY <1>14 DEF RemoveStale
<1>15. ASSUME NEW p \in Proxies, Bind(p) PROVE SocketFollows'
  <2>1. /\ proxy[p] = "cleaned" /\ sock' = p /\ proxy' = [proxy EXCEPT ![p] = "bound"]
       /\ UNCHANGED <<sessVars, launched, tls, reused, pidFile, port, certs, past>>
    BY <1>15, <1>b
  <2> QED
    BY <2>1
<1>16. ASSUME NEW p \in Proxies, TakeOwnership(p) PROVE SocketFollows'
  <2>1. /\ proxy[p] = "bound" /\ proxy' = [proxy EXCEPT ![p] = "owned"]
       /\ UNCHANGED <<sessVars, launched, tls, reused, files, certs, past>>
    BY <1>16, <1>o
  <2> QED
    BY <2>1
<1>17. ASSUME NEW p \in Proxies, ListenPorts(p) PROVE SocketFollows'
  <2>1. /\ proxy[p] = "owned" /\ proxy' = [proxy EXCEPT ![p] = "ported"]
       /\ UNCHANGED <<sessVars, launched, tls, reused, pidFile, sock, certs, past>>
    BY <1>17, <1>l
  <2> QED
    BY <2>1
<1>18. ASSUME NEW p \in Proxies, StartServing(p) PROVE SocketFollows'
  <2>1. /\ proxy[p] = "ported" /\ proxy' = [proxy EXCEPT ![p] = "serving"]
       /\ UNCHANGED <<sessVars, launched, tls, reused, files, certs, past>>
    BY <1>18, <1>v
  <2> QED
    BY <2>1
<1>19. ASSUME NEW p \in Proxies, Terminate(p) PROVE SocketFollows'
  BY <1>19 DEF Terminate, Disturb, disturbed, Busy
<1>20. ASSUME NEW p \in Proxies, Kill(p) PROVE SocketFollows'
  BY <1>20 DEF Kill, Disturb, disturbed, Busy
<1>21. ASSUME NEW p \in Proxies, ReusePid(p) PROVE SocketFollows'
  BY <1>21 DEF ReusePid
<1>22. ASSUME NEW p \in Proxies, CannotListen(p) PROVE SocketFollows'
  BY <1>22 DEF CannotListen, Hinder
<1>23. CASE UNCHANGED vars
  BY <1>23
<1> QED
  BY <1>1, <1>2, <1>3, <1>4, <1>5, <1>6, <1>7, <1>8, <1>9, <1>10, <1>11, <1>12,
     <1>13, <1>14, <1>15, <1>16, <1>17, <1>18, <1>19, <1>20, <1>21, <1>22, <1>23 DEF Next,
          SessionStep, ProxyStep

\* The proxy a session waits for does not die under it.
LEMMA PidNext ==
  TypeOK /\ Unborn /\ PortHeld /\ Orderly /\ ~disturbed' /\ [Next]_vars => PidFollows'
<1> SUFFICES ASSUME TypeOK, Unborn, PortHeld, Orderly, ~disturbed', [Next]_vars
             PROVE PidFollows'
  OBVIOUS
<1>b. ASSUME NEW p \in Proxies, Bind(p)
      PROVE  /\ proxy[p] = "cleaned" /\ sock' = p /\ proxy' = [proxy EXCEPT ![p] = "bound"]
             /\ UNCHANGED <<sessVars, launched, tls, reused, pidFile, port, certs, past>>
  BY <1>b, BindSucceeds
<1>o. ASSUME NEW p \in Proxies, TakeOwnership(p)
      PROVE  /\ proxy[p] = "bound" /\ proxy' = [proxy EXCEPT ![p] = "owned"]
             /\ UNCHANGED <<sessVars, launched, tls, reused, files, certs, past>>
  BY <1>o, OwnershipSucceeds
<1>l. ASSUME NEW p \in Proxies, ListenPorts(p)
      PROVE  /\ proxy[p] = "owned" /\ proxy' = [proxy EXCEPT ![p] = "ported"]
             /\ UNCHANGED <<sessVars, launched, tls, reused, pidFile, sock, certs, past>>
  BY <1>l, ListenSucceeds
<1>v. ASSUME NEW p \in Proxies, StartServing(p)
      PROVE  /\ proxy[p] = "ported" /\ proxy' = [proxy EXCEPT ![p] = "serving"]
             /\ UNCHANGED <<sessVars, launched, tls, reused, files, certs, past>>
  BY <1>v, ServingSucceeds
<1> USE DEF vars, sessVars, procVars, files, Go, Return, Becomes, Released, Cleanup,
      Proxies, Alive, Bound, TypeOK, Orderly, Lives, Alone, OneAlive, NoneLives,
      Replacing, SocketFollows, PidFollows, NoFailure, PortHeld, CertsFollow, Unborn
<1>1. ASSUME NEW s \in Sessions, Enter(s) PROVE PidFollows'
  BY <1>1 DEF Enter, Disturb, disturbed, Busy
<1>2. ASSUME NEW s \in Sessions, CheckRunning(s) PROVE PidFollows'
  BY <1>2 DEF CheckRunning, PidAlive, SockExists
<1>3. ASSUME NEW s \in Sessions, RemovePidFile(s) PROVE PidFollows'
  BY <1>3 DEF RemovePidFile
<1>4. ASSUME NEW s \in Sessions, RemoveSocket(s) PROVE PidFollows'
  BY <1>4 DEF RemoveSocket
<1>5. ASSUME NEW s \in Sessions, FindUpstream(s) PROVE PidFollows'
  BY <1>5 DEF FindUpstream
<1>6. ASSUME NEW s \in Sessions, EnsureCerts(s) PROVE PidFollows'
  BY <1>6 DEF EnsureCerts, TreeExists, CertFiles
<1>7. ASSUME NEW s \in Sessions, GenerateCerts(s) PROVE PidFollows'
  BY <1>7 DEF GenerateCerts, CertFiles
<1>8. ASSUME NEW s \in Sessions, GenerateCertsFails(s) PROVE PidFollows'
  BY <1>8 DEF GenerateCertsFails, Disturb, disturbed, Busy
<1>9. ASSUME NEW s \in Sessions, RemoveBoth(s) PROVE PidFollows'
  BY <1>9 DEF RemoveBoth
<1>10. ASSUME NEW s \in Sessions, Spawn(s) PROVE PidFollows'
  <2>1. launched \in Nat /\ launched + 1 \in Proxies
    BY <1>10, LifecycleAssumption DEF Spawn
  <2>2. child'[s] = launched + 1 /\ launched + 1 # 0
    BY <2>1, <1>10 DEF Spawn
  <2>3. proxy'[launched + 1] = "new" /\ step'[s] = "pid"
    BY <2>1, <1>10 DEF Spawn
  <2>4. \A p \in Proxies : p # launched + 1 => ~Lives(p)'
    BY <1>10 DEF Spawn
  <2>5. \A t \in Sessions : t # s => step'[t] = "idle"
    BY <1>10 DEF Spawn
  <2>6. \A q \in Proxies : Lives(q)' => pidFile' = q \/ (step'[s] = "pid" /\ child'[s] = q)
    BY <2>1, <2>2, <2>3, <2>4
  <2>7. child'[s] # 0 /\ Lives(child[s])'
    BY <2>1, <2>2, <2>3
  <2>8. \A t \in Sessions : step'[t] = "pid" => child'[t] # 0 /\ Lives(child[t])'
    BY <2>5, <2>7
  <2>9. \A t \in Sessions : step'[t] \notin {"poll", "spawn"}
    BY <2>3, <2>5
  <2>10. pidFile' = 0
    BY <1>10 DEF Spawn
  <2> QED
    BY <2>6, <2>8, <2>9, <2>10
<1>11. ASSUME NEW s \in Sessions, WritePid(s) PROVE PidFollows'
  <2>1. /\ step[s] = "pid" /\ step' = [step EXCEPT ![s] = "poll"]
       /\ pidFile' = child[s] /\ proxy' = proxy /\ past' = past
    BY <1>11 DEF WritePid
  <2>2. \A t \in Sessions : t # s => step[t] = "idle" /\ step'[t] = "idle"
    BY <2>1
  <2>3. ASSUME NEW p \in Proxies, Lives(p) PROVE pidFile' = p
    <3>1. pidFile = 0 /\ p # 0
      BY <2>1
    <3>2. PICK t \in Sessions : step[t] = "pid" /\ child[t] = p
      BY <2>3, <3>1
    <3>3. t = s
      BY <2>2, <3>2
    <3> QED
      BY <2>1, <3>2, <3>3
  <2> QED
    BY <2>1, <2>2, <2>3
<1>12. ASSUME NEW s \in Sessions, Poll(s) PROVE PidFollows'
  BY <1>12 DEF Poll, PidAlive, SockExists, Disturb, disturbed, Busy
<1>13. ASSUME NEW s \in Sessions, Interrupt(s) PROVE PidFollows'
  BY <1>13 DEF Interrupt, Disturb, disturbed, Busy
<1>14. ASSUME NEW p \in Proxies, RemoveStale(p) PROVE PidFollows'
  BY <1>14 DEF RemoveStale
<1>15. ASSUME NEW p \in Proxies, Bind(p) PROVE PidFollows'
  <2>1. /\ proxy[p] = "cleaned" /\ sock' = p /\ proxy' = [proxy EXCEPT ![p] = "bound"]
       /\ UNCHANGED <<sessVars, launched, tls, reused, pidFile, port, certs, past>>
    BY <1>15, <1>b
  <2> QED
    BY <2>1
<1>16. ASSUME NEW p \in Proxies, TakeOwnership(p) PROVE PidFollows'
  <2>1. /\ proxy[p] = "bound" /\ proxy' = [proxy EXCEPT ![p] = "owned"]
       /\ UNCHANGED <<sessVars, launched, tls, reused, files, certs, past>>
    BY <1>16, <1>o
  <2> QED
    BY <2>1
<1>17. ASSUME NEW p \in Proxies, ListenPorts(p) PROVE PidFollows'
  <2>1. /\ proxy[p] = "owned" /\ proxy' = [proxy EXCEPT ![p] = "ported"]
       /\ UNCHANGED <<sessVars, launched, tls, reused, pidFile, sock, certs, past>>
    BY <1>17, <1>l
  <2> QED
    BY <2>1
<1>18. ASSUME NEW p \in Proxies, StartServing(p) PROVE PidFollows'
  <2>1. /\ proxy[p] = "ported" /\ proxy' = [proxy EXCEPT ![p] = "serving"]
       /\ UNCHANGED <<sessVars, launched, tls, reused, files, certs, past>>
    BY <1>18, <1>v
  <2> QED
    BY <2>1
<1>19. ASSUME NEW p \in Proxies, Terminate(p) PROVE PidFollows'
  <2>1. /\ \A t \in Sessions : step[t] = "idle"
       /\ UNCHANGED <<step, child, pidFile>>
    BY <1>19 DEF Terminate, Disturb, disturbed, Busy
  <2>2. ~Lives(p)' /\ \A q \in Proxies : q # p => proxy'[q] = proxy[q]
    BY <1>19 DEF Terminate
  <2> QED
    BY <2>1, <2>2
<1>20. ASSUME NEW p \in Proxies, Kill(p) PROVE PidFollows'
  <2>1. /\ \A t \in Sessions : step[t] = "idle"
       /\ UNCHANGED <<step, child, pidFile>>
    BY <1>20 DEF Kill, Disturb, disturbed, Busy
  <2>2. ~Lives(p)' /\ \A q \in Proxies : q # p => proxy'[q] = proxy[q]
    BY <1>20 DEF Kill
  <2> QED
    BY <2>1, <2>2
<1>21. ASSUME NEW p \in Proxies, ReusePid(p) PROVE PidFollows'
  BY <1>21 DEF ReusePid
<1>22. ASSUME NEW p \in Proxies, CannotListen(p) PROVE PidFollows'
  BY <1>22 DEF CannotListen, Hinder
<1>23. CASE UNCHANGED vars
  BY <1>23
<1> QED
  BY <1>1, <1>2, <1>3, <1>4, <1>5, <1>6, <1>7, <1>8, <1>9, <1>10, <1>11, <1>12,
     <1>13, <1>14, <1>15, <1>16, <1>17, <1>18, <1>19, <1>20, <1>21, <1>22, <1>23 DEF Next,
          SessionStep, ProxyStep

\* A wait ends with the socket, or disturbs the proxy.
LEMMA NoFailureNext ==
  TypeOK /\ Unborn /\ PortHeld /\ Orderly /\ ~disturbed' /\ [Next]_vars => NoFailure'
<1> SUFFICES ASSUME TypeOK, Unborn, PortHeld, Orderly, ~disturbed', [Next]_vars
             PROVE NoFailure'
  OBVIOUS
<1> USE DEF vars, sessVars, procVars, files, Go, Return, Becomes, Released, Cleanup,
      Proxies, Alive, Bound, TypeOK, Orderly, Lives, NoneLives, Replacing,
      SocketFollows, PidFollows, NoFailure
<1>1. ASSUME NEW s \in Sessions, Enter(s) PROVE NoFailure'
  BY <1>1 DEF Enter, Disturb, disturbed, Busy
<1>2. ASSUME NEW s \in Sessions, CheckRunning(s) PROVE NoFailure'
  BY <1>2 DEF CheckRunning, PidAlive, SockExists
<1>3. ASSUME NEW s \in Sessions, RemovePidFile(s) PROVE NoFailure'
  BY <1>3 DEF RemovePidFile
<1>4. ASSUME NEW s \in Sessions, RemoveSocket(s) PROVE NoFailure'
  BY <1>4 DEF RemoveSocket
<1>5. ASSUME NEW s \in Sessions, FindUpstream(s) PROVE NoFailure'
  BY <1>5 DEF FindUpstream
<1>6. ASSUME NEW s \in Sessions, EnsureCerts(s) PROVE NoFailure'
  BY <1>6 DEF EnsureCerts, TreeExists, CertFiles
<1>7. ASSUME NEW s \in Sessions, GenerateCerts(s) PROVE NoFailure'
  BY <1>7 DEF GenerateCerts, CertFiles
<1>8. ASSUME NEW s \in Sessions, GenerateCertsFails(s) PROVE NoFailure'
  BY <1>8 DEF GenerateCertsFails, Disturb, disturbed, Busy
<1>9. ASSUME NEW s \in Sessions, RemoveBoth(s) PROVE NoFailure'
  BY <1>9 DEF RemoveBoth
<1>10. ASSUME NEW s \in Sessions, Spawn(s) PROVE NoFailure'
  BY <1>10 DEF Spawn
<1>11. ASSUME NEW s \in Sessions, WritePid(s) PROVE NoFailure'
  BY <1>11 DEF WritePid
<1>12. ASSUME NEW s \in Sessions, Poll(s) PROVE NoFailure'
  BY <1>12, PollFinds
<1>13. ASSUME NEW s \in Sessions, Interrupt(s) PROVE NoFailure'
  BY <1>13 DEF Interrupt, Disturb, disturbed, Busy
<1>14. ASSUME NEW p \in Proxies, RemoveStale(p) PROVE NoFailure'
  BY <1>14 DEF RemoveStale
<1>15. ASSUME NEW p \in Proxies, Bind(p) PROVE NoFailure'
  BY <1>15 DEF Bind
<1>16. ASSUME NEW p \in Proxies, TakeOwnership(p) PROVE NoFailure'
  BY <1>16 DEF TakeOwnership
<1>17. ASSUME NEW p \in Proxies, ListenPorts(p) PROVE NoFailure'
  BY <1>17 DEF ListenPorts
<1>18. ASSUME NEW p \in Proxies, StartServing(p) PROVE NoFailure'
  BY <1>18 DEF StartServing, LoadsTLS
<1>19. ASSUME NEW p \in Proxies, Terminate(p) PROVE NoFailure'
  BY <1>19 DEF Terminate, Disturb, disturbed, Busy
<1>20. ASSUME NEW p \in Proxies, Kill(p) PROVE NoFailure'
  BY <1>20 DEF Kill, Disturb, disturbed, Busy
<1>21. ASSUME NEW p \in Proxies, ReusePid(p) PROVE NoFailure'
  BY <1>21 DEF ReusePid
<1>22. ASSUME NEW p \in Proxies, CannotListen(p) PROVE NoFailure'
  BY <1>22 DEF CannotListen, Hinder
<1>23. CASE UNCHANGED vars
  BY <1>23
<1> QED
  BY <1>1, <1>2, <1>3, <1>4, <1>5, <1>6, <1>7, <1>8, <1>9, <1>10, <1>11, <1>12,
     <1>13, <1>14, <1>15, <1>16, <1>17, <1>18, <1>19, <1>20, <1>21, <1>22, <1>23 DEF Next,
          SessionStep, ProxyStep

\* The files are written in order and never removed.
LEMMA CertsNext ==
  TypeOK /\ Unborn /\ PortHeld /\ Orderly /\ ~disturbed' /\ [Next]_vars => CertsFollow'
<1> SUFFICES ASSUME TypeOK, Unborn, PortHeld, Orderly, ~disturbed', [Next]_vars
             PROVE CertsFollow'
  OBVIOUS
<1>b. ASSUME NEW p \in Proxies, Bind(p)
      PROVE  /\ proxy[p] = "cleaned" /\ sock' = p /\ proxy' = [proxy EXCEPT ![p] = "bound"]
             /\ UNCHANGED <<sessVars, launched, tls, reused, pidFile, port, certs, past>>
  BY <1>b, BindSucceeds
<1>o. ASSUME NEW p \in Proxies, TakeOwnership(p)
      PROVE  /\ proxy[p] = "bound" /\ proxy' = [proxy EXCEPT ![p] = "owned"]
             /\ UNCHANGED <<sessVars, launched, tls, reused, files, certs, past>>
  BY <1>o, OwnershipSucceeds
<1>l. ASSUME NEW p \in Proxies, ListenPorts(p)
      PROVE  /\ proxy[p] = "owned" /\ proxy' = [proxy EXCEPT ![p] = "ported"]
             /\ UNCHANGED <<sessVars, launched, tls, reused, pidFile, sock, certs, past>>
  BY <1>l, ListenSucceeds
<1>v. ASSUME NEW p \in Proxies, StartServing(p)
      PROVE  /\ proxy[p] = "ported" /\ proxy' = [proxy EXCEPT ![p] = "serving"]
             /\ UNCHANGED <<sessVars, launched, tls, reused, files, certs, past>>
  BY <1>v, ServingSucceeds
<1> USE DEF vars, sessVars, procVars, files, Go, Return, Becomes, Released, Cleanup,
      Proxies, Alive, Bound, TypeOK, Orderly, Lives, Alone, NoneLives, Replacing,
      CertsFollow, LoadsTLS
<1>1. ASSUME NEW s \in Sessions, Enter(s) PROVE CertsFollow'
  BY <1>1 DEF Enter, Disturb, disturbed, Busy
<1>2. ASSUME NEW s \in Sessions, CheckRunning(s) PROVE CertsFollow'
  BY <1>2 DEF CheckRunning, PidAlive, SockExists
<1>3. ASSUME NEW s \in Sessions, RemovePidFile(s) PROVE CertsFollow'
  BY <1>3 DEF RemovePidFile
<1>4. ASSUME NEW s \in Sessions, RemoveSocket(s) PROVE CertsFollow'
  BY <1>4 DEF RemoveSocket
<1>5. ASSUME NEW s \in Sessions, FindUpstream(s) PROVE CertsFollow'
  BY <1>5 DEF FindUpstream
<1>6. ASSUME NEW s \in Sessions, EnsureCerts(s) PROVE CertsFollow'
  <2>1. CASE TreeExists
    <3>1. LoadsTLS
      BY <2>1, <1>6 DEF EnsureCerts, TreeExists
    <3>2. certs' = certs /\ withCerts' = [withCerts EXCEPT ![s] = TRUE]
      BY <2>1, <1>6 DEF EnsureCerts, TreeExists
    <3>3. step' = [step EXCEPT ![s] = "launch"]
      BY <2>1, <1>6 DEF EnsureCerts, TreeExists
    <3> QED
      BY <3>1, <3>2, <3>3, <1>6 DEF EnsureCerts
  <2>2. CASE ~TreeExists
    <3>1. certs' = certs \cup {"ca"} /\ withCerts' = withCerts
      BY <2>2, <1>6 DEF EnsureCerts, TreeExists
    <3>2. step' = [step EXCEPT ![s] = "server"]
      BY <2>2, <1>6 DEF EnsureCerts, TreeExists
    <3> QED
      BY <3>1, <3>2, <1>6 DEF EnsureCerts
  <2> QED
    BY <2>1, <2>2
<1>7. ASSUME NEW s \in Sessions, GenerateCerts(s) PROVE CertsFollow'
  BY <1>7 DEF GenerateCerts, CertFiles
<1>8. ASSUME NEW s \in Sessions, GenerateCertsFails(s) PROVE CertsFollow'
  BY <1>8 DEF GenerateCertsFails, Disturb, disturbed, Busy
<1>9. ASSUME NEW s \in Sessions, RemoveBoth(s) PROVE CertsFollow'
  BY <1>9 DEF RemoveBoth
<1>10. ASSUME NEW s \in Sessions, Spawn(s) PROVE CertsFollow'
  BY <1>10 DEF Spawn
<1>11. ASSUME NEW s \in Sessions, WritePid(s) PROVE CertsFollow'
  BY <1>11 DEF WritePid
<1>12. ASSUME NEW s \in Sessions, Poll(s) PROVE CertsFollow'
  BY <1>12 DEF Poll, PidAlive, SockExists, Disturb, disturbed, Busy
<1>13. ASSUME NEW s \in Sessions, Interrupt(s) PROVE CertsFollow'
  BY <1>13 DEF Interrupt, Disturb, disturbed, Busy
<1>14. ASSUME NEW p \in Proxies, RemoveStale(p) PROVE CertsFollow'
  BY <1>14 DEF RemoveStale
<1>15. ASSUME NEW p \in Proxies, Bind(p) PROVE CertsFollow'
  <2>1. /\ proxy[p] = "cleaned" /\ sock' = p /\ proxy' = [proxy EXCEPT ![p] = "bound"]
       /\ UNCHANGED <<sessVars, launched, tls, reused, pidFile, port, certs, past>>
    BY <1>15, <1>b
  <2> QED
    BY <2>1
<1>16. ASSUME NEW p \in Proxies, TakeOwnership(p) PROVE CertsFollow'
  <2>1. /\ proxy[p] = "bound" /\ proxy' = [proxy EXCEPT ![p] = "owned"]
       /\ UNCHANGED <<sessVars, launched, tls, reused, files, certs, past>>
    BY <1>16, <1>o
  <2> QED
    BY <2>1
<1>17. ASSUME NEW p \in Proxies, ListenPorts(p) PROVE CertsFollow'
  <2>1. /\ proxy[p] = "owned" /\ proxy' = [proxy EXCEPT ![p] = "ported"]
       /\ UNCHANGED <<sessVars, launched, tls, reused, pidFile, sock, certs, past>>
    BY <1>17, <1>l
  <2> QED
    BY <2>1
<1>18. ASSUME NEW p \in Proxies, StartServing(p) PROVE CertsFollow'
  <2>1. /\ proxy[p] = "ported" /\ proxy' = [proxy EXCEPT ![p] = "serving"]
       /\ UNCHANGED <<sessVars, launched, tls, reused, files, certs, past>>
    BY <1>18, <1>v
  <2> QED
    BY <2>1
<1>19. ASSUME NEW p \in Proxies, Terminate(p) PROVE CertsFollow'
  BY <1>19 DEF Terminate, Disturb, disturbed, Busy
<1>20. ASSUME NEW p \in Proxies, Kill(p) PROVE CertsFollow'
  BY <1>20 DEF Kill, Disturb, disturbed, Busy
<1>21. ASSUME NEW p \in Proxies, ReusePid(p) PROVE CertsFollow'
  BY <1>21 DEF ReusePid
<1>22. ASSUME NEW p \in Proxies, CannotListen(p) PROVE CertsFollow'
  BY <1>22 DEF CannotListen, Hinder
<1>23. CASE UNCHANGED vars
  BY <1>23
<1> QED
  BY <1>1, <1>2, <1>3, <1>4, <1>5, <1>6, <1>7, <1>8, <1>9, <1>10, <1>11, <1>12,
     <1>13, <1>14, <1>15, <1>16, <1>17, <1>18, <1>19, <1>20, <1>21, <1>22, <1>23 DEF Next,
          SessionStep, ProxyStep

-----------------------------------------------------------------------------
(* The theorems                                                             *)

\* Initially no proxy lives and nobody is busy.
LEMMA LifecycleInit == Init => LifecycleInv
<1> SUFFICES ASSUME Init PROVE LifecycleInv
  OBVIOUS
<1>1. TypeOK
  <2>1. reused \subseteq {p \in Proxies : proxy[p] \notin Alive} /\ certs \subseteq CertFiles
    BY DEF Init
  <2>2. 0 \in 0 .. MaxProxies /\ 0 \in 0 .. MaxKills
    BY LifecycleAssumption
  <2> QED
    BY <2>1, <2>2, Zenon DEF Init, TypeOK
<1>2. Unborn /\ PortHeld /\ Pending
  BY DEF Init, Unborn, PortHeld, Pending
<1>3. Alone /\ NoneLives /\ NoFailure
  BY DEF Init, Alone, NoneLives, NoFailure, Replacing
<1>4. \A p \in Proxies : ~Lives(p)
  BY DEF Init, Lives, Alive, Bound
<1>5. OneAlive /\ SocketFollows /\ PidFollows /\ CertsFollow
  BY <1>4 DEF Init, OneAlive, SocketFollows, PidFollows, CertsFollow, Lives, Alive
<1> QED
  BY <1>1, <1>2, <1>3, <1>5 DEF LifecycleInv, Orderly

\* Every step keeps the invariant.
LEMMA LifecycleNext == LifecycleInv /\ [Next]_vars => LifecycleInv'
<1> SUFFICES ASSUME LifecycleInv, [Next]_vars PROVE LifecycleInv'
  OBVIOUS
<1>1. TypeOK /\ Unborn /\ PortHeld /\ Pending /\ (~disturbed => Orderly)
  BY DEF LifecycleInv
<1>2. TypeOK' /\ Unborn' /\ PortHeld' /\ Pending'
  BY <1>1, TypeNext, UnbornNext, PortNext, PendingNext
<1>3. ASSUME ~disturbed' PROVE Orderly'
  <2>1. Orderly
    BY <1>1, <1>3, DisturbedStays
  <2> QED
    BY <1>1, <1>3, <2>1, AloneNext, OneAliveNext, NoneLivesNext, SocketNext, PidNext,
       NoFailureNext, CertsNext DEF Orderly
<1> QED
  BY <1>2, <1>3 DEF LifecycleInv

\* The invariant holds in every reachable state.
LEMMA LifecycleInvariant == Spec => []LifecycleInv
  BY LifecycleInit, LifecycleNext, PTL DEF Spec

\* The variables keep their types: in particular only dead proxies lose their
\* pid to another process.
THEOREM TypeCorrect == Spec => []TypeOK
<1>1. LifecycleInv => TypeOK
  BY DEF LifecycleInv
<1> QED
  BY <1>1, LifecycleInvariant, PTL

\* ensure_docker_proxy: sessions that come one after the other, through crashes,
\* restarts and reused pids, keep at most one proxy, and the socket path leads to
\* it once bound.
THEOREM OneReachableProxyInvariant == Spec => []OneReachableProxy
<1>1. LifecycleInv => OneReachableProxy
  BY Zenon DEF LifecycleInv, Orderly, OneAlive, SocketFollows, OneReachableProxy, Lives
<1> QED
  BY <1>1, LifecycleInvariant, PTL

\* ... and such a session never reports that the proxy failed to start.
THEOREM RecoversFromCrashInvariant == Spec => []RecoversFromCrash
<1>1. ASSUME LifecycleInv PROVE RecoversFromCrash
  <2>1. past \in {"calm", "hindered", "disturbed"} /\ (~disturbed => NoFailure)
    BY <1>1 DEF LifecycleInv, TypeOK, Orderly
  <2> QED
    BY <2>1 DEF NoFailure, RecoversFromCrash, disturbed
<1> QED
  BY <1>1, LifecycleInvariant, PTL

\* A session that answers has found the process and the socket in its check, ...
LEMMA CheckAnswers ==
  ASSUME TypeOK, Pending, Next, NEW s \in Sessions, Answers(s), step[s] = "check"
  PROVE  PidAlive /\ SockExists
<1> USE DEF vars, sessVars, procVars, files, Go, Return, Becomes, Released, Cleanup,
      Proxies, Alive, Bound, TypeOK, Answers, Pending
<1>1. ASSUME NEW t \in Sessions, Enter(t) PROVE PidAlive /\ SockExists
  BY <1>1 DEF Enter
<1>2. ASSUME NEW t \in Sessions, CheckRunning(t) PROVE PidAlive /\ SockExists
  BY <1>2 DEF CheckRunning, PidAlive, SockExists
<1>3. ASSUME NEW t \in Sessions, RemovePidFile(t) PROVE PidAlive /\ SockExists
  BY <1>3 DEF RemovePidFile
<1>4. ASSUME NEW t \in Sessions, RemoveSocket(t) PROVE PidAlive /\ SockExists
  BY <1>4 DEF RemoveSocket
<1>5. ASSUME NEW t \in Sessions, FindUpstream(t) PROVE PidAlive /\ SockExists
  BY <1>5 DEF FindUpstream
<1>6. ASSUME NEW t \in Sessions, EnsureCerts(t) PROVE PidAlive /\ SockExists
  BY <1>6 DEF EnsureCerts, TreeExists, CertFiles
<1>7. ASSUME NEW t \in Sessions, GenerateCerts(t) PROVE PidAlive /\ SockExists
  BY <1>7 DEF GenerateCerts, CertFiles
<1>8. ASSUME NEW t \in Sessions, GenerateCertsFails(t) PROVE PidAlive /\ SockExists
  BY <1>8 DEF GenerateCertsFails
<1>9. ASSUME NEW t \in Sessions, RemoveBoth(t) PROVE PidAlive /\ SockExists
  BY <1>9 DEF RemoveBoth
<1>10. ASSUME NEW t \in Sessions, Spawn(t) PROVE PidAlive /\ SockExists
  BY <1>10 DEF Spawn
<1>11. ASSUME NEW t \in Sessions, WritePid(t) PROVE PidAlive /\ SockExists
  BY <1>11 DEF WritePid
<1>12. ASSUME NEW t \in Sessions, Poll(t) PROVE PidAlive /\ SockExists
  BY <1>12 DEF Poll, PidAlive, SockExists
<1>13. ASSUME NEW t \in Sessions, Interrupt(t) PROVE PidAlive /\ SockExists
  BY <1>13 DEF Interrupt
<1>14. ASSUME NEW q \in Proxies, RemoveStale(q) PROVE PidAlive /\ SockExists
  BY <1>14 DEF RemoveStale
<1>15. ASSUME NEW q \in Proxies, Bind(q) PROVE PidAlive /\ SockExists
  BY <1>15 DEF Bind
<1>16. ASSUME NEW q \in Proxies, TakeOwnership(q) PROVE PidAlive /\ SockExists
  BY <1>16 DEF TakeOwnership
<1>17. ASSUME NEW q \in Proxies, ListenPorts(q) PROVE PidAlive /\ SockExists
  BY <1>17 DEF ListenPorts
<1>18. ASSUME NEW q \in Proxies, StartServing(q) PROVE PidAlive /\ SockExists
  BY <1>18 DEF StartServing, LoadsTLS
<1>19. ASSUME NEW q \in Proxies, Terminate(q) PROVE PidAlive /\ SockExists
  BY <1>19 DEF Terminate
<1>20. ASSUME NEW q \in Proxies, Kill(q) PROVE PidAlive /\ SockExists
  BY <1>20 DEF Kill
<1>21. ASSUME NEW q \in Proxies, ReusePid(q) PROVE PidAlive /\ SockExists
  BY <1>21 DEF ReusePid
<1>22. ASSUME NEW q \in Proxies, CannotListen(q) PROVE PidAlive /\ SockExists
  BY <1>22 DEF CannotListen, Hinder
<1> QED
  BY <1>1, <1>2, <1>3, <1>4, <1>5, <1>6, <1>7, <1>8, <1>9, <1>10, <1>11, <1>12,
     <1>13, <1>14, <1>15, <1>16, <1>17, <1>18, <1>19, <1>20, <1>21, <1>22 DEF Next,
          SessionStep, ProxyStep

\* ... or waits.
LEMMA PollAnswers ==
  ASSUME TypeOK, Pending, Next, NEW s \in Sessions, Answers(s), step[s] = "poll"
  PROVE  Poll(s)
<1> USE DEF vars, sessVars, procVars, files, Go, Return, Becomes, Released, Cleanup,
      Proxies, Alive, Bound, TypeOK, Answers, Pending
<1>1. ASSUME NEW t \in Sessions, Enter(t) PROVE Poll(s)
  BY <1>1 DEF Enter
<1>2. ASSUME NEW t \in Sessions, CheckRunning(t) PROVE Poll(s)
  BY <1>2 DEF CheckRunning, PidAlive, SockExists
<1>3. ASSUME NEW t \in Sessions, RemovePidFile(t) PROVE Poll(s)
  BY <1>3 DEF RemovePidFile
<1>4. ASSUME NEW t \in Sessions, RemoveSocket(t) PROVE Poll(s)
  BY <1>4 DEF RemoveSocket
<1>5. ASSUME NEW t \in Sessions, FindUpstream(t) PROVE Poll(s)
  BY <1>5 DEF FindUpstream
<1>6. ASSUME NEW t \in Sessions, EnsureCerts(t) PROVE Poll(s)
  BY <1>6 DEF EnsureCerts, TreeExists, CertFiles
<1>7. ASSUME NEW t \in Sessions, GenerateCerts(t) PROVE Poll(s)
  BY <1>7 DEF GenerateCerts, CertFiles
<1>8. ASSUME NEW t \in Sessions, GenerateCertsFails(t) PROVE Poll(s)
  BY <1>8 DEF GenerateCertsFails
<1>9. ASSUME NEW t \in Sessions, RemoveBoth(t) PROVE Poll(s)
  BY <1>9 DEF RemoveBoth
<1>10. ASSUME NEW t \in Sessions, Spawn(t) PROVE Poll(s)
  BY <1>10 DEF Spawn
<1>11. ASSUME NEW t \in Sessions, WritePid(t) PROVE Poll(s)
  BY <1>11 DEF WritePid
<1>12. ASSUME NEW t \in Sessions, Poll(t) PROVE Poll(s)
  BY <1>12 DEF Poll, PidAlive, SockExists
<1>13. ASSUME NEW t \in Sessions, Interrupt(t) PROVE Poll(s)
  BY <1>13 DEF Interrupt
<1>14. ASSUME NEW q \in Proxies, RemoveStale(q) PROVE Poll(s)
  BY <1>14 DEF RemoveStale
<1>15. ASSUME NEW q \in Proxies, Bind(q) PROVE Poll(s)
  BY <1>15 DEF Bind
<1>16. ASSUME NEW q \in Proxies, TakeOwnership(q) PROVE Poll(s)
  BY <1>16 DEF TakeOwnership
<1>17. ASSUME NEW q \in Proxies, ListenPorts(q) PROVE Poll(s)
  BY <1>17 DEF ListenPorts
<1>18. ASSUME NEW q \in Proxies, StartServing(q) PROVE Poll(s)
  BY <1>18 DEF StartServing, LoadsTLS
<1>19. ASSUME NEW q \in Proxies, Terminate(q) PROVE Poll(s)
  BY <1>19 DEF Terminate
<1>20. ASSUME NEW q \in Proxies, Kill(q) PROVE Poll(s)
  BY <1>20 DEF Kill
<1>21. ASSUME NEW q \in Proxies, ReusePid(q) PROVE Poll(s)
  BY <1>21 DEF ReusePid
<1>22. ASSUME NEW q \in Proxies, CannotListen(q) PROVE Poll(s)
  BY <1>22 DEF CannotListen, Hinder
<1> QED
  BY <1>1, <1>2, <1>3, <1>4, <1>5, <1>6, <1>7, <1>8, <1>9, <1>10, <1>11, <1>12,
     <1>13, <1>14, <1>15, <1>16, <1>17, <1>18, <1>19, <1>20, <1>21, <1>22 DEF Next,
          SessionStep, ProxyStep

\* "ready" is only said of a bound proxy of the user, unless sessions disturbed
\* each other or a pid was reused.
THEOREM ReadyMeansBound == Spec => ReadyIsBound
<1> DEFINE Ready ==
      \A s \in Sessions : Answers(s) /\ ~disturbed /\ reused = {} => OwnProxyBound
<1>1. LifecycleInv /\ [Next]_vars => [Ready]_vars
  <2> SUFFICES ASSUME LifecycleInv, Next, NEW s \in Sessions, Answers(s),
                      ~disturbed, reused = {}
               PROVE OwnProxyBound
    OBVIOUS
  <2>1. TypeOK /\ Pending /\ Orderly
    BY DEF LifecycleInv
  <2>2. CASE step[s] = "check"
    <3>1. PidAlive /\ SockExists
      BY <2>1, <2>2, CheckAnswers
    <3>2. pidFile \in Proxies /\ Lives(pidFile)
      BY <2>1, <3>1 DEF PidAlive, Lives, TypeOK, Proxies
    <3> QED
      BY <2>1, <2>2, <3>1, <3>2, CheckFinds DEF OwnProxyBound, SockExists
  <2>3. CASE step[s] = "poll"
    <3>1. Poll(s)
      BY <2>1, <2>3, PollAnswers
    <3>2. step'[s] = "idle"
      BY DEF Answers
    <3>3. ~disturbed'
      BY <2>1, <3>1, <3>2 DEF Poll, Go, TypeOK, disturbed
    <3>4. step' # [step EXCEPT ![s] = "failPid"]
      BY <2>1, <3>2 DEF TypeOK
    <3> QED
      BY <2>1, <3>1, <3>3, <3>4, PollFinds DEF OwnProxyBound, Proxies
  <2> QED
    BY <2>2, <2>3 DEF Answers
<1> QED
  BY <1>1, LifecycleInvariant, PTL DEF Spec, ReadyIsBound

\* Where a proxy meets the path, the ports and the files.
MeetsOthers(p) == TakeOwnership(p) \/ ListenPorts(p) \/ CannotListen(p) \/ StartServing(p)

\* A bound proxy exits only where it meets the path, the ports or the files.
LEMMA FailsFrom ==
  ASSUME TypeOK, Pending, Next, NEW p \in Proxies, Fails(p)
  PROVE  MeetsOthers(p)
<1> USE DEF vars, sessVars, procVars, files, Go, Return, Becomes, Released, Cleanup,
      Proxies, Alive, Bound, TypeOK, Fails, MeetsOthers
<1>1. ASSUME NEW t \in Sessions, Enter(t) PROVE MeetsOthers(p)
  BY <1>1 DEF Enter
<1>2. ASSUME NEW t \in Sessions, CheckRunning(t) PROVE MeetsOthers(p)
  BY <1>2 DEF CheckRunning, PidAlive, SockExists
<1>3. ASSUME NEW t \in Sessions, RemovePidFile(t) PROVE MeetsOthers(p)
  BY <1>3 DEF RemovePidFile
<1>4. ASSUME NEW t \in Sessions, RemoveSocket(t) PROVE MeetsOthers(p)
  BY <1>4 DEF RemoveSocket
<1>5. ASSUME NEW t \in Sessions, FindUpstream(t) PROVE MeetsOthers(p)
  BY <1>5 DEF FindUpstream
<1>6. ASSUME NEW t \in Sessions, EnsureCerts(t) PROVE MeetsOthers(p)
  BY <1>6 DEF EnsureCerts, TreeExists, CertFiles
<1>7. ASSUME NEW t \in Sessions, GenerateCerts(t) PROVE MeetsOthers(p)
  BY <1>7 DEF GenerateCerts, CertFiles
<1>8. ASSUME NEW t \in Sessions, GenerateCertsFails(t) PROVE MeetsOthers(p)
  BY <1>8 DEF GenerateCertsFails
<1>9. ASSUME NEW t \in Sessions, RemoveBoth(t) PROVE MeetsOthers(p)
  BY <1>9 DEF RemoveBoth
<1>10. ASSUME NEW t \in Sessions, Spawn(t) PROVE MeetsOthers(p)
  BY <1>10 DEF Spawn
<1>11. ASSUME NEW t \in Sessions, WritePid(t) PROVE MeetsOthers(p)
  BY <1>11 DEF WritePid
<1>12. ASSUME NEW t \in Sessions, Poll(t) PROVE MeetsOthers(p)
  BY <1>12 DEF Poll, PidAlive, SockExists
<1>13. ASSUME NEW t \in Sessions, Interrupt(t) PROVE MeetsOthers(p)
  BY <1>13 DEF Interrupt
<1>14. ASSUME NEW q \in Proxies, RemoveStale(q) PROVE MeetsOthers(p)
  BY <1>14 DEF RemoveStale
<1>15. ASSUME NEW q \in Proxies, Bind(q) PROVE MeetsOthers(p)
  BY <1>15 DEF Bind
<1>16. ASSUME NEW q \in Proxies, TakeOwnership(q) PROVE MeetsOthers(p)
  BY <1>16 DEF TakeOwnership
<1>17. ASSUME NEW q \in Proxies, ListenPorts(q) PROVE MeetsOthers(p)
  BY <1>17 DEF ListenPorts
<1>18. ASSUME NEW q \in Proxies, StartServing(q) PROVE MeetsOthers(p)
  BY <1>18 DEF StartServing, LoadsTLS
<1>19. ASSUME NEW q \in Proxies, Terminate(q) PROVE MeetsOthers(p)
  BY <1>19 DEF Terminate
<1>20. ASSUME NEW q \in Proxies, Kill(q) PROVE MeetsOthers(p)
  BY <1>20 DEF Kill
<1>21. ASSUME NEW q \in Proxies, ReusePid(q) PROVE MeetsOthers(p)
  BY <1>21 DEF ReusePid
<1>22. ASSUME NEW q \in Proxies, CannotListen(q) PROVE MeetsOthers(p)
  BY <1>22 DEF CannotListen, Hinder
<1> QED
  BY <1>1, <1>2, <1>3, <1>4, <1>5, <1>6, <1>7, <1>8, <1>9, <1>10, <1>11, <1>12,
     <1>13, <1>14, <1>15, <1>16, <1>17, <1>18, <1>19, <1>20, <1>21, <1>22 DEF Next,
          SessionStep, ProxyStep

\* A proxy that has bound its socket fails only on its allowlist or on somebody
\* else's use of its ports, never on what earlier proxies of the user left behind
\* nor on certificates it was promised, unless sessions disturbed each other.
THEOREM BoundFailsForOthersHolds == Spec => BoundFailsForOthers
<1> DEFINE Excused == \A p \in Proxies : Fails(p) => disturbed \/ MeetsNoProxy(p)
<1>1. LifecycleInv /\ [Next]_vars => [Excused]_vars
  <2> SUFFICES ASSUME LifecycleInv, Next, NEW p \in Proxies, Fails(p), ~disturbed
               PROVE MeetsNoProxy(p)
    OBVIOUS
  <2>1. TypeOK /\ Pending /\ PortHeld /\ Orderly
    BY DEF LifecycleInv
  <2>2. TakeOwnership(p) \/ ListenPorts(p) \/ CannotListen(p) \/ StartServing(p)
    BY <2>1, FailsFrom DEF MeetsOthers
  <2>3. ~(TakeOwnership(p) \/ ListenPorts(p) \/ StartServing(p))
    BY <2>1, OwnershipSucceeds, ListenSucceeds, ServingSucceeds DEF Fails, TypeOK
  <2>4. proxy[p] = "owned"
    BY <2>2, <2>3 DEF CannotListen
  <2> QED
    BY <2>1, <2>4, PortsFree DEF MeetsNoProxy
<1> QED
  BY <1>1, LifecycleInvariant, PTL DEF Spec, BoundFailsForOthers

=============================================================================

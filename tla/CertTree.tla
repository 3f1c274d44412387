------------------------------ MODULE CertTree ------------------------------
(***************************************************************************)
(* Who writes the certificate tree of one user's proxy: sessions of iso in *)
(* ensure_proxy_tls_certs, the --init-tls processes they run (main.go,     *)
(* tls_init.go), and what the proxy they launch then loads.                *)
(*                                                                         *)
(* Every generation makes a CA of its own and signs both certificates with *)
(* it, so the content of a file is the generation that wrote it.           *)
(***************************************************************************)
EXTENDS Naturals, Sequences

CONSTANTS
  Sessions,        \* iso processes that may run at the same time
  MaxGenerations,  \* bound: runs of generateCerts
  MaxFaults        \* bound: failed writes and interruptions

ASSUME CertTreeAssumption == MaxGenerations \in Nat /\ MaxFaults \in Nat

VARIABLES
  step,       \* step[s]: where session s is
  gen,        \* gen[s]: the generation it runs
  next,       \* next[s]: place in FileOrder of the file it writes next
  file,       \* file[f]: whether f exists and what it contains
  owner,      \* owner[f]: whose file it is
  loaded,     \* the running proxy's generations of ca.pem and server.crt
  generations, faults,
  overlapped, \* history: a session entered while another was at the tree
  torn        \* history: a session failed or died at the tree

sessVars == <<step, gen, next>>
treeVars == <<sessVars, file, owner, loaded, generations, faults, overlapped, torn>>

\* In the order in which generateCerts writes them.
FileOrder == <<"ca.pem", "ca.key", "server.crt", "server.key", "cert.pem", "key.pem">>
Files == {FileOrder[i] : i \in DOMAIN FileOrder}
ClientFiles == {"ca.pem", "cert.pem", "key.pem"}

Unusable == 0    \* empty, or written by two processes at once
Generations == 1 .. MaxGenerations
NotRunning == [ca |-> 0, server |-> 0]

TreeTypeOK ==
  /\ step \in [Sessions -> {"idle", "init", "open", "write", "chown", "ready"}]
  /\ gen \in [Sessions -> Generations \cup {0}]
  /\ next \in [Sessions -> DOMAIN FileOrder]
  /\ file \in [Files -> [exists : BOOLEAN, by : Generations \cup {Unusable}]]
  /\ owner \in [Files -> {"root", "user"}]
  /\ loaded \in [ca : Generations \cup {0}, server : Generations \cup {0}]
  /\ generations \in 0 .. MaxGenerations /\ faults \in 0 .. MaxFaults
  /\ overlapped \in BOOLEAN /\ torn \in BOOLEAN

TreeInit ==
  /\ step = [s \in Sessions |-> "idle"]
  /\ gen = [s \in Sessions |-> 0]
  /\ next = [s \in Sessions |-> 1]
  /\ file = [f \in Files |-> [exists |-> FALSE, by |-> Unusable]]
  /\ owner = [f \in Files |-> "root"]
  /\ loaded = NotRunning
  /\ generations = 0 /\ faults = 0
  /\ overlapped = FALSE /\ torn = FALSE

Go(s, to) == step' = [step EXCEPT ![s] = to]
AtTree == {s \in Sessions : step[s] # "idle"}

\* Mutant: the tree exists when all its files do.
AllFilesExist == \A f \in Files : file[f].exists

\* iso looks for ca.pem, and so does --init-tls.
TreeExists == file["ca.pem"].exists

EnterTree(s) ==
  /\ step[s] = "idle"
  /\ Go(s, IF TreeExists THEN "ready" ELSE "init")
  /\ overlapped' = (overlapped \/ AtTree # {})
  /\ UNCHANGED <<gen, next, file, owner, loaded, generations, faults, torn>>

\* --init-tls: nothing to do, or a new CA.
InitTLS(s) ==
  /\ step[s] = "init"
  /\ \/ TreeExists /\ Go(s, "chown") /\ UNCHANGED <<gen, next, generations>>
     \/ /\ ~TreeExists /\ generations < MaxGenerations
        /\ Go(s, "open")
        /\ generations' = generations + 1
        /\ gen' = [gen EXCEPT ![s] = generations + 1]
        /\ next' = [next EXCEPT ![s] = 1]
  /\ UNCHANGED <<file, owner, loaded, faults, overlapped, torn>>

\* O_CREATE and O_TRUNC.
OpenFile(s) ==
  /\ step[s] = "open" /\ Go(s, "write")
  /\ file' = [file EXCEPT ![FileOrder[next[s]]] = [exists |-> TRUE, by |-> Unusable]]
  /\ UNCHANGED <<gen, next, owner, loaded, generations, faults, overlapped, torn>>

\* Another process has the same file open.
WritesWith(s, t) == t # s /\ step[t] = "write" /\ next[t] = next[s]

\* Mutant: one file too many.
OneMoreFile == Len(FileOrder) + 1

LastFile == Len(FileOrder)

\* pem.Encode; the next file, or the end of --init-tls.
WriteFile(s) ==
  /\ step[s] = "write"
  /\ \E by \in {gen[s]} \cup
              (IF \E t \in Sessions : WritesWith(s, t) THEN {Unusable} ELSE {}) :
       file' = [file EXCEPT ![FileOrder[next[s]]].by = by]
  /\ IF next[s] < LastFile
     THEN Go(s, "open") /\ next' = [next EXCEPT ![s] = @ + 1]
     ELSE Go(s, "chown") /\ UNCHANGED next
  /\ UNCHANGED <<gen, owner, loaded, generations, faults, overlapped, torn>>

\* Mutant: only the directory changes hands.
ChownsDirectory(s) ==
  /\ step[s] = "chown" /\ Go(s, "ready")
  /\ UNCHANGED <<gen, next, file, owner, loaded, generations, faults, overlapped, torn>>

\* chown -R <user>
Chown(s) ==
  /\ step[s] = "chown" /\ Go(s, "ready")
  /\ owner' = [f \in Files |-> IF file[f].exists THEN "user" ELSE owner[f]]
  /\ UNCHANGED <<gen, next, file, loaded, generations, faults, overlapped, torn>>

\* A write fails and iso does without TLS; or a process is killed.
GiveUp(s) ==
  /\ step[s] \in {"init", "open", "write", "chown"} /\ faults < MaxFaults
  /\ faults' = faults + 1 /\ torn' = TRUE /\ Go(s, "idle")
  /\ UNCHANGED <<gen, next, file, owner, loaded, generations, overlapped>>

\* loadServerTLS
Loads ==
  /\ file["ca.pem"].by # Unusable /\ file["server.crt"].by # Unusable
  /\ file["server.crt"].by = file["server.key"].by

\* The session launches a proxy, unless one runs; a tree it cannot load is fatal.
Launch(s) ==
  /\ step[s] = "ready" /\ Go(s, "idle")
  /\ loaded' = IF loaded = NotRunning /\ Loads
               THEN [ca |-> file["ca.pem"].by, server |-> file["server.crt"].by]
               ELSE loaded
  /\ UNCHANGED <<gen, next, file, owner, generations, faults, overlapped, torn>>

ProxyEnds ==
  /\ loaded # NotRunning /\ loaded' = NotRunning
  /\ UNCHANGED <<sessVars, file, owner, generations, faults, overlapped, torn>>

TreeNext ==
  \/ \E s \in Sessions :
       \/ EnterTree(s) \/ InitTLS(s) \/ OpenFile(s) \/ WriteFile(s) \/ Chown(s)
       \/ GiveUp(s) \/ Launch(s)
  \/ ProxyEnds

TreeSpec == TreeInit /\ [][TreeNext]_treeVars

-----------------------------------------------------------------------------
(* Properties                                                               *)

Written == {f \in Files : file[f].by # Unusable}
OneAuthor == \A f, g \in Written : file[f].by = file[g].by

\* Sessions that come one after the other never mix the certificates of two
\* authorities, whatever failed or was interrupted before, and do not replace
\* what a running proxy has loaded: it and its clients keep trusting each other.
OneAuthorityWhenSequential ==
  ~overlapped =>
    /\ OneAuthor
    /\ loaded # NotRunning =>
         \A f \in ClientFiles \cap Written :
           file[f].by = loaded.ca /\ loaded.server = loaded.ca

\* If, besides, nothing failed, a session that is given the directory finds the
\* whole tree there, and the user can read the client's part.
ReadyIsUsable ==
  ~overlapped /\ ~torn /\ (\E s \in Sessions : step[s] = "ready") =>
    /\ Written = Files /\ OneAuthor /\ Loads
    /\ \A f \in ClientFiles : owner[f] = "user"

\* "Cert generation is one-shot", for any sessions: with no generation under
\* way there is one authority.
OneAuthority == AtTree = {} => OneAuthor

=============================================================================

-------------------------- MODULE AllowlistReload --------------------------
(***************************************************************************)
(* The hot-reloadable host allowlist of one user's CONNECT proxy:          *)
(* write_proxy_allowlists and the start of the proxy in bin/iso, the       *)
(* start-up order and the SIGHUP loop of cmd/docker-proxy/main.go, and     *)
(* HostAllowlist of internal/proxy/connect.go with its RWMutex.            *)
(*                                                                         *)
(* A file content is the version it was generated from, kept apart for its *)
(* wildcard lines and its exact lines: the file is sorted, so the wildcard *)
(* lines come first, and a reader may meet one part without the other.     *)
(* Version 0 is "no lines".                                                *)
(***************************************************************************)
EXTENDS Naturals

CONSTANTS
  MaxEdits,   \* bound: runs of "iso pf"
  MaxStarts   \* bound: launches of the proxy

ASSUME BoundsAssumption == MaxEdits \in Nat /\ MaxStarts \in Nat

VARIABLES
  \* iso pf and the file
  edits, pf, exists, fileSuf, fileHosts,
  \* iso run: ensure_docker_proxy and the pid file
  ensure, starts, pidFile,
  \* the proxy process
  proc,       \* "down", "plain" (no CONNECT listener), "boot", "loaded", "listening", "serving"
  sig,        \* a SIGHUP the runtime has not yet put on the channel
  hupCh,      \* hupCh holds a signal (its capacity is 1)
  reload,     \* where Reload is
  rdSuf, rdHosts,                        \* what Reload has parsed
  mu,                                    \* HostAllowlist.mu
  hostsGen, hostsVer, sufGen, sufVer,    \* the snapshot, and the Reload it is from
  lookup, seenGen,                       \* a goroutine in Contains
  \* history
  told,       \* version of the file when a running proxy was last sent SIGHUP
  due,        \* the same, for a proxy past signal.Notify
  failed      \* a Reload has reported an error

fileVars == <<edits, pf, exists, fileSuf, fileHosts>>
ensureVars == <<ensure, starts, pidFile>>
snapshot == <<hostsGen, hostsVer, sufGen, sufVer>>
reloadVars == <<reload, rdSuf, rdHosts>>
lookupVars == <<lookup, seenGen>>
history == <<told, due, failed>>
vars == <<fileVars, ensureVars, proc, sig, hupCh, reloadVars, mu, snapshot,
          lookupVars, history>>

ConnectOn == {"boot", "loaded", "listening", "serving"}
Gens == 0 .. MaxEdits + MaxStarts

TypeOK ==
  /\ edits \in 0 .. MaxEdits
  /\ pf \in {"idle", "truncated", "half", "written"}
  /\ exists \in BOOLEAN
  /\ fileSuf \in 0 .. MaxEdits /\ fileHosts \in 0 .. MaxEdits
  /\ ensure \in {"idle", "with", "without", "launched"}
  /\ starts \in 0 .. MaxStarts /\ pidFile \in 0 .. MaxStarts
  /\ proc \in {"down", "plain"} \cup ConnectOn
  /\ sig \in BOOLEAN /\ hupCh \in BOOLEAN
  /\ reload \in {"idle", "open", "half", "parsed", "swap"}
  /\ rdSuf \in 0 .. MaxEdits /\ rdHosts \in 0 .. MaxEdits
  /\ mu \in {"free", "read", "write"}
  /\ hostsGen \in Gens /\ sufGen \in Gens
  /\ hostsVer \in 0 .. MaxEdits /\ sufVer \in 0 .. MaxEdits
  /\ lookup \in {"idle", "hosts"} /\ seenGen \in Gens
  /\ told \in 0 .. MaxEdits /\ due \in 0 .. MaxEdits
  /\ failed \in BOOLEAN

Init ==
  /\ edits = 0 /\ pf = "idle" /\ exists = FALSE /\ fileSuf = 0 /\ fileHosts = 0
  /\ ensure = "idle" /\ starts = 0 /\ pidFile = 0
  /\ proc = "down" /\ sig = FALSE /\ hupCh = FALSE
  /\ reload = "idle" /\ rdSuf = 0 /\ rdHosts = 0 /\ mu = "free"
  /\ hostsGen = 0 /\ hostsVer = 0 /\ sufGen = 0 /\ sufVer = 0
  /\ lookup = "idle" /\ seenGen = 0
  /\ told = 0 /\ due = 0 /\ failed = FALSE

-----------------------------------------------------------------------------
(* iso pf: write_proxy_allowlists                                           *)

procVars == <<proc, sig, hupCh, reloadVars, mu, snapshot, lookupVars>>

\* tee opens the file with O_TRUNC, or cannot open it (a warning is printed).
Truncate ==
  /\ pf = "idle" /\ edits < MaxEdits
  /\ edits' = edits + 1
  /\ \/ pf' = "truncated" /\ exists' = TRUE /\ fileSuf' = 0 /\ fileHosts' = 0
     \/ pf' = "written" /\ UNCHANGED <<exists, fileSuf, fileHosts>>
  /\ UNCHANGED <<ensureVars, procVars, history>>

WriteWildcards ==
  /\ pf = "truncated" /\ pf' = "half" /\ fileSuf' = edits
  /\ UNCHANGED <<edits, exists, fileHosts, ensureVars, procVars, history>>

WriteExact ==
  /\ pf = "half" /\ pf' = "written" /\ fileHosts' = edits
  /\ UNCHANGED <<edits, exists, fileSuf, ensureVars, procVars, history>>

\* ps shows a docker-proxy under the pid the pid file holds.
PidRuns == proc # "down" /\ pidFile = starts

\* The proxy has installed the handler: signal.Notify(hupCh, SIGHUP).  Before,
\* SIGHUP is ignored: the launch goes through nohup.
Notified == proc = "serving"

SignalProxies ==
  /\ pf = "written" /\ pf' = "idle"
  /\ told' = IF PidRuns /\ proc \in ConnectOn THEN fileHosts ELSE told
  /\ due' = IF PidRuns /\ Notified THEN fileHosts ELSE due
  /\ sig' = (sig \/ (PidRuns /\ Notified))
  /\ UNCHANGED <<edits, exists, fileSuf, fileHosts, ensureVars, proc, hupCh,
                 reloadVars, mu, snapshot, lookupVars, failed>>

-----------------------------------------------------------------------------
(* iso run: ensure_docker_proxy                                             *)

\* The pid file names no running proxy; is there an allowlist?
EnsureStarts ==
  /\ ensure = "idle" /\ proc = "down" /\ starts < MaxStarts
  /\ pidFile' = 0
  /\ ensure' = IF exists THEN "with" ELSE "without"
  /\ UNCHANGED <<starts, fileVars, procVars, history>>

\* "nohup docker-proxy ... &"
Launch ==
  /\ ensure \in {"with", "without"}
  /\ starts' = starts + 1 /\ pidFile' = 0
  /\ proc' = IF ensure = "with" THEN "boot" ELSE "plain"
  /\ reload' = IF ensure = "with" THEN "open" ELSE "idle"
  /\ ensure' = "launched"
  /\ UNCHANGED <<fileVars, sig, hupCh, rdSuf, rdHosts, mu, snapshot, lookupVars,
                 history>>

\* "echo $! > pid_file"
WritePid ==
  /\ ensure = "launched" /\ ensure' = "idle" /\ pidFile' = starts
  /\ UNCHANGED <<starts, fileVars, procVars, history>>

-----------------------------------------------------------------------------
(* The proxy process                                                        *)

\* The process ends and takes its memory with it.
Exit ==
  /\ proc' = "down" /\ sig' = FALSE /\ hupCh' = FALSE
  /\ reload' = "idle" /\ rdSuf' = 0 /\ rdHosts' = 0 /\ mu' = "free"
  /\ hostsVer' = 0 /\ sufVer' = 0 /\ sufGen' = hostsGen /\ UNCHANGED hostsGen
  /\ lookup' = "idle" /\ UNCHANGED seenGen
  /\ told' = 0 /\ due' = 0

Crash ==
  /\ proc # "down" /\ Exit
  /\ UNCHANGED <<fileVars, ensureVars, failed>>

rest == <<fileVars, ensureVars, told, due>>

\* Reload: open and scan the file.
ParseWildcards ==
  /\ reload = "open" /\ reload' = "half" /\ rdSuf' = fileSuf
  /\ UNCHANGED <<rest, proc, sig, hupCh, rdHosts, mu, snapshot, lookupVars, failed>>

ParseExact ==
  /\ reload = "half" /\ reload' = "parsed" /\ rdHosts' = fileHosts
  /\ UNCHANGED <<rest, proc, sig, hupCh, rdSuf, mu, snapshot, lookupVars, failed>>

\* Reload returns an error: fatal at start-up, logged by the SIGHUP loop.
ReloadFails ==
  /\ reload \in {"open", "half"} /\ failed' = TRUE
  /\ \/ proc = "boot" /\ Exit /\ UNCHANGED <<fileVars, ensureVars>>
     \/ /\ proc # "boot" /\ reload' = "idle"
        /\ UNCHANGED <<rest, proc, sig, hupCh, rdSuf, rdHosts, mu, snapshot, lookupVars>>

\* a.mu.Lock(); a.hosts = hosts
SwapHosts ==
  /\ reload = "parsed" /\ mu = "free"
  /\ reload' = "swap" /\ mu' = "write"
  /\ hostsGen' = hostsGen + 1 /\ hostsVer' = rdHosts
  /\ UNCHANGED <<rest, proc, sig, hupCh, rdSuf, rdHosts, sufGen, sufVer, lookupVars,
                 failed>>

\* a.suffixes = suffixes; a.mu.Unlock(); LoadHostAllowlist returns to main.
SwapSuffixes ==
  /\ reload = "swap"
  /\ reload' = "idle" /\ mu' = "free"
  /\ sufGen' = hostsGen /\ sufVer' = rdSuf
  /\ proc' = IF proc = "boot" THEN "loaded" ELSE proc
  /\ UNCHANGED <<rest, sig, hupCh, rdSuf, rdHosts, hostsGen, hostsVer, lookupVars,
                 failed>>

\* net.Listen and go cp.Serve, or the port is taken (fatal).
Listen ==
  /\ proc = "loaded"
  /\ \/ proc' = "listening" /\ UNCHANGED <<sig, hupCh, reloadVars, mu, snapshot,
                                            lookupVars, told, due>>
     \/ Exit
  /\ UNCHANGED <<fileVars, ensureVars, failed>>

Notify ==
  /\ proc = "listening" /\ proc' = "serving"
  /\ UNCHANGED <<rest, sig, hupCh, reloadVars, mu, snapshot, lookupVars, failed>>

\* Mutant: hupCh has no buffer, so a signal during a Reload is dropped.
DeliverUnbuffered ==
  /\ sig /\ sig' = FALSE /\ hupCh' = (reload = "idle")
  /\ UNCHANGED <<rest, proc, reloadVars, mu, snapshot, lookupVars, failed>>

\* The runtime sends without blocking: with hupCh full the signal is dropped.
DeliverHup ==
  /\ sig /\ sig' = FALSE /\ hupCh' = TRUE
  /\ UNCHANGED <<rest, proc, reloadVars, mu, snapshot, lookupVars, failed>>

\* Mutant: one receive instead of a loop.
TakeFirstHup ==
  /\ hupCh /\ reload = "idle" /\ hostsGen < 2
  /\ hupCh' = FALSE /\ reload' = "open"
  /\ UNCHANGED <<rest, proc, sig, rdSuf, rdHosts, mu, snapshot, lookupVars, failed>>

\* for range hupCh { allow.Reload() }
TakeHup ==
  /\ hupCh /\ reload = "idle"
  /\ hupCh' = FALSE /\ reload' = "open"
  /\ UNCHANGED <<rest, proc, sig, rdSuf, rdHosts, mu, snapshot, lookupVars, failed>>

\* Mutant: Contains does not take the lock.
LookUpUnlocked == TRUE

\* Contains: a.mu.RLock(); the exact hosts are looked up ...
CanLookUp == mu = "free"
LookUpHosts ==
  /\ proc \in {"listening", "serving"} /\ lookup = "idle" /\ CanLookUp
  /\ lookup' = "hosts" /\ seenGen' = hostsGen /\ mu' = "read"
  /\ UNCHANGED <<rest, proc, sig, hupCh, reloadVars, snapshot, failed>>

\* ... then the suffixes; the deferred RUnlock.
LookUpSuffixes ==
  /\ lookup = "hosts" /\ lookup' = "idle" /\ mu' = "free"
  /\ UNCHANGED <<seenGen, rest, proc, sig, hupCh, reloadVars, snapshot, failed>>

-----------------------------------------------------------------------------
Scan == ParseWildcards \/ ParseExact \/ ReloadFails
Swap == SwapHosts \/ SwapSuffixes
Pf == WriteWildcards \/ WriteExact \/ SignalProxies
Main == Listen \/ Notify

Next ==
  \/ Truncate \/ Pf
  \/ EnsureStarts \/ Launch \/ WritePid
  \/ Crash \/ Main \/ Scan \/ Swap
  \/ DeliverHup \/ TakeHup
  \/ LookUpHosts \/ LookUpSuffixes

Spec == Init /\ [][Next]_vars

\* iso and the proxy's goroutines run; the mutex is not starved (sync.RWMutex
\* keeps new readers out while a writer waits), hence SF for Swap.
FairSpec ==
  /\ Spec
  /\ WF_vars(Pf) /\ WF_vars(Main) /\ WF_vars(Scan) /\ SF_vars(Swap)
  /\ WF_vars(DeliverHup) /\ WF_vars(TakeHup) /\ WF_vars(LookUpSuffixes)

-----------------------------------------------------------------------------
(* Properties                                                               *)

\* A lookup never combines the hosts of one Reload with the suffixes of
\* another ("atomically swaps in the new set").
LookupSeesOneReload == lookup = "hosts" => sufGen = seenGen

\* Nothing is on its way to the snapshot.
Quiet == pf = "idle" /\ ~sig /\ ~hupCh /\ reload = "idle"

\* Coalescing signals loses no update: once a proxy that was sent SIGHUP past
\* Notify has nothing left to do, its snapshot is the file, unless a Reload
\* failed.  This covers a signal that arrives during a Reload of an older or
\* half-written file and a signal dropped because hupCh was full.
QuietIsCurrent ==
  Quiet /\ due > 0 /\ ~failed => hostsVer = fileHosts /\ sufVer = fileSuf

\* ... and the proxy gets there.
HupTakesEffect ==
  \A v \in 1 .. MaxEdits :
    due = v ~> (hostsVer >= v /\ sufVer >= v) \/ due = 0 \/ failed

\* "Sends SIGHUP to any docker-proxy already running so the new allowlist
\* takes effect without restarting the proxy" (write_proxy_allowlists).
RunningProxyTakesEffect ==
  \A v \in 1 .. MaxEdits :
    told = v ~> (hostsVer >= v /\ sufVer >= v) \/ told = 0 \/ failed

=============================================================================

---------------------------- MODULE EgressProofs ----------------------------
(***************************************************************************)
(* What guards the way out of a container: the host allowlist of a proxy,  *)
(* for any number of edits and launches, and the rules iso pf loads into   *)
(* the Docker VM, for rule sets of any length and any number of runs,      *)
(* interruptions and restarts.                                             *)
(***************************************************************************)
EXTENDS AllowlistReload, EgressRules, TLAPS

-----------------------------------------------------------------------------
(* The host allowlist                                                        *)


(* The parts of TypeOK: numbers on one side, states and flags on the other. *)
NumbersOK ==
  /\ edits \in 0 .. MaxEdits
  /\ fileSuf \in 0 .. MaxEdits /\ fileHosts \in 0 .. MaxEdits
  /\ starts \in 0 .. MaxStarts /\ pidFile \in 0 .. MaxStarts
  /\ rdSuf \in 0 .. MaxEdits /\ rdHosts \in 0 .. MaxEdits
  /\ hostsGen \in Gens /\ sufGen \in Gens
  /\ hostsVer \in 0 .. MaxEdits /\ sufVer \in 0 .. MaxEdits
  /\ seenGen \in Gens
  /\ told \in 0 .. MaxEdits /\ due \in 0 .. MaxEdits

StatesOK ==
  /\ pf \in {"idle", "truncated", "half", "written"}
  /\ ensure \in {"idle", "with", "without", "launched"}
  /\ proc \in {"down", "plain"} \cup ConnectOn
  /\ reload \in {"idle", "open", "half", "parsed", "swap"}
  /\ mu \in {"free", "read", "write"}
  /\ lookup \in {"idle", "hosts"}

FlagsOK ==
  /\ exists \in BOOLEAN /\ failed \in BOOLEAN
  /\ sig \in BOOLEAN /\ hupCh \in BOOLEAN

\* The three parts make up TypeOK.
LEMMA TypeParts == TypeOK <=> NumbersOK /\ StatesOK /\ FlagsOK
  BY Zenon DEF TypeOK, NumbersOK, StatesOK, FlagsOK

\* Reloads are paid for by edits and launches: a cause is a running iso pf, a
\* signal on its way, or a Reload that has not swapped yet.
Editing  == IF pf = "idle" THEN 0 ELSE 1
Sent     == IF sig THEN 1 ELSE 0
Queued   == IF hupCh THEN 1 ELSE 0
Scanning == IF reload \in {"open", "half", "parsed"} THEN 1 ELSE 0

ReloadsCounted ==
  hostsGen + Editing + Sent + Queued + Scanning <= edits + starts

\* A process that is down has no Reload and no signal, and iso launches only
\* when no proxy runs.
DownIsEmpty ==
  /\ proc = "down" => reload = "idle" /\ ~sig /\ ~hupCh
  /\ ensure \in {"with", "without"} => proc = "down" /\ starts < MaxStarts

\* The inductive invariant of type correctness.
TypeInv == NumbersOK /\ StatesOK /\ FlagsOK /\ DownIsEmpty /\ ReloadsCounted

\* The invariant holds initially ...
LEMMA TypeInit == Init => TypeInv
<1> SUFFICES ASSUME Init PROVE TypeInv
  OBVIOUS
<1>1. NumbersOK
  BY BoundsAssumption DEF Init, NumbersOK, Gens
<1>2. StatesOK
  BY DEF Init, StatesOK, ConnectOn
<1>5. FlagsOK
  BY Zenon DEF Init, FlagsOK
<1>3. DownIsEmpty
  BY BoundsAssumption DEF Init, DownIsEmpty
<1>4. ReloadsCounted
  BY DEF Init, ReloadsCounted, Editing, Sent, Queued, Scanning
<1> QED
  BY <1>1, <1>2, <1>3, <1>4, <1>5 DEF TypeInv

\* ... and every step keeps it.
LEMMA TypeNext == TypeInv /\ [Next]_vars => TypeInv'
<1> SUFFICES ASSUME TypeInv, [Next]_vars PROVE TypeInv'
  OBVIOUS
<1> USE BoundsAssumption DEF TypeInv, Gens, vars, fileVars, ensureVars, procVars,
      snapshot, reloadVars, lookupVars, history, rest
<1>1. CASE Truncate
  <2>1. NumbersOK'
    BY <1>1 DEF NumbersOK, Truncate
  <2>2. StatesOK'
    BY <1>1 DEF StatesOK, ConnectOn, Truncate
  <2>3. FlagsOK'
    BY <1>1, Zenon DEF FlagsOK, Truncate
  <2>4. DownIsEmpty'
    BY <1>1 DEF DownIsEmpty, StatesOK, NumbersOK, ConnectOn, Truncate
  <2>5. ReloadsCounted'
    BY <1>1 DEF ReloadsCounted, Editing, Sent, Queued, Scanning,
             NumbersOK, StatesOK, DownIsEmpty, Truncate
  <2> QED
    BY <2>1, <2>2, <2>3, <2>4, <2>5
<1>2. CASE WriteWildcards
  <2>1. NumbersOK'
    BY <1>2 DEF NumbersOK, WriteWildcards
  <2>2. StatesOK'
    BY <1>2 DEF StatesOK, ConnectOn, WriteWildcards
  <2>3. FlagsOK'
    BY <1>2, Zenon DEF FlagsOK, WriteWildcards
  <2>4. DownIsEmpty'
    BY <1>2 DEF DownIsEmpty, StatesOK, NumbersOK, ConnectOn, WriteWildcards
  <2>5. ReloadsCounted'
    BY <1>2 DEF ReloadsCounted, Editing, Sent, Queued, Scanning,
             NumbersOK, StatesOK, DownIsEmpty, WriteWildcards
  <2> QED
    BY <2>1, <2>2, <2>3, <2>4, <2>5
<1>3. CASE WriteExact
  <2>1. NumbersOK'
    BY <1>3 DEF NumbersOK, WriteExact
  <2>2. StatesOK'
    BY <1>3 DEF StatesOK, ConnectOn, WriteExact
  <2>3. FlagsOK'
    BY <1>3, Zenon DEF FlagsOK, WriteExact
  <2>4. DownIsEmpty'
    BY <1>3 DEF DownIsEmpty, StatesOK, NumbersOK, ConnectOn, WriteExact
  <2>5. ReloadsCounted'
    BY <1>3 DEF ReloadsCounted, Editing, Sent, Queued, Scanning,
             NumbersOK, StatesOK, DownIsEmpty, WriteExact
  <2> QED
    BY <2>1, <2>2, <2>3, <2>4, <2>5
<1>4. CASE SignalProxies
  <2>1. NumbersOK'
    BY <1>4 DEF NumbersOK, SignalProxies, PidRuns, Notified
  <2>2. StatesOK'
    BY <1>4 DEF StatesOK, ConnectOn, SignalProxies, PidRuns, Notified
  <2>3. FlagsOK'
    BY <1>4, Zenon DEF FlagsOK, SignalProxies, PidRuns, Notified
  <2>4. DownIsEmpty'
    BY <1>4 DEF DownIsEmpty, StatesOK, NumbersOK, ConnectOn, SignalProxies, PidRuns,
       Notified
  <2>5. ReloadsCounted'
    BY <1>4 DEF ReloadsCounted, Editing, Sent, Queued, Scanning,
             NumbersOK, StatesOK, DownIsEmpty, SignalProxies, PidRuns, Notified
  <2> QED
    BY <2>1, <2>2, <2>3, <2>4, <2>5
<1>5. CASE EnsureStarts
  <2>1. NumbersOK'
    BY <1>5 DEF NumbersOK, EnsureStarts
  <2>2. StatesOK'
    BY <1>5 DEF StatesOK, ConnectOn, EnsureStarts
  <2>3. FlagsOK'
    BY <1>5, Zenon DEF FlagsOK, EnsureStarts
  <2>4. DownIsEmpty'
    BY <1>5 DEF DownIsEmpty, StatesOK, NumbersOK, ConnectOn, EnsureStarts
  <2>5. ReloadsCounted'
    BY <1>5 DEF ReloadsCounted, Editing, Sent, Queued, Scanning,
             NumbersOK, StatesOK, DownIsEmpty, EnsureStarts
  <2> QED
    BY <2>1, <2>2, <2>3, <2>4, <2>5
<1>6. CASE Launch
  <2>1. NumbersOK'
    BY <1>6 DEF NumbersOK, DownIsEmpty, Launch
  <2>2. StatesOK'
    BY <1>6 DEF StatesOK, ConnectOn, Launch
  <2>3. FlagsOK'
    BY <1>6, Zenon DEF FlagsOK, Launch
  <2>4. DownIsEmpty'
    BY <1>6 DEF DownIsEmpty, StatesOK, NumbersOK, ConnectOn, Launch
  <2>5. ReloadsCounted'
    BY <1>6 DEF ReloadsCounted, Editing, Sent, Queued, Scanning,
             NumbersOK, StatesOK, DownIsEmpty, Launch
  <2> QED
    BY <2>1, <2>2, <2>3, <2>4, <2>5
<1>7. CASE WritePid
  <2>1. NumbersOK'
    BY <1>7 DEF NumbersOK, WritePid
  <2>2. StatesOK'
    BY <1>7 DEF StatesOK, ConnectOn, WritePid
  <2>3. FlagsOK'
    BY <1>7, Zenon DEF FlagsOK, WritePid
  <2>4. DownIsEmpty'
    BY <1>7 DEF DownIsEmpty, StatesOK, NumbersOK, ConnectOn, WritePid
  <2>5. ReloadsCounted'
    BY <1>7 DEF ReloadsCounted, Editing, Sent, Queued, Scanning,
             NumbersOK, StatesOK, DownIsEmpty, WritePid
  <2> QED
    BY <2>1, <2>2, <2>3, <2>4, <2>5
<1>8. CASE Crash
  <2>1. NumbersOK'
    BY <1>8 DEF NumbersOK, Crash, Exit
  <2>2. StatesOK'
    BY <1>8 DEF StatesOK, ConnectOn, Crash, Exit
  <2>3. FlagsOK'
    BY <1>8, Zenon DEF FlagsOK, Crash, Exit
  <2>4. DownIsEmpty'
    BY <1>8 DEF DownIsEmpty, StatesOK, NumbersOK, ConnectOn, Crash, Exit
  <2>5. ReloadsCounted'
    BY <1>8 DEF ReloadsCounted, Editing, Sent, Queued, Scanning,
             NumbersOK, StatesOK, DownIsEmpty, Crash, Exit
  <2> QED
    BY <2>1, <2>2, <2>3, <2>4, <2>5
<1>9. CASE ParseWildcards
  <2>1. NumbersOK'
    BY <1>9 DEF NumbersOK, ParseWildcards
  <2>2. StatesOK'
    BY <1>9 DEF StatesOK, ConnectOn, ParseWildcards
  <2>3. FlagsOK'
    BY <1>9, Zenon DEF FlagsOK, ParseWildcards
  <2>4. DownIsEmpty'
    BY <1>9 DEF DownIsEmpty, StatesOK, NumbersOK, ConnectOn, ParseWildcards
  <2>5. ReloadsCounted'
    BY <1>9 DEF ReloadsCounted, Editing, Sent, Queued, Scanning,
             NumbersOK, StatesOK, DownIsEmpty, ParseWildcards
  <2> QED
    BY <2>1, <2>2, <2>3, <2>4, <2>5
<1>10. CASE ParseExact
  <2>1. NumbersOK'
    BY <1>10 DEF NumbersOK, ParseExact
  <2>2. StatesOK'
    BY <1>10 DEF StatesOK, ConnectOn, ParseExact
  <2>3. FlagsOK'
    BY <1>10, Zenon DEF FlagsOK, ParseExact
  <2>4. DownIsEmpty'
    BY <1>10 DEF DownIsEmpty, StatesOK, NumbersOK, ConnectOn, ParseExact
  <2>5. ReloadsCounted'
    BY <1>10 DEF ReloadsCounted, Editing, Sent, Queued, Scanning,
             NumbersOK, StatesOK, DownIsEmpty, ParseExact
  <2> QED
    BY <2>1, <2>2, <2>3, <2>4, <2>5
<1>11. CASE ReloadFails
  <2>1. NumbersOK'
    BY <1>11 DEF NumbersOK, ReloadFails, Exit
  <2>2. StatesOK'
    BY <1>11 DEF StatesOK, ConnectOn, ReloadFails, Exit
  <2>3. FlagsOK'
    BY <1>11, Zenon DEF FlagsOK, ReloadFails, Exit
  <2>4. DownIsEmpty'
    BY <1>11 DEF DownIsEmpty, StatesOK, NumbersOK, ConnectOn, ReloadFails, Exit
  <2>5. ReloadsCounted'
    BY <1>11 DEF ReloadsCounted, Editing, Sent, Queued, Scanning,
             NumbersOK, StatesOK, DownIsEmpty, ReloadFails, Exit
  <2> QED
    BY <2>1, <2>2, <2>3, <2>4, <2>5
<1>12. CASE SwapHosts
  <2>1. NumbersOK'
    BY <1>12 DEF NumbersOK, ReloadsCounted, Editing, Sent, Queued, Scanning, SwapHosts
  <2>2. StatesOK'
    BY <1>12 DEF StatesOK, ConnectOn, SwapHosts
  <2>3. FlagsOK'
    BY <1>12, Zenon DEF FlagsOK, SwapHosts
  <2>4. DownIsEmpty'
    BY <1>12 DEF DownIsEmpty, StatesOK, NumbersOK, ConnectOn, SwapHosts
  <2>5. ReloadsCounted'
    BY <1>12 DEF ReloadsCounted, Editing, Sent, Queued, Scanning,
             NumbersOK, StatesOK, DownIsEmpty, SwapHosts
  <2> QED
    BY <2>1, <2>2, <2>3, <2>4, <2>5
<1>13. CASE SwapSuffixes
  <2>1. NumbersOK'
    BY <1>13 DEF NumbersOK, SwapSuffixes
  <2>2. StatesOK'
    BY <1>13 DEF StatesOK, ConnectOn, SwapSuffixes
  <2>3. FlagsOK'
    BY <1>13, Zenon DEF FlagsOK, SwapSuffixes
  <2>4. DownIsEmpty'
    BY <1>13 DEF DownIsEmpty, StatesOK, NumbersOK, ConnectOn, SwapSuffixes
  <2>5. ReloadsCounted'
    BY <1>13 DEF ReloadsCounted, Editing, Sent, Queued, Scanning,
             NumbersOK, StatesOK, DownIsEmpty, SwapSuffixes
  <2> QED
    BY <2>1, <2>2, <2>3, <2>4, <2>5
<1>14. CASE Listen
  <2>1. NumbersOK'
    BY <1>14 DEF NumbersOK, Listen, Exit
  <2>2. StatesOK'
    BY <1>14 DEF StatesOK, ConnectOn, Listen, Exit
  <2>3. FlagsOK'
    BY <1>14, Zenon DEF FlagsOK, Listen, Exit
  <2>4. DownIsEmpty'
    BY <1>14 DEF DownIsEmpty, StatesOK, NumbersOK, ConnectOn, Listen, Exit
  <2>5. ReloadsCounted'
    BY <1>14 DEF ReloadsCounted, Editing, Sent, Queued, Scanning,
             NumbersOK, StatesOK, DownIsEmpty, Listen, Exit
  <2> QED
    BY <2>1, <2>2, <2>3, <2>4, <2>5
<1>15. CASE Notify
  <2>1. NumbersOK'
    BY <1>15 DEF NumbersOK, Notify
  <2>2. StatesOK'
    BY <1>15 DEF StatesOK, ConnectOn, Notify
  <2>3. FlagsOK'
    BY <1>15, Zenon DEF FlagsOK, Notify
  <2>4. DownIsEmpty'
    BY <1>15 DEF DownIsEmpty, StatesOK, NumbersOK, ConnectOn, Notify
  <2>5. ReloadsCounted'
    BY <1>15 DEF ReloadsCounted, Editing, Sent, Queued, Scanning,
             NumbersOK, StatesOK, DownIsEmpty, Notify
  <2> QED
    BY <2>1, <2>2, <2>3, <2>4, <2>5
<1>16. CASE DeliverHup
  <2>1. NumbersOK'
    BY <1>16 DEF NumbersOK, DeliverHup
  <2>2. StatesOK'
    BY <1>16 DEF StatesOK, ConnectOn, DeliverHup
  <2>3. FlagsOK'
    BY <1>16, Zenon DEF FlagsOK, DeliverHup
  <2>4. DownIsEmpty'
    BY <1>16 DEF DownIsEmpty, StatesOK, NumbersOK, ConnectOn, DeliverHup
  <2>5. ReloadsCounted'
    BY <1>16 DEF ReloadsCounted, Editing, Sent, Queued, Scanning,
             NumbersOK, StatesOK, DownIsEmpty, DeliverHup
  <2> QED
    BY <2>1, <2>2, <2>3, <2>4, <2>5
<1>17. CASE TakeHup
  <2>1. NumbersOK'
    BY <1>17 DEF NumbersOK, TakeHup
  <2>2. StatesOK'
    BY <1>17 DEF StatesOK, ConnectOn, TakeHup
  <2>3. FlagsOK'
    BY <1>17, Zenon DEF FlagsOK, TakeHup
  <2>4. DownIsEmpty'
    BY <1>17 DEF DownIsEmpty, StatesOK, NumbersOK, ConnectOn, TakeHup
  <2>5. ReloadsCounted'
    BY <1>17 DEF ReloadsCounted, Editing, Sent, Queued, Scanning,
             NumbersOK, StatesOK, DownIsEmpty, TakeHup
  <2> QED
    BY <2>1, <2>2, <2>3, <2>4, <2>5
<1>18. CASE LookUpHosts
  <2>1. NumbersOK'
    BY <1>18 DEF NumbersOK, LookUpHosts, CanLookUp
  <2>2. StatesOK'
    BY <1>18 DEF StatesOK, ConnectOn, LookUpHosts, CanLookUp
  <2>3. FlagsOK'
    BY <1>18, Zenon DEF FlagsOK, LookUpHosts, CanLookUp
  <2>4. DownIsEmpty'
    BY <1>18 DEF DownIsEmpty, StatesOK, NumbersOK, ConnectOn, LookUpHosts, CanLookUp
  <2>5. ReloadsCounted'
    BY <1>18 DEF ReloadsCounted, Editing, Sent, Queued, Scanning,
             NumbersOK, StatesOK, DownIsEmpty, LookUpHosts, CanLookUp
  <2> QED
    BY <2>1, <2>2, <2>3, <2>4, <2>5
<1>19. CASE LookUpSuffixes
  <2>1. NumbersOK'
    BY <1>19 DEF NumbersOK, LookUpSuffixes
  <2>2. StatesOK'
    BY <1>19 DEF StatesOK, ConnectOn, LookUpSuffixes
  <2>3. FlagsOK'
    BY <1>19, Zenon DEF FlagsOK, LookUpSuffixes
  <2>4. DownIsEmpty'
    BY <1>19 DEF DownIsEmpty, StatesOK, NumbersOK, ConnectOn, LookUpSuffixes
  <2>5. ReloadsCounted'
    BY <1>19 DEF ReloadsCounted, Editing, Sent, Queued, Scanning,
             NumbersOK, StatesOK, DownIsEmpty, LookUpSuffixes
  <2> QED
    BY <2>1, <2>2, <2>3, <2>4, <2>5
<1>20. CASE UNCHANGED vars
  <2>1. NumbersOK'
    BY <1>20 DEF NumbersOK
  <2>2. StatesOK'
    BY <1>20 DEF StatesOK, ConnectOn
  <2>3. FlagsOK'
    BY <1>20, Zenon DEF FlagsOK
  <2>4. DownIsEmpty'
    BY <1>20 DEF DownIsEmpty, StatesOK, NumbersOK, ConnectOn
  <2>5. ReloadsCounted'
    BY <1>20 DEF ReloadsCounted, Editing, Sent, Queued, Scanning,
             NumbersOK, StatesOK, DownIsEmpty
  <2> QED
    BY <2>1, <2>2, <2>3, <2>4, <2>5
<1> QED
  BY <1>1, <1>2, <1>3, <1>4, <1>5, <1>6, <1>7, <1>8, <1>9, <1>10, <1>11,
     <1>12, <1>13, <1>14, <1>15, <1>16, <1>17, <1>18, <1>19, <1>20
  DEF Next, Pf, Main, Scan, Swap

\* The proxy, its clients and iso keep their variables in TypeOK, for any number
\* of edits and launches: in particular Reload runs at most once per edit and
\* launch.
THEOREM TypeCorrect == Spec => []TypeOK
<1>1. TypeInv => TypeOK
  BY TypeParts DEF TypeInv
<1> QED
  BY TypeInit, TypeNext, <1>1, PTL DEF Spec

\* The invariant itself, for the theorems below.
THEOREM TypeInvariant == Spec => []TypeInv
  BY TypeInit, TypeNext, PTL DEF Spec

-----------------------------------------------------------------------------
(* One reload per lookup                                                     *)

\* Who holds the mutex, and that only a writer between its two assignments
\* leaves hosts and suffixes of different Reloads.
LockInv ==
  /\ mu = "read" <=> lookup = "hosts"
  /\ mu = "write" <=> reload = "swap"
  /\ mu # "write" => sufGen = hostsGen
  /\ lookup = "hosts" => seenGen = hostsGen

\* Every step keeps the locking discipline.
LEMMA LockNext == TypeInv /\ LockInv /\ [Next]_vars => LockInv'
<1> SUFFICES ASSUME TypeInv, LockInv, [Next]_vars PROVE LockInv'
  OBVIOUS
<1> USE DEF TypeInv, StatesOK, LockInv, vars, fileVars, ensureVars, procVars,
      snapshot, reloadVars, lookupVars, history, rest
<1>1. CASE Truncate
  BY <1>1 DEF Truncate
<1>2. CASE WriteWildcards
  BY <1>2 DEF WriteWildcards
<1>3. CASE WriteExact
  BY <1>3 DEF WriteExact
<1>4. CASE SignalProxies
  BY <1>4 DEF SignalProxies, PidRuns, Notified
<1>5. CASE EnsureStarts
  BY <1>5 DEF EnsureStarts
<1>6. CASE Launch
  BY <1>6 DEF Launch, DownIsEmpty
<1>7. CASE WritePid
  BY <1>7 DEF WritePid
<1>8. CASE Crash
  BY <1>8 DEF Crash, Exit
<1>9. CASE ParseWildcards
  BY <1>9 DEF ParseWildcards
<1>10. CASE ParseExact
  BY <1>10 DEF ParseExact
<1>11. CASE ReloadFails
  BY <1>11 DEF ReloadFails, Exit
<1>12. CASE SwapHosts
  BY <1>12 DEF SwapHosts
<1>13. CASE SwapSuffixes
  BY <1>13 DEF SwapSuffixes
<1>14. CASE Listen
  BY <1>14 DEF Listen, Exit
<1>15. CASE Notify
  BY <1>15 DEF Notify
<1>16. CASE DeliverHup
  BY <1>16 DEF DeliverHup
<1>17. CASE TakeHup
  BY <1>17 DEF TakeHup
<1>18. CASE LookUpHosts
  BY <1>18 DEF LookUpHosts, CanLookUp
<1>19. CASE LookUpSuffixes
  BY <1>19 DEF LookUpSuffixes
<1>20. CASE UNCHANGED vars
  BY <1>20
<1> QED
  BY <1>1, <1>2, <1>3, <1>4, <1>5, <1>6, <1>7, <1>8, <1>9, <1>10, <1>11,
     <1>12, <1>13, <1>14, <1>15, <1>16, <1>17, <1>18, <1>19, <1>20
  DEF Next, Pf, Main, Scan, Swap

\* A lookup never combines the hosts of one Reload with the suffixes of another:
\* Contains holds the read lock across both reads, Reload the write lock across
\* both assignments.
THEOREM LookupSeesOneReloadHolds == Spec => []LookupSeesOneReload
<1>1. Init => LockInv
  BY DEF Init, LockInv
<1>2. LockInv => LookupSeesOneReload
  BY DEF LockInv, LookupSeesOneReload
<1> QED
  BY <1>1, <1>2, LockNext, TypeInvariant, PTL DEF Spec

-----------------------------------------------------------------------------
(* No lost update                                                            *)

\* A proxy that was sent SIGHUP past Notify is the one in the pid file, so iso
\* keeps signalling it.
SignalledServes == due > 0 => proc = "serving" /\ pidFile = starts

\* After the last edit, with no signal on its way, whatever Reload has read and
\* swapped so far is the file.
ReloadIsCurrent ==
  due > 0 /\ ~failed /\ pf = "idle" /\ ~sig /\ ~hupCh =>
    /\ reload = "idle" => hostsVer = fileHosts /\ sufVer = fileSuf
    /\ reload \in {"half", "parsed", "swap"} => rdSuf = fileSuf
    /\ reload \in {"parsed", "swap"} => rdHosts = fileHosts
    /\ reload = "swap" => hostsVer = fileHosts

\* Every step keeps what Reload has read current.
LEMMA CurrentNext ==
  TypeInv /\ SignalledServes /\ ReloadIsCurrent /\ [Next]_vars
    => SignalledServes' /\ ReloadIsCurrent'
<1> SUFFICES ASSUME TypeInv, SignalledServes, ReloadIsCurrent, [Next]_vars
             PROVE  SignalledServes' /\ ReloadIsCurrent'
  OBVIOUS
<1> USE DEF TypeInv, StatesOK, SignalledServes, ReloadIsCurrent, vars, fileVars,
      ensureVars, procVars, snapshot, reloadVars, lookupVars, history, rest
<1>1. CASE Truncate
  BY <1>1 DEF Truncate
<1>2. CASE WriteWildcards
  BY <1>2 DEF WriteWildcards
<1>3. CASE WriteExact
  BY <1>3 DEF WriteExact
<1>4. CASE SignalProxies
  BY <1>4 DEF SignalProxies, PidRuns, Notified
<1>5. CASE EnsureStarts
  BY <1>5 DEF EnsureStarts
<1>6. CASE Launch
  BY <1>6 DEF Launch, DownIsEmpty
<1>7. CASE WritePid
  BY <1>7 DEF WritePid
<1>8. CASE Crash
  BY <1>8 DEF Crash, Exit
<1>9. CASE ParseWildcards
  BY <1>9 DEF ParseWildcards
<1>10. CASE ParseExact
  BY <1>10 DEF ParseExact
<1>11. CASE ReloadFails
  BY <1>11 DEF ReloadFails, Exit
<1>12. CASE SwapHosts
  BY <1>12 DEF SwapHosts
<1>13. CASE SwapSuffixes
  BY <1>13 DEF SwapSuffixes
<1>14. CASE Listen
  BY <1>14 DEF Listen, Exit
<1>15. CASE Notify
  BY <1>15 DEF Notify
<1>16. CASE DeliverHup
  BY <1>16 DEF DeliverHup
<1>17. CASE TakeHup
  BY <1>17 DEF TakeHup
<1>18. CASE LookUpHosts
  BY <1>18 DEF LookUpHosts, CanLookUp
<1>19. CASE LookUpSuffixes
  BY <1>19 DEF LookUpSuffixes
<1>20. CASE UNCHANGED vars
  BY <1>20
<1> QED
  BY <1>1, <1>2, <1>3, <1>4, <1>5, <1>6, <1>7, <1>8, <1>9, <1>10, <1>11,
     <1>12, <1>13, <1>14, <1>15, <1>16, <1>17, <1>18, <1>19, <1>20
  DEF Next, Pf, Main, Scan, Swap

\* Coalescing loses no update: a proxy that was sent SIGHUP past Notify and has
\* nothing left to do serves the file as it is, unless a Reload failed, however
\* many edits and signals fell into its Reloads.
THEOREM QuietIsCurrentHolds == Spec => []QuietIsCurrent
<1>1. Init => SignalledServes /\ ReloadIsCurrent
  BY DEF Init, SignalledServes, ReloadIsCurrent
<1>2. SignalledServes /\ ReloadIsCurrent => QuietIsCurrent
  BY DEF ReloadIsCurrent, QuietIsCurrent, Quiet
<1> QED
  BY <1>1, <1>2, CurrentNext, TypeInvariant, PTL DEF Spec


-----------------------------------------------------------------------------
(* The inductive invariant                                                  *)

\* The first k rules of the set that run g generates.
Part(g, k) == [i \in 1 .. k |-> <<g, i>>]

\* A chain that does not exist has no rules and no jump leads to it.
ChainsTyped == \A n \in ChainNames : ~chain[n].exists => chain[n] = NoChain

\* No jump ever leads to the staging chain.
StagingUnused == ~chain["NEW"].jumped

\* What a run that has not ended has counted.
RunCounted ==
  /\ pc # "idle" => run \in 1 .. MaxRuns
  /\ pc \in {"create", "flushNew"} => built = 0
  /\ pc = "append" => built < RuleCount

\* While no command has failed out of turn, the chains a jump may lead to are
\* whole ...
InUseWhole == Whole(chain["USER"].rules) /\ Whole(chain["OLD"].rules)

\* ... and a run knows what it has built, from its first append to its report.
StagingFollows ==
  /\ pc \in {"flushNew", "append", "swapOld", "swapNew"} => chain["NEW"].exists
  /\ pc = "append" => chain["NEW"].rules = Part(run, built)
  /\ pc \in {"swapOld", "swapNew"} => chain["NEW"].rules = RuleSet(run)
  /\ pc = "flushOld" => chain["USER"].rules = RuleSet(run)
  /\ pc = "delete" \/ (Loaded /\ logAt = 0) =>
       \E n \in {"USER", "NEW"} : chain[n].rules = RuleSet(run)

EgressInv ==
  /\ EgressTypeOK /\ RunCounted /\ ChainsTyped /\ StagingUnused
  /\ faults = 0 => InUseWhole /\ StagingFollows

-----------------------------------------------------------------------------
(* Rule sets                                                                *)

\* Appending the next rule to a part gives the next part; the last part is the
\* whole set.
LEMMA PartGrows ==
  ASSUME NEW g \in 1 .. MaxRuns, NEW k \in Nat
  PROVE  /\ Part(g, 0) = <<>>
         /\ Append(Part(g, k), <<g, k + 1>>) = Part(g, k + 1)
         /\ Part(g, RuleCount) = RuleSet(g)
  BY DEF Part, RuleSet

-----------------------------------------------------------------------------
(* Type correctness                                                         *)

\* What a command leaves of a chain is a chain (iptables).
LEMMA CommandsTyped ==
  ASSUME EgressTypeOK
  PROVE  /\ \A n \in ChainNames : Create(n) => chain' \in [ChainNames -> Chain]
         /\ \A n \in ChainNames : Flush(n) => chain' \in [ChainNames -> Chain]
         /\ \A n \in ChainNames, r \in Rules :
              AppendRule(n, r) => chain' \in [ChainNames -> Chain]
         /\ \A n, to \in ChainNames : Rename(n, to) => chain' \in [ChainNames -> Chain]
         /\ \A n \in ChainNames : Delete(n) => chain' \in [ChainNames -> Chain]
         /\ FreshChains \in [ChainNames -> Chain]
<1>0. /\ chain \in [ChainNames -> Chain]
      /\ NoChain \in Chain /\ EmptyChain(TRUE) \in Chain /\ EmptyChain(FALSE) \in Chain
  BY DEF EgressTypeOK, NoChain, EmptyChain, Chain
<1>1. \A n \in ChainNames : Create(n) => chain' \in [ChainNames -> Chain]
  BY <1>0 DEF Create
<1>2. ASSUME NEW n \in ChainNames, Flush(n)
      PROVE  chain' \in [ChainNames -> Chain]
  <2>1. chain[n] \in Chain /\ <<>> \in Seq(Rules)
    BY <1>0
  <2>2. [chain[n] EXCEPT !.rules = <<>>] \in Chain
    BY <2>1 DEF Chain
  <2>3. QED
    BY <1>0, <2>2, <1>2 DEF Flush
<1>4. ASSUME NEW n \in ChainNames, NEW r \in Rules, AppendRule(n, r)
      PROVE  chain' \in [ChainNames -> Chain]
  <2>1. Append(chain[n].rules, r) \in Seq(Rules)
    BY <1>0 DEF Chain
  <2>2. [chain[n] EXCEPT !.rules = Append(chain[n].rules, r)] \in Chain
    BY <1>0, <2>1 DEF Chain
  <2>3. QED
    BY <1>0, <2>2, <1>4 DEF AppendRule
<1>5. \A n, to \in ChainNames : Rename(n, to) => chain' \in [ChainNames -> Chain]
  BY <1>0 DEF Rename
<1>6. \A n \in ChainNames : Delete(n) => chain' \in [ChainNames -> Chain]
  BY <1>0 DEF Delete
<1>7. FreshChains \in [ChainNames -> Chain]
  BY <1>0 DEF FreshChains
<1>8. QED
  BY <1>1, <1>2, <1>4, <1>5, <1>6, <1>7

\* The rule a run appends next is a rule.
LEMMA RuleTyped ==
  ASSUME EgressTypeOK, pc = "append", run \in 1 .. MaxRuns, built < RuleCount
  PROVE  <<run, built + 1>> \in Rules
  BY EgressAssumption DEF EgressTypeOK, Rules

\* Every variable keeps its type, and a run under way has counted itself and the
\* rules it appended (generate_docker_iptables).
THEOREM EgressTyped == EgressSpec => [](EgressTypeOK /\ RunCounted)
<1> USE EgressAssumption
<1>1. EgressInit => EgressTypeOK /\ RunCounted
  <2> SUFFICES ASSUME EgressInit PROVE EgressTypeOK /\ RunCounted
    OBVIOUS
  <2>1. chain \in [ChainNames -> Chain]
    BY DEF EgressInit, FreshChains, Chain, NoChain, EmptyChain
  <2>2. QED
    BY <2>1 DEF EgressInit, EgressTypeOK, RunCounted
<1>2. EgressTypeOK /\ RunCounted /\ [EgressNext]_egressVars => EgressTypeOK' /\ RunCounted'
  <2> SUFFICES ASSUME EgressTypeOK, RunCounted, [EgressNext]_egressVars PROVE EgressTypeOK' /\ RunCounted'
    OBVIOUS
  <2>0. "NEW" \in ChainNames /\ "USER" \in ChainNames /\ "OLD" \in ChainNames
    BY DEF ChainNames
  <2>1. CASE StartRun
    BY <2>1 DEF StartRun, EgressTypeOK, RunCounted
  <2>2. CASE CreateStaging
    <3>1. chain' \in [ChainNames -> Chain]
      BY <2>0, <2>2, CommandsTyped DEF CreateStaging, Fails, EgressTypeOK
    <3>2. QED
      BY <2>2, <3>1 DEF CreateStaging, Goto, Fails, EgressTypeOK, RunCounted
  <2>3. CASE FlushStaging
    <3>1. chain' \in [ChainNames -> Chain]
      BY <2>0, <2>3, CommandsTyped DEF FlushStaging, Fails, EgressTypeOK
    <3>2. QED
      BY <2>3, <3>1 DEF FlushStaging, GiveUp, Finish, Goto, Fails, EgressTypeOK, RunCounted
  <2>4. CASE AppendNext
    <3>1. chain' \in [ChainNames -> Chain]
      <4>1. <<run, built + 1>> \in Rules
        BY <2>4 DEF AppendNext, AppendUpTo, EgressTypeOK, RunCounted, Rules
      <4>2. QED
        BY <2>0, <2>4, <4>1, CommandsTyped
        DEF AppendNext, AppendUpTo, StagingName, Fails, EgressTypeOK
    <3>2. QED
      BY <2>4, <3>1
      DEF AppendNext, AppendUpTo, GiveUp, Finish, Goto, Fails, EgressTypeOK, RunCounted
  <2>5. CASE SwapOld
    <3>1. chain' \in [ChainNames -> Chain]
      BY <2>0, <2>5, CommandsTyped DEF SwapOld, Fails, EgressTypeOK
    <3>2. QED
      BY <2>5, <3>1 DEF SwapOld, Goto, Fails, EgressTypeOK, RunCounted
  <2>6. CASE SwapNew
    <3>1. chain' \in [ChainNames -> Chain]
      BY <2>0, <2>6, CommandsTyped DEF SwapNew, Fails, EgressTypeOK
    <3>2. QED
      BY <2>6, <3>1 DEF SwapNew, Goto, Fails, EgressTypeOK, RunCounted
  <2>7. CASE FlushOld
    <3>1. chain' \in [ChainNames -> Chain]
      BY <2>0, <2>7, CommandsTyped DEF FlushOld, Fails, EgressTypeOK
    <3>2. QED
      BY <2>7, <3>1 DEF FlushOld, Goto, Fails, EgressTypeOK, RunCounted
  <2>8. CASE DeleteOld
    <3>1. chain' \in [ChainNames -> Chain]
      BY <2>0, <2>8, CommandsTyped DEF DeleteOld, Fails, EgressTypeOK
    <3>2. QED
      BY <2>8, <3>1 DEF DeleteOld, Finish, Fails, EgressTypeOK, RunCounted
  <2>9. CASE Interrupt
    BY <2>9 DEF Interrupt, Finish, EgressTypeOK, RunCounted
  <2>10. CASE RestartVM
    <3>1. chain' \in [ChainNames -> Chain]
      BY <2>10, CommandsTyped DEF RestartVM
    <3>2. QED
      BY <2>10, <3>1 DEF RestartVM, EgressTypeOK, RunCounted
  <2>11. CASE RestartDaemon
    <3>1. chain' \in [ChainNames -> Chain]
      BY <2>0, <2>11 DEF RestartDaemon, EgressTypeOK, Chain
    <3>2. QED
      BY <2>11, <3>1 DEF RestartDaemon, script, EgressTypeOK, RunCounted
  <2>12. CASE UNCHANGED egressVars
    BY <2>12 DEF egressVars, script, EgressTypeOK, RunCounted
  <2>13. QED
    BY <2>1, <2>2, <2>3, <2>4, <2>5, <2>6, <2>7, <2>8, <2>9, <2>10, <2>11, <2>12
    DEF EgressNext, Command
<1>3. QED
  BY <1>1, <1>2, PTL DEF EgressSpec

-----------------------------------------------------------------------------
(* The chains                                                               *)

\* Missing chains have nothing, and no jump leads to the staging chain, whether
\* commands fail or not (the script's use of -N, -E and -X).
LEMMA ChainsStep ==
  ASSUME EgressTypeOK, ChainsTyped, StagingUnused, [EgressNext]_egressVars
  PROVE  ChainsTyped' /\ StagingUnused'
<1>0. /\ "NEW" \in ChainNames /\ "USER" \in ChainNames /\ "OLD" \in ChainNames
      /\ chain \in [ChainNames -> Chain]
  BY DEF ChainNames, EgressTypeOK
<1> USE DEF ChainsTyped, StagingUnused, NoChain, EmptyChain
<1>1. CASE CreateStaging
  <2>1. CASE Create("NEW")
    <3>1. chain'["NEW"] = EmptyChain(FALSE) /\ chain'["USER"] = chain["USER"]
          /\ chain'["OLD"] = chain["OLD"]
      BY <1>0, <2>1 DEF Create
    <3>2. QED
      BY <3>1 DEF ChainNames
  <2>2. CASE UNCHANGED chain
    BY <2>2
  <2>3. QED
    BY <1>1, <2>1, <2>2 DEF CreateStaging, Fails
<1>2. CASE FlushStaging
  BY <1>0, <1>2 DEF FlushStaging, CanFlush, Flush, Fails, Chain
<1>3. CASE AppendNext
  BY <1>0, <1>3 DEF AppendNext, AppendUpTo, StagingName, CanFlush, AppendRule, Fails, Chain
<1>4. CASE SwapOld
  BY <1>0, <1>4 DEF SwapOld, CanRename, Rename, Fails
<1>5. CASE SwapNew
  <2>1. CASE Rename("NEW", "USER")
    <3>1. chain'["NEW"] = NoChain /\ chain'["USER"] = chain["NEW"]
          /\ chain'["OLD"] = chain["OLD"]
      BY <1>0, <2>1 DEF Rename
    <3>2. QED
      BY <3>1 DEF ChainNames
  <2>2. CASE UNCHANGED chain
    BY <2>2
  <2>3. QED
    BY <1>5, <2>1, <2>2 DEF SwapNew, Fails
<1>6. CASE FlushOld
  BY <1>0, <1>6 DEF FlushOld, CanFlush, Flush, Fails, Chain
<1>7. CASE DeleteOld
  BY <1>0, <1>7 DEF DeleteOld, Delete, Fails
<1>8. CASE RestartVM
  BY <1>0, <1>8 DEF RestartVM, FreshChains
<1>9. CASE RestartDaemon
  BY <1>0, <1>9 DEF RestartDaemon, Chain
<1>10. CASE StartRun \/ Interrupt \/ UNCHANGED egressVars
  BY <1>10 DEF StartRun, Interrupt, egressVars
<1>11. QED
  BY <1>1, <1>2, <1>3, <1>4, <1>5, <1>6, <1>7, <1>8, <1>9, <1>10 DEF EgressNext, Command

\* faults never goes down.
LEMMA FaultsGrow ==
  ASSUME EgressTypeOK, [EgressNext]_egressVars, faults' = 0
  PROVE  faults = 0
<1>1. faults \in Nat
  BY EgressAssumption DEF EgressTypeOK
<1>2. faults' = faults \/ faults' = faults + 1
  BY DEF EgressNext, Command, StartRun, CreateStaging, FlushStaging, AppendNext, AppendUpTo,
    SwapOld, SwapNew, FlushOld, DeleteOld, Interrupt, RestartVM, RestartDaemon, Fails,
    egressVars
<1>3. QED
  BY <1>1, <1>2

\* An operation on one chain leaves the rules of the others, and a rename moves
\* the rules along (iptables).
LEMMA RulesAfter ==
  ASSUME chain \in [ChainNames -> Chain]
  PROVE  /\ \A n \in ChainNames : Create(n) =>
              /\ chain'[n].rules = <<>> /\ chain'[n].exists
              /\ \A m \in ChainNames \ {n} : chain'[m] = chain[m]
         /\ \A n \in ChainNames : Flush(n) =>
              /\ chain'[n].rules = <<>> /\ chain'[n].exists = chain[n].exists
              /\ \A m \in ChainNames \ {n} : chain'[m] = chain[m]
         /\ \A n \in ChainNames, r \in Rules : AppendRule(n, r) =>
              /\ chain'[n].rules = Append(chain[n].rules, r)
              /\ chain'[n].exists = chain[n].exists
              /\ \A m \in ChainNames \ {n} : chain'[m] = chain[m]
         /\ \A n, to \in ChainNames : Rename(n, to) /\ n # to =>
              /\ chain'[to] = chain[n] /\ chain'[n].rules = <<>>
              /\ \A m \in ChainNames \ {n, to} : chain'[m] = chain[m]
         /\ \A n \in ChainNames : Delete(n) =>
              /\ chain'[n].rules = <<>>
              /\ \A m \in ChainNames \ {n} : chain'[m] = chain[m]
         /\ \A m \in ChainNames : FreshChains[m].rules = <<>>
<1>1. \A n \in ChainNames : Create(n) =>
        /\ chain'[n].rules = <<>> /\ chain'[n].exists
        /\ \A m \in ChainNames \ {n} : chain'[m] = chain[m]
  BY DEF Create, EmptyChain
<1>2. \A n \in ChainNames : Flush(n) =>
        /\ chain'[n].rules = <<>> /\ chain'[n].exists = chain[n].exists
        /\ \A m \in ChainNames \ {n} : chain'[m] = chain[m]
  BY DEF Flush, Chain
<1>3. \A n \in ChainNames, r \in Rules : AppendRule(n, r) =>
        /\ chain'[n].rules = Append(chain[n].rules, r)
        /\ chain'[n].exists = chain[n].exists
        /\ \A m \in ChainNames \ {n} : chain'[m] = chain[m]
  BY DEF AppendRule, Chain
<1>4. \A n, to \in ChainNames : Rename(n, to) /\ n # to =>
        /\ chain'[to] = chain[n] /\ chain'[n].rules = <<>>
        /\ \A m \in ChainNames \ {n, to} : chain'[m] = chain[m]
  BY DEF Rename, NoChain
<1>5. \A n \in ChainNames : Delete(n) =>
        /\ chain'[n].rules = <<>>
        /\ \A m \in ChainNames \ {n} : chain'[m] = chain[m]
  BY DEF Delete, NoChain
<1>6. \A m \in ChainNames : FreshChains[m].rules = <<>>
  BY DEF FreshChains, NoChain, EmptyChain
<1>7. QED
  BY <1>1, <1>2, <1>3, <1>4, <1>5, <1>6

\* Wholeness survives every step in which no command fails out of turn: the
\* staging chain takes DOCKER-USER's place only when its set is complete.
LEMMA WholeStep ==
  ASSUME EgressTypeOK, RunCounted, ChainsTyped, InUseWhole, StagingFollows,
         [EgressNext]_egressVars, faults' = 0
  PROVE  InUseWhole' /\ StagingFollows'
<1>0. /\ "NEW" \in ChainNames /\ "USER" \in ChainNames /\ "OLD" \in ChainNames
      /\ chain \in [ChainNames -> Chain]
      /\ faults = 0 /\ faults \in Nat /\ Whole(<<>>)
      /\ RuleCount \in Nat \ {0} /\ MaxRuns \in Nat
  BY FaultsGrow, EgressAssumption DEF ChainNames, EgressTypeOK, Whole
<1>01. \A g \in 1 .. MaxRuns : Whole(RuleSet(g))
  BY DEF Whole
<1>02. ChainNames = {"USER", "NEW", "OLD"}
  BY DEF ChainNames
<1>03. \A can : Fails(can) => ~can /\ UNCHANGED chain
  BY <1>0 DEF Fails
<1> USE DEF InUseWhole, StagingFollows, Loaded
<1>1. CASE StartRun
  BY <1>1 DEF StartRun
<1>2. CASE CreateStaging
  <2>1. CASE CanCreate("NEW") /\ Create("NEW") /\ Goto("append") /\ UNCHANGED faults
    <3>1. chain'["NEW"].rules = <<>> /\ chain'["NEW"].exists
          /\ chain'["USER"] = chain["USER"] /\ chain'["OLD"] = chain["OLD"]
      BY <1>0, <2>1, RulesAfter
    <3>2. run \in 1 .. MaxRuns /\ built = 0
      BY <1>2 DEF CreateStaging, RunCounted
    <3>3. Part(run, 0) = <<>>
      BY <3>2, PartGrows
    <3>4. QED
      BY <2>1, <3>1, <3>2, <3>3 DEF Goto
  <2>2. CASE Fails(CanCreate("NEW")) /\ Goto("flushNew")
    <3>1. chain["NEW"].exists /\ UNCHANGED chain
      BY <1>03, <2>2 DEF CanCreate
    <3>2. QED
      BY <2>2, <3>1 DEF Goto
  <2>3. QED
    BY <1>2, <2>1, <2>2 DEF CreateStaging
<1>3. CASE FlushStaging
  <2>1. CanFlush("NEW") /\ Flush("NEW") /\ Goto("append")
    BY <1>03, <1>3 DEF FlushStaging, CanFlush
  <2>2. chain'["NEW"].rules = <<>> /\ chain'["NEW"].exists
        /\ chain'["USER"] = chain["USER"] /\ chain'["OLD"] = chain["OLD"]
    BY <1>0, <2>1, RulesAfter DEF CanFlush
  <2>3. run \in 1 .. MaxRuns /\ built = 0
    BY <1>3 DEF FlushStaging, RunCounted
  <2>4. Part(run, 0) = <<>>
    BY <2>3, PartGrows
  <2>5. QED
    BY <2>1, <2>2, <2>3, <2>4 DEF Goto
<1>4. CASE AppendNext
  <2>1. /\ CanFlush("NEW") /\ AppendRule("NEW", <<run, built + 1>>)
        /\ built' = built + 1 /\ UNCHANGED <<run, logAt>>
        /\ IF built' = logAt
           THEN pc' = "idle" /\ report' = "loaded"
           ELSE /\ pc' = IF built' < RuleCount THEN "append" ELSE "swapOld"
                /\ UNCHANGED report
    BY <1>03, <1>4 DEF AppendNext, AppendUpTo, StagingName, CanFlush
  <2>2. /\ run \in 1 .. MaxRuns /\ built < RuleCount /\ built \in Nat
        /\ chain["NEW"].exists /\ chain["NEW"].rules = Part(run, built)
    BY <1>4 DEF AppendNext, AppendUpTo, RunCounted, EgressTypeOK
  <2>3. <<run, built + 1>> \in Rules
    BY <1>0, <2>2 DEF Rules
  <2>4. /\ chain'["NEW"].rules = Append(chain["NEW"].rules, <<run, built + 1>>)
        /\ chain'["NEW"].exists
        /\ chain'["USER"] = chain["USER"] /\ chain'["OLD"] = chain["OLD"]
    BY <1>0, <2>1, <2>2, <2>3, RulesAfter
  <2>5. chain'["NEW"].rules = Part(run, built + 1) /\ Part(run, RuleCount) = RuleSet(run)
    BY <2>2, <2>4, PartGrows
  <2>6. pc' = "append" => built' < RuleCount
    BY <2>1
  <2>7. pc' = "swapOld" => built' = RuleCount
    BY <2>1, <2>2, <1>0
  <2>8. pc' \in {"idle", "append", "swapOld"} /\ (pc' = "idle" => logAt' # 0)
    BY <2>1, <2>2
  <2>9. QED
    BY <2>1, <2>4, <2>5, <2>6, <2>7, <2>8
<1>5. CASE SwapOld
  <2>1. CASE CanRename("USER", "OLD") /\ Rename("USER", "OLD")
    <3>1. /\ chain'["OLD"] = chain["USER"] /\ chain'["USER"].rules = <<>>
          /\ chain'["NEW"] = chain["NEW"]
      BY <1>0, <2>1, RulesAfter
    <3>2. QED
      BY <1>0, <1>5, <3>1 DEF SwapOld, Goto
  <2>2. CASE UNCHANGED chain
    BY <1>5, <2>2 DEF SwapOld, Goto
  <2>3. QED
    BY <1>5, <2>1, <2>2 DEF SwapOld, Fails
<1>6. CASE SwapNew
  <2>0. chain["NEW"].exists /\ chain["NEW"].rules = RuleSet(run) /\ run \in 1 .. MaxRuns
    BY <1>6 DEF SwapNew, RunCounted
  <2>1. CASE CanRename("NEW", "USER") /\ Rename("NEW", "USER") /\ Goto("flushOld")
    <3>1. chain'["USER"] = chain["NEW"] /\ chain'["OLD"] = chain["OLD"]
      BY <1>0, <2>1, RulesAfter
    <3>2. QED
      BY <1>01, <2>0, <2>1, <3>1 DEF Goto
  <2>2. CASE UNCHANGED chain /\ Goto("delete")
    BY <2>0, <2>2 DEF Goto
  <2>3. QED
    BY <1>6, <2>1, <2>2 DEF SwapNew, Fails
<1>7. CASE FlushOld
  <2>1. CASE Flush("OLD")
    <3>1. /\ chain'["OLD"].rules = <<>> /\ chain'["USER"] = chain["USER"]
          /\ chain'["NEW"] = chain["NEW"]
      BY <1>0, <2>1, RulesAfter
    <3>2. QED
      BY <1>0, <1>7, <3>1 DEF FlushOld, Goto
  <2>2. CASE UNCHANGED chain
    BY <1>7, <2>2 DEF FlushOld, Goto
  <2>3. QED
    BY <1>7, <2>1, <2>2 DEF FlushOld, Fails
<1>8. CASE DeleteOld
  <2>1. CASE Delete("OLD")
    <3>1. /\ chain'["OLD"].rules = <<>> /\ chain'["USER"] = chain["USER"]
          /\ chain'["NEW"] = chain["NEW"]
      BY <1>0, <2>1, RulesAfter
    <3>2. QED
      BY <1>0, <1>8, <3>1 DEF DeleteOld, Finish
  <2>2. CASE UNCHANGED chain
    BY <1>8, <2>2 DEF DeleteOld, Finish
  <2>3. QED
    BY <1>8, <2>1, <2>2 DEF DeleteOld, Fails
<1>9. CASE Interrupt
  BY <1>9 DEF Interrupt, Finish
<1>10. CASE RestartVM
  BY <1>0, <1>10, RulesAfter DEF RestartVM
<1>11. CASE RestartDaemon
  <2>1. chain'["USER"].rules = chain["USER"].rules
        /\ chain'["NEW"] = chain["NEW"] /\ chain'["OLD"] = chain["OLD"]
    BY <1>0, <1>11 DEF RestartDaemon, Chain
  <2>2. QED
    BY <1>11, <2>1 DEF RestartDaemon, script
<1>12. CASE UNCHANGED egressVars
  BY <1>12 DEF egressVars, script
<1>13. QED
  BY <1>1, <1>2, <1>3, <1>4, <1>5, <1>6, <1>7, <1>8, <1>9, <1>10, <1>11, <1>12
  DEF EgressNext, Command

\* The invariant holds in every reachable state.
LEMMA EgressInvariant == EgressSpec => []EgressInv
<1>1. EgressInit => ChainsTyped /\ StagingUnused /\ InUseWhole /\ StagingFollows
  BY DEF EgressInit, FreshChains, ChainNames, ChainsTyped, StagingUnused, NoChain, EmptyChain,
    InUseWhole, Whole, StagingFollows, Loaded
<1>2. EgressInv /\ [EgressNext]_egressVars /\ (EgressTypeOK /\ RunCounted)' => EgressInv'
  BY ChainsStep, FaultsGrow, WholeStep DEF EgressInv
<1>3. QED
  BY <1>1, <1>2, EgressTyped, PTL DEF EgressSpec, EgressInv

-----------------------------------------------------------------------------
(* The theorems                                                             *)

\* Packets never meet the first rules of a set, however runs of iso pf are
\* interrupted and repeated, unless a command fails out of turn.
THEOREM NeverHalfASetHolds == EgressSpec => []NeverHalfASet
<1>1. EgressInv => NeverHalfASet
  BY DEF EgressInv, StagingUnused, InUseWhole, NeverHalfASet, ChainNames
<1>2. QED
  BY <1>1, EgressInvariant, PTL

\* A run that reports its rules as loaded has built all of them, unless a
\* command failed out of turn or a LOG rule cut the script short.
THEOREM LoadedIsBuiltHolds == EgressSpec => []LoadedIsBuilt
<1>1. EgressInv => LoadedIsBuilt
  BY DEF EgressInv, StagingFollows, LoadedIsBuilt, Built, ChainNames
<1>2. QED
  BY <1>1, EgressInvariant, PTL

\* While a set is built the rules in force do not change, whatever commands
\* fail (the staging chain).
THEOREM BuildIsInvisibleHolds == EgressSpec => BuildIsInvisible
<1>1. EgressInv /\ [EgressNext]_egressVars => [(Building /\ UNCHANGED restarts) => UNCHANGED InForce]_egressVars
  <2> SUFFICES ASSUME EgressInv, EgressNext, Building, UNCHANGED restarts
               PROVE  UNCHANGED InForce
    OBVIOUS
  <2>0. /\ "NEW" \in ChainNames /\ chain \in [ChainNames -> Chain]
        /\ ~chain["NEW"].jumped /\ restarts \in Nat
        /\ (~chain["NEW"].exists => chain["NEW"] = NoChain)
    BY EgressAssumption DEF EgressInv, EgressTypeOK, StagingUnused, ChainsTyped, ChainNames
  <2>1. chain' \in [ChainNames -> Chain] /\ ~chain'["NEW"].jumped
        /\ \A n \in ChainNames \ {"NEW"} : chain'[n] = chain[n]
    <3>1. CASE CreateStaging
      BY <2>0, <3>1, CommandsTyped DEF EgressInv, CreateStaging, Create, Fails, EmptyChain
    <3>2. CASE FlushStaging
      BY <2>0, <3>2, CommandsTyped DEF EgressInv, FlushStaging, Flush, Fails, Chain
    <3>3. CASE AppendNext
      <4>1. <<run, built + 1>> \in Rules
        BY <3>3, RuleTyped DEF EgressInv, RunCounted, AppendNext, AppendUpTo
      <4>2. QED
        BY <2>0, <3>3, <4>1, CommandsTyped
        DEF EgressInv, AppendNext, AppendUpTo, StagingName, AppendRule, Fails, Chain
    <3>4. CASE Interrupt
      BY <2>0, <3>4 DEF Interrupt
    <3>5. QED
      BY <2>0, <3>1, <3>2, <3>3, <3>4
      DEF EgressNext, Command, Building, StartRun, SwapOld, SwapNew, FlushOld, DeleteOld,
        RestartVM, RestartDaemon
  <2>2. {m \in ChainNames : chain'[m].jumped} = {m \in ChainNames : chain[m].jumped}
    BY <2>0, <2>1
  <2>3. \A n \in {m \in ChainNames : chain[m].jumped} : chain'[n].rules = chain[n].rules
    BY <2>0, <2>1
  <2>4. QED
    BY <2>2, <2>3 DEF InForce
<1>2. QED
  BY <1>1, EgressInvariant, PTL DEF EgressSpec, BuildIsInvisible
=============================================================================

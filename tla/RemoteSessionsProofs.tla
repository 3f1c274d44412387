------------------------ MODULE RemoteSessionsProofs ------------------------
(* Theorems about RemoteSessions, for any number of pids and processes.      *)
EXTENDS RemoteSessions, TLAPS

-----------------------------------------------------------------------------
(* The inductive invariant.  TypeOK is inductive by itself; the rest says   *)
(* what a command still knows of the process and of the file it works on.   *)

\* --stop's look at the process holds until its kill, or a pid changed hands.
LookHolds ==
  stop.pc = "kill" /\ "reuse" \notin past => proc[stop.pid] # "other"

\* Where a session was remembered an alike process came later, by its pid.
HeirsAreMarked ==
  "inherited" \notin past => \A p \in Remembered \cap Pids : proc[p] # "alike"

\* Commands given one after the other: at most one of them is under way.
OneCommand ==
  "together" \notin past =>
    /\ bg.pc = "idle" \/ stop.pc = "idle"
    /\ bg.pc = "idle" \/ status.pc = "idle"
    /\ stop.pc = "idle" \/ status.pc = "idle"

\* Then the one session is that of the running --bg or that of the file ...
SessionIsKnown ==
  InTurn =>
    /\ bg.pc # "idle" => \A p \in Sessions : p = bg.pid
    /\ bg.pc = "idle" => \A p \in Sessions : p = pidFile

\* ... and a command removes the file it looked at, of a session that is over.
RemovesItsOwn ==
  InTurn =>
    /\ stop.pc # "idle" => pidFile = stop.pid
    /\ status.pc # "idle" => pidFile = status.pid
    /\ stop.pc = "remove" => proc[stop.pid] # "session"
    /\ status.pc = "remove" => proc[status.pid] # "session"

SessionInv == TypeOK /\ LookHolds /\ HeirsAreMarked /\ OneCommand /\ SessionIsKnown /\ RemovesItsOwn

-----------------------------------------------------------------------------
(* Each part is kept by every step.                                         *)

\* A command under way has a pid, the file one or none.
LEMMA TypeNext == TypeOK /\ [Next]_vars => TypeOK'
<1> SUFFICES ASSUME TypeOK, [Next]_vars PROVE TypeOK'
  OBVIOUS
<1> USE RemoteAssumption DEF vars, cmdVars, Pids, None, Empty, Idle, Command, Kinds, Events, Mark, TypeOK
<1>1. CASE StartSession
  BY <1>1 DEF StartSession
<1>2. CASE WritePidFile
  BY <1>2 DEF WritePidFile
<1>3. CASE BeginStop
  BY <1>3 DEF BeginStop, Look, SeesPidFile, PidReadable
<1>4. CASE CheckSession
  BY <1>4 DEF CheckSession, LooksLikeSession
<1>5. CASE Kill
  <2>1. stop.pid \in Pids /\ proc' \in [Pids -> Kinds]
    BY <1>5 DEF Kill
  <2>2. stop' \in Command({"check", "kill", "remove"}) /\ stop'.pid = stop.pid
    BY <1>5 DEF Kill
  <2>3. \A c \in {bg', stop', status'} : c.pc # "idle" => c.pid \in Pids
    BY <1>5, <2>1, <2>2 DEF Kill
  <2> QED
    BY <1>5, <2>1, <2>2, <2>3 DEF Kill
<1>6. CASE RemoveAfterStop
  BY <1>6 DEF RemoveAfterStop
<1>7. CASE BeginStatus
  BY <1>7 DEF BeginStatus, Look, SeesPidFile, PidReadable
<1>8. CASE CheckStatus
  BY <1>8 DEF CheckStatus, IsStale
<1>9. CASE RemoveStale
  BY <1>9 DEF RemoveStale
<1>10. ASSUME NEW p \in Pids, ProcessEnds(p) PROVE TypeOK'
  BY <1>10 DEF ProcessEnds
<1>11. ASSUME NEW p \in Pids, NEW kind \in {"alike", "other"}, OtherStarts(p, kind) PROVE TypeOK'
  BY <1>11 DEF OtherStarts
<1>12. CASE UNCHANGED vars
  BY <1>12
<1> QED
  BY <1>1, <1>2, <1>3, <1>4, <1>5, <1>6, <1>7, <1>8, <1>9, <1>10, <1>11, <1>12 DEF Next

\* A process that takes the pid over leaves a mark.
LEMMA LookNext == TypeOK /\ LookHolds /\ [Next]_vars => LookHolds'
<1> SUFFICES ASSUME TypeOK, LookHolds, [Next]_vars PROVE LookHolds'
  OBVIOUS
<1> USE RemoteAssumption DEF vars, cmdVars, Pids, None, Empty, Idle, Command, Kinds, Events, Mark, TypeOK, LookHolds
<1>1. CASE StartSession
  BY <1>1 DEF StartSession
<1>2. CASE WritePidFile
  BY <1>2 DEF WritePidFile
<1>3. CASE BeginStop
  BY <1>3 DEF BeginStop, Look, SeesPidFile, PidReadable
<1>4. CASE CheckSession
  BY <1>4 DEF CheckSession, LooksLikeSession
<1>5. CASE Kill
  BY <1>5 DEF Kill
<1>6. CASE RemoveAfterStop
  BY <1>6 DEF RemoveAfterStop
<1>7. CASE BeginStatus
  BY <1>7 DEF BeginStatus, Look, SeesPidFile, PidReadable
<1>8. CASE CheckStatus
  BY <1>8 DEF CheckStatus, IsStale
<1>9. CASE RemoveStale
  BY <1>9 DEF RemoveStale
<1>10. ASSUME NEW p \in Pids, ProcessEnds(p) PROVE LookHolds'
  BY <1>10 DEF ProcessEnds
<1>11. ASSUME NEW p \in Pids, NEW kind \in {"alike", "other"}, OtherStarts(p, kind) PROVE LookHolds'
  BY <1>11 DEF OtherStarts
<1>12. CASE UNCHANGED vars
  BY <1>12
<1> QED
  BY <1>1, <1>2, <1>3, <1>4, <1>5, <1>6, <1>7, <1>8, <1>9, <1>10, <1>11, <1>12 DEF Next

\* An alike process that is given a remembered pid leaves a mark.
LEMMA HeirsNext == TypeOK /\ HeirsAreMarked /\ [Next]_vars => HeirsAreMarked'
<1> SUFFICES ASSUME TypeOK, HeirsAreMarked, [Next]_vars PROVE HeirsAreMarked'
  OBVIOUS
<1> USE RemoteAssumption DEF Remembered, vars, cmdVars, Pids, None, Empty, Idle, Command, Kinds, Events, Mark, TypeOK, HeirsAreMarked
<1>1. CASE StartSession
  BY <1>1 DEF StartSession
<1>2. CASE WritePidFile
  BY <1>2 DEF WritePidFile
<1>3. CASE BeginStop
  BY <1>3 DEF BeginStop, Look, SeesPidFile, PidReadable
<1>4. CASE CheckSession
  BY <1>4 DEF CheckSession, LooksLikeSession
<1>5. CASE Kill
  BY <1>5 DEF Kill
<1>6. CASE RemoveAfterStop
  BY <1>6 DEF RemoveAfterStop
<1>7. CASE BeginStatus
  BY <1>7 DEF BeginStatus, Look, SeesPidFile, PidReadable
<1>8. CASE CheckStatus
  BY <1>8 DEF CheckStatus, IsStale
<1>9. CASE RemoveStale
  BY <1>9 DEF RemoveStale
<1>10. ASSUME NEW p \in Pids, ProcessEnds(p) PROVE HeirsAreMarked'
  BY <1>10 DEF ProcessEnds
<1>11. ASSUME NEW p \in Pids, NEW kind \in {"alike", "other"}, OtherStarts(p, kind) PROVE HeirsAreMarked'
  BY <1>11 DEF OtherStarts
<1>12. CASE UNCHANGED vars
  BY <1>12
<1> QED
  BY <1>1, <1>2, <1>3, <1>4, <1>5, <1>6, <1>7, <1>8, <1>9, <1>10, <1>11, <1>12 DEF Next

\* A command that begins beside another leaves a mark.
LEMMA OneCommandNext == TypeOK /\ OneCommand /\ [Next]_vars => OneCommand'
<1> SUFFICES ASSUME TypeOK, OneCommand, [Next]_vars PROVE OneCommand'
  OBVIOUS
<1> USE RemoteAssumption DEF vars, cmdVars, Pids, None, Empty, Idle, Command, Kinds, Events, Mark, TypeOK, OneCommand, InProgress
<1>1. CASE StartSession
  BY <1>1 DEF StartSession
<1>2. CASE WritePidFile
  BY <1>2 DEF WritePidFile
<1>3. CASE BeginStop
  BY <1>3 DEF BeginStop, Look, SeesPidFile, PidReadable
<1>4. CASE CheckSession
  BY <1>4 DEF CheckSession, LooksLikeSession
<1>5. CASE Kill
  BY <1>5 DEF Kill
<1>6. CASE RemoveAfterStop
  BY <1>6 DEF RemoveAfterStop
<1>7. CASE BeginStatus
  BY <1>7 DEF BeginStatus, Look, SeesPidFile, PidReadable
<1>8. CASE CheckStatus
  BY <1>8 DEF CheckStatus, IsStale
<1>9. CASE RemoveStale
  BY <1>9 DEF RemoveStale
<1>10. ASSUME NEW p \in Pids, ProcessEnds(p) PROVE OneCommand'
  BY <1>10 DEF ProcessEnds
<1>11. ASSUME NEW p \in Pids, NEW kind \in {"alike", "other"}, OtherStarts(p, kind) PROVE OneCommand'
  BY <1>11 DEF OtherStarts
<1>12. CASE UNCHANGED vars
  BY <1>12
<1> QED
  BY <1>1, <1>2, <1>3, <1>4, <1>5, <1>6, <1>7, <1>8, <1>9, <1>10, <1>11, <1>12 DEF Next

\* A session is started with nothing under way and no other session.
LEMMA KnownNext == SessionInv /\ [Next]_vars => SessionIsKnown'
<1> SUFFICES ASSUME SessionInv, [Next]_vars PROVE SessionIsKnown'
  OBVIOUS
<1> USE RemoteAssumption DEF vars, cmdVars, Pids, None, Empty, Idle, Command, Kinds, Events, Mark, TypeOK, SessionInv, OneCommand, SessionIsKnown, RemovesItsOwn, InTurn, Sessions, InProgress
<1>1. CASE StartSession
  BY <1>1 DEF StartSession
<1>2. CASE WritePidFile
  BY <1>2 DEF WritePidFile
<1>3. CASE BeginStop
  BY <1>3 DEF BeginStop, Look, SeesPidFile, PidReadable
<1>4. CASE CheckSession
  BY <1>4 DEF CheckSession, LooksLikeSession
<1>5. CASE Kill
  BY <1>5 DEF Kill
<1>6. CASE RemoveAfterStop
  BY <1>6 DEF RemoveAfterStop
<1>7. CASE BeginStatus
  BY <1>7 DEF BeginStatus, Look, SeesPidFile, PidReadable
<1>8. CASE CheckStatus
  BY <1>8 DEF CheckStatus, IsStale
<1>9. CASE RemoveStale
  BY <1>9 DEF RemoveStale
<1>10. ASSUME NEW p \in Pids, ProcessEnds(p) PROVE SessionIsKnown'
  BY <1>10 DEF ProcessEnds
<1>11. ASSUME NEW p \in Pids, NEW kind \in {"alike", "other"}, OtherStarts(p, kind) PROVE SessionIsKnown'
  BY <1>11 DEF OtherStarts
<1>12. CASE UNCHANGED vars
  BY <1>12
<1> QED
  BY <1>1, <1>2, <1>3, <1>4, <1>5, <1>6, <1>7, <1>8, <1>9, <1>10, <1>11, <1>12 DEF Next

\* Nobody writes the file or starts a session beside --stop or --status.
LEMMA RemovesNext == SessionInv /\ [Next]_vars => RemovesItsOwn'
<1> SUFFICES ASSUME SessionInv, [Next]_vars PROVE RemovesItsOwn'
  OBVIOUS
<1> USE RemoteAssumption DEF vars, cmdVars, Pids, None, Empty, Idle, Command, Kinds, Events, Mark, TypeOK, SessionInv, OneCommand, SessionIsKnown, RemovesItsOwn, InTurn, Sessions, InProgress
<1>1. CASE StartSession
  BY <1>1 DEF StartSession
<1>2. CASE WritePidFile
  BY <1>2 DEF WritePidFile
<1>3. CASE BeginStop
  BY <1>3 DEF BeginStop, Look, SeesPidFile, PidReadable
<1>4. CASE CheckSession
  BY <1>4 DEF CheckSession, LooksLikeSession
<1>5. CASE Kill
  BY <1>5 DEF Kill
<1>6. CASE RemoveAfterStop
  BY <1>6 DEF RemoveAfterStop
<1>7. CASE BeginStatus
  BY <1>7 DEF BeginStatus, Look, SeesPidFile, PidReadable
<1>8. CASE CheckStatus
  BY <1>8 DEF CheckStatus, IsStale
<1>9. CASE RemoveStale
  BY <1>9 DEF RemoveStale
<1>10. ASSUME NEW p \in Pids, ProcessEnds(p) PROVE RemovesItsOwn'
  BY <1>10 DEF ProcessEnds
<1>11. ASSUME NEW p \in Pids, NEW kind \in {"alike", "other"}, OtherStarts(p, kind) PROVE RemovesItsOwn'
  BY <1>11 DEF OtherStarts
<1>12. CASE UNCHANGED vars
  BY <1>12
<1> QED
  BY <1>1, <1>2, <1>3, <1>4, <1>5, <1>6, <1>7, <1>8, <1>9, <1>10, <1>11, <1>12 DEF Next

-----------------------------------------------------------------------------
(* The theorems                                                             *)

\* Initially there is no process and no command.
LEMMA SessionInit == Init => SessionInv
  BY RemoteAssumption DEF Init, SessionInv, TypeOK, LookHolds, HeirsAreMarked, OneCommand,
     SessionIsKnown, RemovesItsOwn, Sessions, Idle, Command, Pids, None, Empty, Kinds, Events

\* Every step keeps the invariant.
LEMMA SessionNext == SessionInv /\ [Next]_vars => SessionInv'
  BY TypeNext, LookNext, HeirsNext, OneCommandNext, KnownNext, RemovesNext DEF SessionInv

\* The invariant holds in every reachable state.
LEMMA SessionInvariant == Spec => []SessionInv
  BY SessionInit, SessionNext, PTL DEF Spec

\* The variables keep their types: no command works on the pid of an empty or
\* missing pid file.
THEOREM TypeCorrect == Spec => []TypeOK
<1>1. SessionInv => TypeOK
  BY DEF SessionInv
<1> QED
  BY <1>1, SessionInvariant, PTL

\* cmd_remote, one command after the other: the pid file leads to the session
\* as long as it runs, whatever ended, and whatever pids were reused, before.
THEOREM NoSessionIsLostInvariant == Spec => []NoSessionIsLost
<1>1. SessionInv => NoSessionIsLost
  BY DEF SessionInv, SessionIsKnown, NoSessionIsLost, InTurn
<1> QED
  BY <1>1, SessionInvariant, PTL

\* --stop kills, besides sessions, only a process that was given the pid of one:
\* after the look, or before it if its ps line has the two words in it.
THEOREM StopKillsSessionsOrHeirs == Spec => KillsSessionsOrHeirs
<1>1. SessionInv /\ [Next]_vars =>
        [\A p \in Pids : Killing(p) =>
           /\ proc[p] = "other" => "reuse" \in past
           /\ proc[p] = "alike" => "inherited" \in past]_vars
  BY DEF SessionInv, LookHolds, HeirsAreMarked, Remembered, Killing
<1> QED
  BY <1>1, SessionInvariant, PTL DEF Spec, KillsSessionsOrHeirs

\* A --stop that saw the pid file, with no other command beside it, leaves
\* neither a session nor a pid file.
THEOREM StopLeavesNothing == Spec => RootStopsSessions
<1> DEFINE Left == Stopping /\ InTurn => Sessions = {} /\ pidFile' = None
<1>1. SessionInv /\ [Next]_vars => [Left]_vars
  <2> SUFFICES ASSUME SessionInv, Next, Stopping, InTurn
               PROVE Sessions = {} /\ pidFile' = None
    OBVIOUS
  <2>1. RemoveAfterStop
    BY DEF Next, Stopping, StartSession, WritePidFile, BeginStop, CheckSession, Kill,
       BeginStatus, CheckStatus, RemoveStale, ProcessEnds, OtherStarts, cmdVars,
       SessionInv, TypeOK, Command, Idle
  <2>2. bg.pc = "idle" /\ pidFile = stop.pid /\ proc[stop.pid] # "session"
    BY <2>1 DEF RemoveAfterStop, SessionInv, OneCommand, RemovesItsOwn, InTurn
  <2> QED
    BY <2>1, <2>2 DEF RemoveAfterStop, SessionInv, SessionIsKnown, Sessions
<1> QED
  BY <1>1, SessionInvariant, PTL DEF Spec, RootStopsSessions

=============================================================================

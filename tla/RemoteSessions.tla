--------------------------- MODULE RemoteSessions ---------------------------
(***************************************************************************)
(* The background sessions of one user (cmd_remote of bin/iso): --bg       *)
(* starts one and notes its pid in a file, --status and --stop find it     *)
(* again by that pid.  The commands are not serialised, sessions end by    *)
(* themselves, and the kernel reuses pids.                                 *)
(***************************************************************************)
EXTENDS Naturals

CONSTANTS
  MaxPid,    \* pids are 1 .. MaxPid
  MaxStarts, \* bound: sessions started
  MaxOthers, \* bound: processes started that are no session of this user's
  AsRoot     \* iso is run by root, who may look into the pid directory

ASSUME RemoteAssumption ==
  MaxPid \in Nat /\ MaxStarts \in Nat /\ MaxOthers \in Nat /\ AsRoot \in BOOLEAN

VARIABLES
  proc,    \* proc[p]: what runs under pid p
  pidFile, \* the pid in the file; None: no file; Empty: being written
  bg, stop, status, \* the commands under way and the pid each works on
  starts, others,
  past     \* what has happened: see Events

cmdVars == <<bg, stop, status>>
vars == <<proc, pidFile, cmdVars, starts, others, past>>

Pids == 1 .. MaxPid
None == 0
Empty == MaxPid + 1

\* ps shows the user's name and "claude" for a background session, and for a
\* process that is "alike": the user's session in a terminal, a session of a user
\* whose name contains this one's, whatever has the two words in its arguments.
Kinds == {"none", "session", "alike", "other"}

\* "together": a command began while another was under way; "second": a session
\* was started while one was running; "reuse": a pid changed hands between
\* --stop's look at the process and its kill; "inherited": an alike process was
\* given a pid that --bg, the file or --stop still took for a session's.
Events == {"together", "second", "reuse", "inherited"}

Command(pcs) == [pc : {"idle"} \cup pcs, pid : Pids \cup {None}]
Idle == [pc |-> "idle", pid |-> None]

TypeOK ==
  /\ proc \in [Pids -> Kinds]
  /\ pidFile \in Pids \cup {None, Empty}
  /\ bg \in Command({"create", "write"})
  /\ stop \in Command({"check", "kill", "remove"})
  /\ status \in Command({"check", "remove"})
  /\ \A c \in {bg, stop, status} : c.pc # "idle" => c.pid \in Pids
  /\ starts \in 0 .. MaxStarts /\ others \in 0 .. MaxOthers
  /\ past \subseteq Events

Init ==
  /\ proc = [p \in Pids |-> "none"]
  /\ pidFile = None
  /\ bg = Idle /\ stop = Idle /\ status = Idle
  /\ starts = 0 /\ others = 0 /\ past = {}

InProgress == \E c \in {bg, stop, status} : c.pc # "idle"
Sessions == {p \in Pids : proc[p] = "session"}

Mark(event, cond) == IF cond THEN {event} ELSE {}

-----------------------------------------------------------------------------
(* --bg                                                                     *)

StartSession ==
  /\ bg.pc = "idle" /\ starts < MaxStarts /\ starts' = starts + 1
  /\ \E p \in Pids :
       /\ proc[p] = "none" /\ proc' = [proc EXCEPT ![p] = "session"]
       /\ bg' = [pc |-> "create", pid |-> p]
  /\ past' = past \cup Mark("together", InProgress) \cup Mark("second", Sessions # {})
  /\ UNCHANGED <<pidFile, stop, status, others>>

\* tee truncates the file, then writes the pid.
WritePidFile ==
  /\ \/ bg.pc = "create" /\ pidFile' = Empty /\ bg' = [bg EXCEPT !.pc = "write"]
     \/ bg.pc = "write" /\ pidFile' = bg.pid /\ bg' = Idle
  /\ UNCHANGED <<proc, stop, status, starts, others, past>>

-----------------------------------------------------------------------------
(* --stop and --status                                                      *)

\* The directory has mode 0700 and belongs to root, and iso does not change to
\* root for this command: exists() raises PermissionError or answers no.
SeesPidFile == AsRoot /\ pidFile # None

\* int() of an empty string raises ValueError.
PidReadable == pidFile # Empty

\* What both commands begin with; they end at once without a file or a pid in it.
Look(command) ==
  IF SeesPidFile /\ PidReadable
  THEN command' = [pc |-> "check", pid |-> pidFile]
  ELSE UNCHANGED command

BeginStop ==
  /\ stop.pc = "idle" /\ Look(stop)
  /\ past' = past \cup Mark("together", InProgress)
  /\ UNCHANGED <<proc, pidFile, bg, status, starts, others>>

\* Mutant: whatever runs under the pid is killed.
AnyProcess(p) == proc[p] # "none"

\* The ps line contains the user's name and the word "claude", anywhere.
LooksLikeSession(p) == proc[p] \in {"session", "alike"}

CheckSession ==
  /\ stop.pc = "check"
  /\ stop' = [stop EXCEPT !.pc = IF LooksLikeSession(stop.pid) THEN "kill" ELSE "remove"]
  /\ UNCHANGED <<proc, pidFile, bg, status, starts, others, past>>

\* Mutant: the file is left to --status.
KillAndReturn ==
  /\ stop.pc = "kill" /\ stop' = Idle
  /\ proc' = [proc EXCEPT ![stop.pid] = "none"]
  /\ UNCHANGED <<pidFile, bg, status, starts, others, past>>

Kill ==
  /\ stop.pc = "kill" /\ stop' = [stop EXCEPT !.pc = "remove"]
  /\ proc' = [proc EXCEPT ![stop.pid] = "none"]
  /\ UNCHANGED <<pidFile, bg, status, starts, others, past>>

RemoveAfterStop ==
  /\ stop.pc = "remove" /\ stop' = Idle /\ pidFile' = None
  /\ UNCHANGED <<proc, bg, status, starts, others, past>>

BeginStatus ==
  /\ status.pc = "idle" /\ Look(status)
  /\ past' = past \cup Mark("together", InProgress)
  /\ UNCHANGED <<proc, pidFile, bg, stop, starts, others>>

\* Mutant: a pid file that has been reported has done its duty.
SeenIsStale(p) == TRUE

\* ps finds nothing under the pid.
IsStale(p) == proc[p] = "none"

CheckStatus ==
  /\ status.pc = "check"
  /\ status' = IF IsStale(status.pid) THEN [status EXCEPT !.pc = "remove"] ELSE Idle
  /\ UNCHANGED <<proc, pidFile, bg, stop, starts, others, past>>

RemoveStale ==
  /\ status.pc = "remove" /\ status' = Idle /\ pidFile' = None
  /\ UNCHANGED <<proc, bg, stop, starts, others, past>>

-----------------------------------------------------------------------------
(* The system                                                               *)

ProcessEnds(p) ==
  /\ proc[p] # "none" /\ proc' = [proc EXCEPT ![p] = "none"]
  /\ UNCHANGED <<pidFile, cmdVars, starts, others, past>>

\* Pids that a command or the file takes for those of a session.
Remembered == {bg.pid, pidFile, stop.pid}

OtherStarts(p, kind) ==
  /\ proc[p] = "none" /\ others < MaxOthers /\ others' = others + 1
  /\ proc' = [proc EXCEPT ![p] = kind]
  /\ past' = past \cup Mark("reuse", stop.pc = "kill" /\ stop.pid = p)
                 \cup Mark("inherited", kind = "alike" /\ p \in Remembered)
  /\ UNCHANGED <<pidFile, cmdVars, starts>>

Next ==
  \/ StartSession \/ WritePidFile
  \/ BeginStop \/ CheckSession \/ Kill \/ RemoveAfterStop
  \/ BeginStatus \/ CheckStatus \/ RemoveStale
  \/ \E p \in Pids : ProcessEnds(p) \/ \E kind \in {"alike", "other"} : OtherStarts(p, kind)

Spec == Init /\ [][Next]_vars

-----------------------------------------------------------------------------
(* Properties                                                               *)

Stopping == stop.pc # "idle" /\ stop'.pc = "idle"

Killing(p) == stop.pc = "kill" /\ stop'.pc # "kill" /\ stop.pid = p

\* What --stop can be relied on for when processes come and go: it kills a
\* process that is not alike only if the pid changed hands in the instant between
\* the look and the kill, and one that is alike only if that process was given
\* the very pid of a session, while it was remembered.  One that was there before
\* the session, or runs under a pid of its own, is never killed.
KillsSessionsOrHeirs ==
  [][\A p \in Pids : Killing(p) =>
       /\ proc[p] = "other" => "reuse" \in past
       /\ proc[p] = "alike" => "inherited" \in past]_vars

\* "Verify the PID belongs to our user (prevent killing arbitrary process)": no
\* process but a session is killed, unless the pid changes hands after the look.
KillsNoOther ==
  [][\A p \in Pids : Killing(p) /\ "reuse" \notin past => proc[p] \in {"none", "session"}]_vars

InTurn == past \cap {"together", "second"} = {}

\* Commands given one after the other never lose a session, whatever pids are
\* reused: while it runs the file leads to it or a command is about to make it so.
NoSessionIsLost ==
  InTurn => \A p \in Sessions : pidFile = p \/ bg.pid = p

\* ... and --stop, run by root, leaves no session behind.
RootStopsSessions ==
  [][Stopping /\ InTurn => Sessions = {} /\ pidFile' = None]_vars

\* "iso acm remote --stop  # stop the session": the file is there, nobody else
\* is at work, and --stop sees it.
StopFindsSession ==
  pidFile \in Sessions /\ ~InProgress => SeesPidFile

=============================================================================

---------------------------- MODULE EgressRules ----------------------------
(***************************************************************************)
(* How "iso pf" loads the container egress rules into the Docker VM        *)
(* (generate_docker_iptables and apply_docker_iptables of bin/iso): one    *)
(* shell list of iptables commands that builds a staging chain and renames *)
(* it into place, run again whenever config.toml changes.                  *)
(*                                                                         *)
(* A rule set is the sequence of its rules, each marked with the run that  *)
(* generated it; the last rule of a set is the final ACCEPT, so a complete *)
(* set decides every packet.  A chain that ends undecided, an empty one    *)
(* included, lets the packet pass on.                                      *)
(***************************************************************************)
EXTENDS Naturals, Sequences

CONSTANTS
  RuleCount,   \* rules of a rule set
  LogPlaces,   \* where the first LOG rule of a set may be; 0: nobody logs
  MaxRuns,     \* bound: runs of iso pf
  MaxFaults,   \* bound: commands that fail for no reason of their own
  MaxRestarts  \* bound: restarts of Docker or of its VM

ASSUME EgressAssumption ==
  /\ RuleCount \in Nat \ {0}
  /\ LogPlaces \subseteq 0 .. RuleCount - 1
  /\ MaxRuns \in Nat /\ MaxFaults \in Nat /\ MaxRestarts \in Nat

VARIABLES
  chain,    \* chain[n]: the chain of that name, and whether FORWARD jumps to it
  pc,       \* the command the script is about to run
  built,    \* rules appended so far
  run,      \* number of the current or last run
  logAt,    \* place of its first LOG rule
  report,   \* what the last run that ended printed
  faults, restarts

script == <<pc, built, run, logAt, report>>
egressVars == <<chain, script, faults, restarts>>

\* DOCKER-USER, DOCKER-USER-NEW, DOCKER-USER-OLD.
ChainNames == {"USER", "NEW", "OLD"}

Rules == (1 .. MaxRuns) \X (1 .. RuleCount)
Chain == [exists : BOOLEAN, jumped : BOOLEAN, rules : Seq(Rules)]

NoChain == [exists |-> FALSE, jumped |-> FALSE, rules |-> <<>>]
EmptyChain(j) == [exists |-> TRUE, jumped |-> j, rules |-> <<>>]

EgressTypeOK ==
  /\ chain \in [ChainNames -> Chain]
  /\ pc \in {"idle", "create", "flushNew", "append", "swapOld", "swapNew",
             "flushOld", "delete"}
  /\ built \in 0 .. RuleCount
  /\ run \in 0 .. MaxRuns
  /\ logAt \in LogPlaces \cup {0}
  /\ report \in {"none", "loaded", "failed"}
  /\ faults \in 0 .. MaxFaults /\ restarts \in 0 .. MaxRestarts

\* Docker has started: FORWARD jumps to an empty DOCKER-USER.
FreshChains ==
  [n \in ChainNames |-> IF n = "USER" THEN EmptyChain(TRUE) ELSE NoChain]

EgressInit ==
  /\ chain = FreshChains
  /\ pc = "idle" /\ built = 0 /\ run = 0 /\ logAt = 0 /\ report = "none"
  /\ faults = 0 /\ restarts = 0

-----------------------------------------------------------------------------
(* iptables (external).  A jump leads to a chain, not to a name: renaming   *)
(* takes the jumps along, and a chain that is jumped to cannot be deleted.  *)

CanCreate(n) == ~chain[n].exists
CanFlush(n) == chain[n].exists
CanRename(n, to) == chain[n].exists /\ ~chain[to].exists
CanDelete(n) == chain[n].exists /\ ~chain[n].jumped /\ chain[n].rules = <<>>

Create(n) == chain' = [chain EXCEPT ![n] = EmptyChain(FALSE)]
Flush(n) == chain' = [chain EXCEPT ![n].rules = <<>>]
AppendRule(n, r) == chain' = [chain EXCEPT ![n].rules = Append(@, r)]
Rename(n, to) == chain' = [chain EXCEPT ![n] = NoChain, ![to] = chain[n]]
Delete(n) == chain' = [chain EXCEPT ![n] = NoChain]

\* A command fails because its precondition does, or because another program
\* holds the xtables lock.
Fails(can) ==
  /\ UNCHANGED chain
  /\ \/ ~can /\ UNCHANGED faults
     \/ can /\ faults < MaxFaults /\ faults' = faults + 1

-----------------------------------------------------------------------------
(* The script.  Its commands are joined by "&&", some end in "|| true"; the *)
(* shell groups from the left, so "|| true" also rescues every failure      *)
(* before it, and the whole list never fails.                               *)
(*                                                                         *)
(* The list is passed on between single quotes, and a LOG rule quotes its   *)
(* prefix the same way: the quotes pair up so that the shell in the VM gets *)
(* the list only up to the first log prefix.                                *)

Goto(next) == pc' = next /\ UNCHANGED <<built, run, logAt, report>>

Finish(result) ==
  /\ pc' = "idle" /\ report' = result
  /\ UNCHANGED <<built, run, logAt>>

\* A command before the renames failed.
GiveUp == IF logAt = 0 THEN Goto("swapNew") ELSE Finish("failed")

StartRun ==
  /\ pc = "idle" /\ run < MaxRuns
  /\ run' = run + 1 /\ built' = 0 /\ pc' = "create"
  /\ logAt' \in LogPlaces
  /\ UNCHANGED <<chain, report, faults, restarts>>

\* Mutant: the staging chain of an interrupted run is taken as it is.
CreateStagingKeeps ==
  /\ pc = "create"
  /\ \/ CanCreate("NEW") /\ Create("NEW") /\ UNCHANGED faults
     \/ Fails(CanCreate("NEW"))
  /\ Goto("append")
  /\ UNCHANGED restarts

\* iptables -N DOCKER-USER-NEW || ...
CreateStaging ==
  /\ pc = "create"
  /\ \/ CanCreate("NEW") /\ Create("NEW") /\ Goto("append") /\ UNCHANGED faults
     \/ Fails(CanCreate("NEW")) /\ Goto("flushNew")
  /\ UNCHANGED restarts

\* ... iptables -F DOCKER-USER-NEW
FlushStaging ==
  /\ pc = "flushNew"
  /\ \/ CanFlush("NEW") /\ Flush("NEW") /\ Goto("append") /\ UNCHANGED faults
     \/ Fails(CanFlush("NEW")) /\ GiveUp
  /\ UNCHANGED restarts

\* Mutant: rules are written into the chain in use.
BuildsInPlace == "USER"

\* The chain the rules are appended to.
StagingName == "NEW"

\* iptables -A DOCKER-USER-NEW ..., once for each of the n rules.
AppendUpTo(n) ==
  /\ pc = "append"
  /\ \/ /\ CanFlush(StagingName) /\ AppendRule(StagingName, <<run, built + 1>>)
        /\ built' = built + 1
        /\ IF built' = logAt
           THEN pc' = "idle" /\ report' = "loaded"
           ELSE /\ pc' = IF built' < n THEN "append" ELSE "swapOld"
                /\ UNCHANGED report
        /\ UNCHANGED <<run, logAt, faults>>
     \/ Fails(CanFlush(StagingName)) /\ GiveUp
  /\ UNCHANGED restarts

\* Mutant: the generator forgets the final rule.
AppendMissesLast == AppendUpTo(RuleCount - 1)

AppendNext == AppendUpTo(RuleCount)

\* iptables -E DOCKER-USER DOCKER-USER-OLD || true
SwapOld ==
  /\ pc = "swapOld" /\ Goto("swapNew")
  /\ \/ CanRename("USER", "OLD") /\ Rename("USER", "OLD") /\ UNCHANGED faults
     \/ Fails(CanRename("USER", "OLD"))
  /\ UNCHANGED restarts

\* iptables -E DOCKER-USER-NEW DOCKER-USER; a failure skips the next command.
SwapNew ==
  /\ pc = "swapNew"
  /\ \/ CanRename("NEW", "USER") /\ Rename("NEW", "USER") /\ Goto("flushOld")
        /\ UNCHANGED faults
     \/ Fails(CanRename("NEW", "USER")) /\ Goto("delete")
  /\ UNCHANGED restarts

\* iptables -F DOCKER-USER-OLD || true
FlushOld ==
  /\ pc = "flushOld" /\ Goto("delete")
  /\ \/ CanFlush("OLD") /\ Flush("OLD") /\ UNCHANGED faults
     \/ Fails(CanFlush("OLD"))
  /\ UNCHANGED restarts

\* iptables -X DOCKER-USER-OLD || true; the list has succeeded.
DeleteOld ==
  /\ pc = "delete"
  /\ \/ CanDelete("OLD") /\ Delete("OLD") /\ UNCHANGED faults
     \/ Fails(CanDelete("OLD"))
  /\ Finish("loaded")
  /\ UNCHANGED restarts

\* The container that runs the script does not start or is killed.
Interrupt ==
  /\ pc # "idle" /\ Finish("failed")
  /\ UNCHANGED <<chain, faults, restarts>>

-----------------------------------------------------------------------------
(* Docker (external)                                                        *)

\* The VM restarts: every rule is lost, a script under way ends.
RestartVM ==
  /\ restarts < MaxRestarts /\ restarts' = restarts + 1
  /\ chain' = FreshChains
  /\ pc' = "idle" /\ report' = "none"
  /\ UNCHANGED <<built, run, logAt, faults>>

\* The daemon alone restarts: it looks for DOCKER-USER by name, makes the chain
\* and the jump to it if they are missing.
RestartDaemon ==
  /\ restarts < MaxRestarts /\ restarts' = restarts + 1
  /\ pc = "idle"
  /\ chain' = [chain EXCEPT !["USER"].exists = TRUE, !["USER"].jumped = TRUE]
  /\ UNCHANGED <<script, faults>>

-----------------------------------------------------------------------------
Command ==
  \/ CreateStaging \/ FlushStaging \/ AppendNext
  \/ SwapOld \/ SwapNew \/ FlushOld \/ DeleteOld

EgressNext == StartRun \/ Command \/ Interrupt \/ RestartVM \/ RestartDaemon

EgressSpec == EgressInit /\ [][EgressNext]_egressVars

-----------------------------------------------------------------------------
(* Properties                                                               *)

RuleSet(g) == [i \in 1 .. RuleCount |-> <<g, i>>]
Whole(rs) == rs = <<>> \/ \E g \in 1 .. MaxRuns : rs = RuleSet(g)

\* What packets meet.
InForce == [n \in {m \in ChainNames : chain[m].jumped} |-> chain[n].rules]

\* Until the script comes to its first rename the rules in force do not change,
\* however often it is interrupted and run again over what is left of it
\* ("Avoids the brief window where DOCKER-USER is empty").
Building == pc \in {"create", "flushNew", "append"}
BuildIsInvisible ==
  [][(Building /\ UNCHANGED restarts) => UNCHANGED InForce]_egressVars

\* If no command failed out of turn, packets meet a complete rule set or none,
\* never the first rules of one: also when a run is interrupted anywhere, when
\* the next one starts over, and when Docker adopts a chain in between.
NeverHalfASet ==
  faults = 0 => \A n \in ChainNames : chain[n].jumped => Whole(chain[n].rules)

Built == \E n \in ChainNames : chain[n].rules = RuleSet(run)
Loaded == report = "loaded" /\ pc = "idle"

\* If no command failed out of turn and nobody logs, a run that reports the
\* rules as loaded has built all of them, whatever earlier runs left behind.
LoadedIsBuilt == (Loaded /\ faults = 0 /\ logAt = 0) => Built

\* The same for every configuration ("`log = true` - log all traffic via pf log
\* + Docker iptables LOG").
LoggedIsBuilt == Loaded => Built

\* A run that reports the rules as loaded has them in force ("Atomic swap:
\* rename old -> backup, new -> DOCKER-USER, drop backup").
LoadedIsInForce ==
  Loaded => \E n \in ChainNames : chain[n].jumped /\ chain[n].rules = RuleSet(run)

\* A run in which a command failed for good does not report "Docker iptables
\* rules loaded": the chain of that name then holds the rules of the run.
LoadedIsNamed == Loaded => chain["USER"].rules = RuleSet(run)

=============================================================================

---------------------------- MODULE ByteChannel ----------------------------
(***************************************************************************)
(* What the proxy promises of one direction of a spliced connection, with  *)
(* no word on buffers, goroutines or system calls: a receiver gets a       *)
(* growing prefix of what the sender wrote, and learns of the end only     *)
(* once the sender has ended and nothing is left to pass on.               *)
(***************************************************************************)
EXTENDS Naturals, Sequences

VARIABLES
  first,    \* number of the first byte the receiver is due (it never changes)
  sender,   \* what the sender did with its end: "open", "half", "closed", "reset"
  receiver, \* the same of the receiver
  sent,     \* bytes the sender has written, numbered from 1
  passed,   \* bytes the receiver has been given
  state     \* "setup", "joined", "ended", or "refused"

vars == <<first, sender, receiver, sent, passed, state>>

Gone == {"closed", "reset"}

Init ==
  /\ first \in 0 .. 2
  /\ sender = "open" /\ receiver = "open"
  /\ sent = 0
  /\ passed = <<>>
  /\ state = "setup"

Write ==
  /\ sender = "open" /\ sent' = sent + 1
  /\ UNCHANGED <<first, sender, receiver, passed, state>>

\* How an end may develop.
Departs(was, is) == was = is \/ was = "open" \/ (was = "half" /\ is \in Gone)

Depart ==
  /\ Departs(sender, sender') /\ Departs(receiver, receiver')
  /\ UNCHANGED <<first, sent, passed, state>>

\* The next n bytes, in order, and none that was not written.
PassOn(n) ==
  /\ receiver \notin Gone
  /\ first + Len(passed) + n <= sent + 1
  /\ passed' = passed \o [i \in 1 .. n |-> first + Len(passed) + i - 1]

Pass ==
  /\ state \in {"setup", "joined"}
  /\ \E n \in 1 .. sent + 1 : PassOn(n)
  /\ UNCHANGED <<first, sender, receiver, sent, state>>

Join ==
  /\ state = "setup" /\ state' = "joined"
  /\ (\E n \in 1 .. sent + 1 : PassOn(n)) \/ UNCHANGED passed
  /\ UNCHANGED <<first, sender, receiver, sent>>

Refuse ==
  /\ state = "setup" /\ state' = "refused"
  /\ UNCHANGED <<first, sender, receiver, sent, passed>>

AllPassed == first + Len(passed) = sent + 1

End ==
  /\ state = "joined" /\ state' = "ended"
  /\ \/ receiver \in Gone
     \/ sender = "reset"
     \/ sender # "open" /\ AllPassed
  /\ UNCHANGED <<first, sender, receiver, sent, passed>>

Next == Write \/ Depart \/ Pass \/ Join \/ Refuse \/ End

\* A joined channel passes on what was written, unless the sender aborts, and
\* ends when the sender has ended.
Spec ==
  /\ Init /\ [][Next]_vars
  /\ WF_vars(state = "joined" /\ sender # "reset" /\ Pass)
  /\ WF_vars(sender # "open" /\ End)

=============================================================================

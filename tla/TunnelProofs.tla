--------------------------- MODULE TunnelProofs ---------------------------
(* Theorems about Tunnel, for streams of any length, and that each direction *)
(* of it implements a ByteChannel.                                           *)
EXTENDS TunnelRefinement, SequenceTheorems, TLAPS

-----------------------------------------------------------------------------
(* Runs of consecutive numbers                                               *)

Run(s, k) == \A i \in 1 .. Len(s) : s[i] = k + i - 1

\* The next number of a run extends it.
LEMMA RunAppend ==
  ASSUME NEW s \in Seq(Nat), NEW k \in Nat, Run(s, k)
  PROVE  /\ Run(Append(s, k + Len(s)), k)
         /\ Len(Append(s, k + Len(s))) = Len(s) + 1
  BY DEF Run

\* Adjacent runs make a run.
LEMMA RunConcat ==
  ASSUME NEW s \in Seq(Nat), NEW t \in Seq(Nat), NEW k \in Nat,
         Run(s, k), Run(t, k + Len(s))
  PROVE  Run(s \o t, k) /\ Len(s \o t) = Len(s) + Len(t)
  BY DEF Run

\* A part of a run is a run.
LEMMA RunSubSeq ==
  ASSUME NEW s \in Seq(Nat), NEW k \in Nat, Run(s, k),
         NEW m \in 1 .. Len(s) + 1, NEW n \in (m - 1) .. Len(s)
  PROVE  /\ Run(SubSeq(s, m, n), k + m - 1)
         /\ Len(SubSeq(s, m, n)) = n - m + 1
<1>1. /\ Len(SubSeq(s, m, n)) = n - m + 1
      /\ \A i \in 1 .. n - m + 1 : SubSeq(s, m, n)[i] = s[m + i - 1]
  BY SubSeqProperties
<1> QED
  BY <1>1 DEF Run

\* A read splits a run in two; the request head is its first byte.
LEMMA RunSplit ==
  ASSUME NEW s \in Seq(Nat), NEW k \in Nat, Run(s, k), NEW n \in 1 .. Len(s)
  PROVE  /\ Run(SubSeq(s, 1, n), k) /\ Len(SubSeq(s, 1, n)) = n
         /\ Run(SubSeq(s, 2, n), k + 1) /\ Len(SubSeq(s, 2, n)) = n - 1
         /\ Run(SubSeq(s, n + 1, Len(s)), k + n)
         /\ Len(SubSeq(s, n + 1, Len(s))) = Len(s) - n
<1>1. Run(SubSeq(s, 1, n), k + 1 - 1) /\ Len(SubSeq(s, 1, n)) = n - 1 + 1
  BY RunSubSeq
<1>2. Run(SubSeq(s, 2, n), k + 2 - 1) /\ Len(SubSeq(s, 2, n)) = n - 2 + 1
  BY RunSubSeq
<1>3. /\ Run(SubSeq(s, n + 1, Len(s)), k + (n + 1) - 1)
      /\ Len(SubSeq(s, n + 1, Len(s))) = Len(s) - (n + 1) + 1
  <2> DEFINE m == n + 1
             l == Len(s)
  <2>1. m \in 1 .. Len(s) + 1 /\ l \in (m - 1) .. Len(s)
    OBVIOUS
  <2> HIDE DEF m, l
  <2>2. /\ Run(SubSeq(s, m, l), k + m - 1)
        /\ Len(SubSeq(s, m, l)) = l - m + 1
    BY <2>1, RunSubSeq
  <2> QED
    BY <2>2 DEF m, l
<1>4. k + 1 - 1 = k /\ k + 2 - 1 = k + 1 /\ k + (n + 1) - 1 = k + n
  OBVIOUS
<1> QED
  BY <1>1, <1>2, <1>3, <1>4

\* The proxy's own head is the whole of what it is written after nothing.
LEMMA HeadAlone == <<>> \o <<0>> = <<0>> /\ <<>> \o <<1>> = <<1>>
<1>1. <<0>> \in Seq(Nat) /\ <<1>> \in Seq(Nat)
  OBVIOUS
<1> QED
  BY <1>1, ConcatEmptySeq, Zenon

\* A run is determined by its beginning and its length.
LEMMA RunIsInterval ==
  ASSUME NEW s \in Seq(Nat), NEW k \in Nat, Run(s, k)
  PROVE  s = [i \in 1 .. Len(s) |-> k + i - 1]
  BY LenProperties DEF Run

\* Both parts of a read are byte sequences.
LEMMA SplitType ==
  ASSUME NEW s \in Seq(1 .. MaxBytes), NEW n \in 1 .. Len(s)
  PROVE  /\ SubSeq(s, 1, n) \in Seq(1 .. MaxBytes)
         /\ SubSeq(s, 2, n) \in Seq(1 .. MaxBytes)
         /\ SubSeq(s, n + 1, Len(s)) \in Seq(1 .. MaxBytes)
<1>1. \A i \in 1 .. Len(s) : s[i] \in 1 .. MaxBytes
  BY ElementOfSeq
<1>2. \A m \in 1 .. Len(s) + 1, k \in 0 .. Len(s) :
        \A i \in m .. k : s[i] \in 1 .. MaxBytes
  BY <1>1
<1>3. \A m \in 1 .. Len(s) + 1, k \in 0 .. Len(s) :
        SubSeq(s, m, k) \in Seq(1 .. MaxBytes)
  BY <1>2, SubSeqProperties
<1> QED
  BY <1>3

\* Bytes are numbers, and what a receiver accepts may include byte 0.
LEMMA BytesAreNumbers ==
  /\ \A s \in Seq(1 .. MaxBytes) : s \in Seq(Nat) /\ s \in Seq(0 .. MaxBytes)
  /\ \A s \in Seq(0 .. MaxBytes) : s \in Seq(Nat)
  BY MaxBytesAssumption

-----------------------------------------------------------------------------
(* Type correctness                                                          *)

\* What a write leaves at the receiver has its type.
LEMMA AcceptType ==
  ASSUME TypeOK, NEW d \in Directions, NEW bs \in Seq(0 .. MaxBytes), Accept(d, bs)
  PROVE  got' \in [Directions -> Seq(0 .. MaxBytes)]
<1>1. got[d] \o bs \in Seq(0 .. MaxBytes)
  BY ConcatProperties, Zenon DEF TypeOK
<1> QED
  BY <1>1 DEF Accept, TypeOK

\* The initial state is well typed, and every step keeps it so.
LEMMA TypeInit == Init => TypeOK
  BY MaxBytesAssumption, EmptySeq DEF Init, TypeOK, Directions, Peers, Gone

\* Every step keeps the types.
LEMMA TypeNext == TypeOK /\ [Next]_vars => TypeOK'
<1> SUFFICES ASSUME TypeOK, [Next]_vars PROVE TypeOK'
  OBVIOUS
<1> USE MaxBytesAssumption DEF TypeOK, relayVars, Peers, Directions, Gone, Return
<1>1. ASSUME NEW d \in Directions, Send(d) PROVE TypeOK'
  <2>1. sent[d] + 1 \in 1 .. MaxBytes
    <3>1. sent[d] \in 0 .. MaxBytes
      OBVIOUS
    <3>2. sent[d] < MaxBytes
      BY <1>1 DEF Send
    <3> QED
      BY <3>1, <3>2, MaxBytesAssumption
  <2>2. Append(wire[d], sent[d] + 1) \in Seq(1 .. MaxBytes)
    BY <2>1, AppendProperties, Zenon
  <2> QED
    BY <1>1, <2>1, <2>2 DEF Send
<1>2. ASSUME NEW p \in Peers, NEW how \in {"half", "closed"}, ShutDown(p, how)
      PROVE TypeOK'
  BY <1>2 DEF ShutDown
<1>3. ASSUME NEW p \in Peers, Reset(p) PROVE TypeOK'
  <2>1. <<>> \in Seq(1 .. MaxBytes)
    BY EmptySeq
  <2> QED
    BY <1>3, <2>1 DEF Reset
<1>4. CASE ReadRequest
  <2>1. PICK n \in 1 .. Len(wire["up"]) :
          /\ buf' = SubSeq(wire["up"], 2, n)
          /\ wire' = [wire EXCEPT !["up"] = SubSeq(@, n + 1, Len(@))]
    BY <1>4 DEF ReadRequest
  <2> wire["up"] \in Seq(1 .. MaxBytes)
    OBVIOUS
  <2>2. /\ SubSeq(wire["up"], 2, n) \in Seq(1 .. MaxBytes)
        /\ SubSeq(wire["up"], n + 1, Len(wire["up"])) \in Seq(1 .. MaxBytes)
    BY SplitType, Zenon
  <2> QED
    BY <1>4, <2>1, <2>2 DEF ReadRequest
<1>5. CASE ReadRequestFails
  BY <1>5 DEF ReadRequestFails
<1>6. CASE Deny
  BY <1>6 DEF Deny
<1>7. CASE Dial
  BY <1>7 DEF Dial
<1>8. CASE DialFails
  BY <1>8 DEF DialFails
<1>9. CASE WriteEstablishedFails
  BY <1>9 DEF WriteEstablishedFails
<1>10. CASE Hijack
  BY <1>10 DEF Hijack
<1>11. CASE WriteRequestLineFails
  BY <1>11 DEF WriteRequestLineFails
<1>12. CASE FlushPreludeFails
  BY <1>12 DEF FlushPreludeFails
<1>13. CASE RelayReturns
  BY <1>13 DEF RelayReturns
<1>14. CASE WriteEstablished
  <2>1. <<0>> \in Seq(0 .. MaxBytes)
    BY BytesAreNumbers
  <2>2. got' \in [Directions -> Seq(0 .. MaxBytes)]
    BY <1>14, <2>1, AcceptType DEF WriteEstablished
  <2> QED
    BY <1>14, <2>2 DEF WriteEstablished
<1>15. CASE WriteRequestLine
  <2>1. <<1>> \in Seq(0 .. MaxBytes)
    BY BytesAreNumbers
  <2>2. got' \in [Directions -> Seq(0 .. MaxBytes)]
    BY <1>15, <2>1, AcceptType DEF WriteRequestLine
  <2> QED
    BY <1>15, <2>2 DEF WriteRequestLine
<1>16. CASE FlushPrelude
  <2>1. buf \in Seq(0 .. MaxBytes)
    BY BytesAreNumbers
  <2>2. got' \in [Directions -> Seq(0 .. MaxBytes)]
    BY <1>16, <2>1, AcceptType DEF FlushPrelude
  <2> QED
    BY <1>16, <2>2, EmptySeq DEF FlushPrelude
<1>17. ASSUME NEW d \in Directions, CopyRead(d) PROVE TypeOK'
  <2>1. PICK n \in 1 .. Len(wire[d]) :
          /\ held' = [held EXCEPT ![d] = SubSeq(wire[d], 1, n)]
          /\ wire' = [wire EXCEPT ![d] = SubSeq(@, n + 1, Len(@))]
    BY <1>17 DEF CopyRead
  <2> wire[d] \in Seq(1 .. MaxBytes)
    OBVIOUS
  <2>2. /\ SubSeq(wire[d], 1, n) \in Seq(1 .. MaxBytes)
        /\ SubSeq(wire[d], n + 1, Len(wire[d])) \in Seq(1 .. MaxBytes)
    BY SplitType, Zenon
  <2> QED
    BY <1>17, <2>1, <2>2 DEF CopyRead
<1>18. ASSUME NEW d \in Directions, CopyWrite(d) PROVE TypeOK'
  <2>1. held[d] \in Seq(0 .. MaxBytes)
    BY BytesAreNumbers
  <2>2. got' \in [Directions -> Seq(0 .. MaxBytes)]
    BY <1>18, <2>1, AcceptType DEF CopyWrite
  <2> QED
    BY <1>18, <2>2, EmptySeq DEF CopyWrite
<1>19. ASSUME NEW d \in Directions, CopyEnds(d) PROVE TypeOK'
  <2>1. copier' \in [Directions -> {"idle", "copy", "done"}]
    BY <1>19 DEF CopyEnds, CopyReturns
  <2>2. eof' \in [Directions -> BOOLEAN]
    BY <1>19, Zenon DEF CopyEnds, CopyReturns
  <2> QED
    BY <1>19, <2>1, <2>2 DEF CopyEnds
<1>20. CASE UNCHANGED vars
  BY <1>20 DEF vars
<1> QED
  BY <1>1, <1>2, <1>3, <1>4, <1>5, <1>6, <1>7, <1>8, <1>9, <1>10, <1>11, <1>12,
     <1>13, <1>14, <1>15, <1>16, <1>17, <1>18, <1>19, <1>20
  DEF Next, PeerStep, Establish, Copy

\* The handler and the relay keep their variables in TypeOK for streams of any
\* length.
THEOREM TypeCorrect == Spec => []TypeOK
  BY TypeInit, TypeNext, PTL DEF Spec

-----------------------------------------------------------------------------
(* The streams                                                               *)

Before == {"head", "checked", "reply", "hijack", "replay"}
Setup == Before \cup {"flush"}

\* The number of the byte the receiver of d gets next.
Pos(d) == First(d) + Len(got[d])

\* Until the relay starts, the bytes of each direction are in the buffer and on
\* the wire, and only the proxy's own head has been passed on.
SetupInv ==
  /\ pc \in Before => \A d \in Directions : got[d] = <<>>
  /\ pc \in Setup => \A d \in Directions : copier[d] = "idle"
  /\ \A d \in Directions : copier[d] = "idle" => held[d] = <<>>
  /\ pc = "reply" => kind = "connect"
  /\ pc \in {"hijack", "replay"} => kind = "stream"

HeadInv ==
  pc = "head" =>
    /\ buf = <<>> /\ Run(wire["up"], 1)
    /\ peer["client"] # "reset" => sent["up"] = Len(wire["up"])

BufferInv ==
  pc \in Setup \ {"head"} =>
    /\ Run(buf, 2) /\ Run(wire["up"], 2 + Len(buf))
    /\ peer["client"] # "reset" => sent["up"] = 1 + Len(buf) + Len(wire["up"])

DownInv ==
  pc \in Setup =>
    /\ Run(wire["down"], 1)
    /\ peer["upstream"] # "reset" => sent["down"] = Len(wire["down"])

FlushInv ==
  pc = "flush" =>
    /\ peer["upstream"] \notin Gone => Pos("up") = 2
    /\ peer["client"] \notin Gone => Pos("down") = 1

\* In the relay, what is held and what is on the wire follow what was passed on,
\* up to the last byte sent unless the sender aborted.
RelayInv ==
  \A d \in Directions :
    copier[d] # "idle" /\ peer[Dst(d)] \notin Gone =>
      /\ Run(held[d], Pos(d)) /\ Run(wire[d], Pos(d) + Len(held[d]))
      /\ peer[Src(d)] # "reset" =>
           Pos(d) + Len(held[d]) + Len(wire[d]) = sent[d] + 1

StreamInv ==
  /\ InOrder /\ SetupInv /\ HeadInv /\ BufferInv /\ DownInv /\ FlushInv /\ RelayInv

\* InOrder says that what a receiver got is a run.
LEMMA InOrderIsRun ==
  TypeOK => (InOrder <=> \A d \in Directions : Run(got[d], First(d)))
  BY LenProperties DEF TypeOK, InOrder, Run

\* The empty sequence is a run.
LEMMA EmptyRun == \A k : Run(<<>>, k)
  BY DEF Run

\* The streams start empty ...
LEMMA StreamInit == Init => StreamInv
<1> SUFFICES ASSUME Init PROVE StreamInv
  OBVIOUS
<1> USE DEF Init, Directions, Peers
<1>1. InOrder
  BY DEF InOrder
<1>2. SetupInv /\ HeadInv /\ BufferInv /\ DownInv /\ FlushInv /\ RelayInv
  BY EmptyRun DEF SetupInv, HeadInv, BufferInv, DownInv, FlushInv, RelayInv, Before,
     Setup
<1> QED
  BY <1>1, <1>2 DEF StreamInv

\* ... and every step keeps them in order.
LEMMA StreamNext == TypeOK /\ TypeOK' /\ StreamInv /\ [Next]_vars => StreamInv'
<1> SUFFICES ASSUME TypeOK, TypeOK', StreamInv, [Next]_vars PROVE StreamInv'
  OBVIOUS
<1> USE DEF StreamInv, relayVars, Src, Dst
<1>t. /\ kind \in {"connect", "stream"}
      /\ wire \in [Directions -> Seq(Nat)] /\ held \in [Directions -> Seq(Nat)]
      /\ got \in [Directions -> Seq(Nat)] /\ buf \in Seq(Nat)
      /\ sent \in [Directions -> Nat]
      /\ peer \in [Peers -> {"open", "half"} \cup Gone]
      /\ copier \in [Directions -> {"idle", "copy", "done"}]
  BY BytesAreNumbers, MaxBytesAssumption DEF TypeOK
<1>f. \A d \in Directions : First(d) \in Nat
  BY DEF First
<1>g. \A d \in Directions : Run(got[d], First(d))
  BY InOrderIsRun
<1>h. ASSUME \A d \in Directions : Run(got'[d], First(d)') PROVE InOrder'
  BY <1>h, LenProperties DEF TypeOK, InOrder, Run
<1>1. ASSUME NEW d \in Directions, Send(d) PROVE StreamInv'
  <2>1. /\ wire' = [wire EXCEPT ![d] = Append(wire[d], sent[d] + 1)]
        /\ sent' = [sent EXCEPT ![d] = sent[d] + 1]
        /\ peer[Src(d)] = "open"
        /\ UNCHANGED <<kind, pc, peer, buf, got, copier, held>>
    BY <1>1 DEF Send
  <2>2. \A k \in Nat : Run(wire[d], k) /\ sent[d] + 1 = k + Len(wire[d])
          => Run(wire'[d], k) /\ Len(wire'[d]) = Len(wire[d]) + 1
    BY <2>1, <1>t, RunAppend
  <2>3. InOrder' /\ SetupInv' /\ FlushInv'
    BY <2>1 DEF InOrder, SetupInv, FlushInv, First, Pos
  <2>4. HeadInv'
    BY <2>1, <2>2, <1>t DEF HeadInv, Directions
  <2>5. BufferInv'
    <3> SUFFICES ASSUME pc \in Setup \ {"head"} PROVE BufferInv'
      BY <2>1 DEF BufferInv
    <3>1. CASE d = "up"
      <4>1. /\ Run(buf, 2) /\ Run(wire["up"], 2 + Len(buf)) /\ 2 + Len(buf) \in Nat
            /\ sent["up"] + 1 = (2 + Len(buf)) + Len(wire["up"])
        <5>1. peer["client"] # "reset"
          BY <2>1, <3>1
        <5>2. /\ Run(buf, 2) /\ Run(wire["up"], 2 + Len(buf))
              /\ sent["up"] = 1 + Len(buf) + Len(wire["up"])
          BY <5>1, Zenon DEF BufferInv
        <5>3. /\ 2 + Len(buf) \in Nat
              /\ (1 + Len(buf) + Len(wire["up"])) + 1 = (2 + Len(buf)) + Len(wire["up"])
          BY <1>t DEF Directions
        <5> QED
          BY <5>2, <5>3, Zenon
      <4>2. /\ Run(wire'["up"], 2 + Len(buf))
            /\ Len(wire'["up"]) = Len(wire["up"]) + 1
        BY <2>2, <3>1, <4>1
      <4> QED
        BY <2>1, <3>1, <4>1, <4>2, <1>t DEF BufferInv, Directions
    <3>2. CASE d = "down"
      BY <2>1, <3>2, <1>t DEF BufferInv, Directions
    <3> QED
      BY <3>1, <3>2 DEF Directions
  <2>6. DownInv'
    BY <2>1, <2>2, <1>t DEF DownInv, Directions
  <2>7. RelayInv'
    <3> SUFFICES ASSUME NEW e \in Directions,
                        copier[e] # "idle", peer[Dst(e)] \notin Gone
                 PROVE  /\ Run(held[e], Pos(e)) /\ Run(wire'[e], Pos(e) + Len(held[e]))
                        /\ peer[Src(e)] # "reset" =>
                             Pos(e) + Len(held[e]) + Len(wire'[e]) = sent'[e] + 1
      BY <2>1 DEF RelayInv, Pos, First
    <3>1. CASE e = d
      <4>1. /\ Run(held[d], Pos(d)) /\ Run(wire[d], Pos(d) + Len(held[d]))
            /\ Pos(d) + Len(held[d]) + Len(wire[d]) = sent[d] + 1
        BY <2>1, <3>1 DEF RelayInv
      <4>2. Pos(d) \in Nat /\ Pos(d) + Len(held[d]) \in Nat
        BY <1>t, <1>f DEF Pos
      <4>3. /\ Run(wire'[d], Pos(d) + Len(held[d]))
            /\ Len(wire'[d]) = Len(wire[d]) + 1
        BY <2>2, <4>1, <4>2
      <4> QED
        BY <2>1, <3>1, <4>1, <4>2, <4>3, <1>t
    <3>2. CASE e # d
      BY <2>1, <3>2, <1>t DEF RelayInv
    <3> QED
      BY <3>1, <3>2
  <2> QED
    BY <2>3, <2>4, <2>5, <2>6, <2>7
<1>2. ASSUME NEW p \in Peers, NEW how \in {"half", "closed"}, ShutDown(p, how)
      PROVE StreamInv'
  BY <1>2, <1>t DEF ShutDown, InOrder, SetupInv, HeadInv, BufferInv, DownInv,
       FlushInv, RelayInv, Pos, First, Gone, Peers, Directions
<1>3. ASSUME NEW p \in Peers, Reset(p) PROVE StreamInv'
  <2>1. /\ peer' = [peer EXCEPT ![p] = "reset"]
        /\ wire' = [d \in Directions |-> IF Src(d) = p THEN <<>> ELSE wire[d]]
        /\ UNCHANGED <<kind, pc, sent, buf, got, copier, held>>
    BY <1>3 DEF Reset
  <2>2. InOrder' /\ SetupInv'
    BY <2>1 DEF InOrder, SetupInv, First
  <2>2f. FlushInv'
    BY <2>1, <1>t DEF FlushInv, First, Pos, Peers, Gone
  <2>3. HeadInv' /\ BufferInv' /\ DownInv'
    BY <2>1, <1>t, EmptyRun DEF HeadInv, BufferInv, DownInv, Directions, Peers
  <2>4. RelayInv'
    BY <2>1, <1>t, EmptyRun DEF RelayInv, Pos, First, Directions, Peers, Gone
  <2> QED
    BY <2>2, <2>2f, <2>3, <2>4
<1>4. CASE ReadRequest
  <2>1. PICK n \in 1 .. Len(wire["up"]) :
          /\ buf' = SubSeq(wire["up"], 2, n)
          /\ wire' = [wire EXCEPT !["up"] = SubSeq(@, n + 1, Len(@))]
    BY <1>4 DEF ReadRequest
  <2>2. /\ pc = "head" /\ pc' = "checked"
        /\ UNCHANGED <<kind, peer, sent, got, copier, held>>
    BY <1>4 DEF ReadRequest
  <2>3. wire["up"] \in Seq(Nat) /\ Run(wire["up"], 1)
    BY <2>2, <1>t DEF HeadInv, Directions
  <2>4. /\ Run(buf', 1 + 1) /\ Len(buf') = n - 1
        /\ Run(SubSeq(wire["up"], n + 1, Len(wire["up"])), 1 + n)
        /\ Len(SubSeq(wire["up"], n + 1, Len(wire["up"]))) = Len(wire["up"]) - n
    BY <2>1, <2>3, RunSplit
  <2>5. /\ Run(wire'["up"], 1 + n) /\ Len(wire'["up"]) = Len(wire["up"]) - n
        /\ wire'["down"] = wire["down"]
    BY <2>1, <2>4, <1>t DEF Directions
  <2>6. BufferInv'
    BY <2>2, <2>4, <2>5, <1>t DEF BufferInv, HeadInv, Directions
  <2>7. DownInv'
    BY <2>2, <2>5 DEF DownInv, Setup, Before
  <2>8. InOrder' /\ SetupInv' /\ HeadInv' /\ FlushInv' /\ RelayInv'
    BY <2>2 DEF InOrder, First, SetupInv, HeadInv, FlushInv, RelayInv, Setup, Before
  <2> QED
    BY <2>6, <2>7, <2>8
<1>5. CASE ReadRequestFails
  BY <1>5 DEF ReadRequestFails, Return, InOrder, SetupInv, HeadInv, BufferInv, DownInv,
       FlushInv, RelayInv, Pos, First, Setup, Before
<1>6. CASE Deny
  BY <1>6 DEF Deny, Return, InOrder, SetupInv, HeadInv, BufferInv, DownInv,
       FlushInv, RelayInv, Pos, First, Setup, Before
<1>7. CASE DialFails
  BY <1>7 DEF DialFails, Return, InOrder, SetupInv, HeadInv, BufferInv, DownInv,
       FlushInv, RelayInv, Pos, First, Setup, Before
<1>8. CASE WriteEstablishedFails
  BY <1>8 DEF WriteEstablishedFails, Return, InOrder, SetupInv, HeadInv, BufferInv,
     DownInv,
       FlushInv, RelayInv, Pos, First, Setup, Before
<1>9. CASE WriteRequestLineFails
  BY <1>9 DEF WriteRequestLineFails, Return, InOrder, SetupInv, HeadInv, BufferInv,
     DownInv,
       FlushInv, RelayInv, Pos, First, Setup, Before
<1>10. CASE FlushPreludeFails
  BY <1>10 DEF FlushPreludeFails, Return, InOrder, SetupInv, HeadInv, BufferInv,
     DownInv,
       FlushInv, RelayInv, Pos, First, Setup, Before
<1>11. CASE RelayReturns
  BY <1>11 DEF RelayReturns, Return, InOrder, SetupInv, HeadInv, BufferInv, DownInv,
       FlushInv, RelayInv, Pos, First, Setup, Before
<1>12. CASE Dial
  BY <1>12, <1>t DEF Dial, InOrder, SetupInv, HeadInv, BufferInv, DownInv,
       FlushInv, RelayInv, Pos, First, Setup, Before
<1>13. CASE Hijack
  BY <1>13 DEF Hijack, Return, InOrder, SetupInv, HeadInv, BufferInv, DownInv,
       FlushInv, RelayInv, Pos, First, Setup, Before
<1>14. CASE WriteEstablished
  <2>1. /\ pc = "reply" /\ pc' = "flush" /\ Accept("down", <<0>>)
        /\ UNCHANGED <<kind, peer, sent, wire, buf, copier, held>>
    BY <1>14 DEF WriteEstablished
  <2>2. /\ got'["up"] = <<>>
        /\ got'["down"] = IF peer[Dst("down")] \in Gone THEN <<>> ELSE <<0>>
    BY <2>1, <1>t, HeadAlone DEF Accept, SetupInv, Before, Directions
  <2>3. InOrder'
    BY <2>1, <2>2 DEF InOrder, First, SetupInv, Directions
  <2>4. FlushInv'
    BY <2>1, <2>2 DEF FlushInv, Pos, First, SetupInv
  <2>5. SetupInv' /\ HeadInv' /\ BufferInv' /\ DownInv' /\ RelayInv'
    BY <2>1 DEF SetupInv, HeadInv, BufferInv, DownInv, RelayInv, Setup, Before
  <2> QED
    BY <2>3, <2>4, <2>5
<1>15. CASE WriteRequestLine
  <2>1. /\ pc = "replay" /\ pc' = "flush" /\ Accept("up", <<1>>)
        /\ UNCHANGED <<kind, peer, sent, wire, buf, copier, held>>
    BY <1>15 DEF WriteRequestLine
  <2>2. /\ got'["down"] = <<>>
        /\ got'["up"] = IF peer[Dst("up")] \in Gone THEN <<>> ELSE <<1>>
    BY <2>1, <1>t, HeadAlone DEF Accept, SetupInv, Before, Directions
  <2>3. InOrder'
    BY <2>1, <2>2 DEF InOrder, First, SetupInv, Directions
  <2>4. FlushInv'
    BY <2>1, <2>2 DEF FlushInv, Pos, First, SetupInv
  <2>5. SetupInv' /\ HeadInv' /\ BufferInv' /\ DownInv' /\ RelayInv'
    BY <2>1 DEF SetupInv, HeadInv, BufferInv, DownInv, RelayInv, Setup, Before
  <2> QED
    BY <2>3, <2>4, <2>5
<1>16. CASE FlushPrelude
  <2>1. /\ pc = "flush" /\ pc' = "relay" /\ Accept("up", buf)
        /\ UNCHANGED <<kind, peer, sent, wire, held>>
    BY <1>16 DEF FlushPrelude
  <2>2. /\ got'["down"] = got["down"]
        /\ got'["up"] = IF peer["upstream"] \in Gone THEN got["up"] ELSE got["up"] \o buf
    BY <2>1, <1>t DEF Accept, Directions
  <2>3. peer["upstream"] \notin Gone =>
          Run(got'["up"], First("up")) /\ Len(got'["up"]) = Len(got["up"]) + Len(buf)
    <3> SUFFICES ASSUME peer["upstream"] \notin Gone
                 PROVE  /\ Run(got["up"] \o buf, First("up"))
                        /\ Len(got["up"] \o buf) = Len(got["up"]) + Len(buf)
      BY <2>2
    <3>1. Run(got["up"], First("up")) /\ Run(buf, First("up") + Len(got["up"]))
      BY <2>1, <1>g DEF FlushInv, BufferInv, Pos, Setup, Directions
    <3>2. got["up"] \in Seq(Nat) /\ First("up") \in Nat
      BY <1>t, <1>f DEF Directions
    <3> QED
      BY <3>1, <3>2, <1>t, RunConcat, Zenon
  <2>4. InOrder'
    BY <2>1, <2>2, <2>3, <1>g, <1>h DEF First, Directions
  <2>5. RelayInv'
    <3>0. /\ Pos("up")' = First("up") + Len(got'["up"])
          /\ Pos("down")' = First("down") + Len(got'["down"])
      BY <2>1 DEF Pos, First
    <3>n. First("up") \in Nat /\ Len(got["up"]) \in Nat /\ Len(buf) \in Nat
      BY <1>t, <1>f DEF Directions
    <3>b. /\ Run(wire["up"], 2 + Len(buf))
          /\ peer["client"] # "reset" => sent["up"] = 1 + Len(buf) + Len(wire["up"])
      BY <2>1 DEF BufferInv, Setup
    <3>p. peer["upstream"] \notin Gone => Pos("up")' = 2 + Len(buf)
      BY <2>1, <2>3, <3>0, <3>n DEF FlushInv, Pos
    <3>1. peer["upstream"] \notin Gone =>
            /\ Pos("up")' = 2 + Len(buf) /\ Run(wire["up"], 2 + Len(buf))
            /\ peer["client"] # "reset" => sent["up"] = 1 + Len(buf) + Len(wire["up"])
      BY <3>b, <3>p
    <3>2. peer["client"] \notin Gone =>
            /\ Pos("down")' = 1 /\ Run(wire["down"], 1)
            /\ peer["upstream"] # "reset" => sent["down"] = Len(wire["down"])
      BY <2>1, <2>2, <3>0 DEF FlushInv, DownInv, Pos, Setup
    <3>3. \A d \in Directions : held'[d] = <<>> /\ Len(held'[d]) = 0
      BY <2>1 DEF SetupInv, Setup
    <3> QED
      BY <2>1, <3>1, <3>2, <3>3, <1>t, EmptyRun DEF RelayInv, Directions
  <2>6. SetupInv'
    BY <1>16, <2>1 DEF FlushPrelude, SetupInv, Setup, Before, Directions
  <2>7. HeadInv' /\ BufferInv' /\ DownInv' /\ FlushInv'
    BY <2>1 DEF HeadInv, BufferInv, DownInv, FlushInv, Setup, Before
  <2> QED
    BY <2>4, <2>5, <2>6, <2>7
<1>17. ASSUME NEW d \in Directions, CopyRead(d) PROVE StreamInv'
  <2>1. PICK n \in 1 .. Len(wire[d]) :
          /\ held' = [held EXCEPT ![d] = SubSeq(wire[d], 1, n)]
          /\ wire' = [wire EXCEPT ![d] = SubSeq(@, n + 1, Len(@))]
    BY <1>17 DEF CopyRead
  <2>2. /\ copier[d] = "copy" /\ held[d] = <<>>
        /\ UNCHANGED <<kind, pc, peer, sent, buf, copier, got>>
    BY <1>17 DEF CopyRead
  <2>3. pc \notin Setup
    BY <2>2 DEF SetupInv
  <2>4. \A q \in Nat : Run(wire[d], q) =>
          /\ Run(held'[d], q) /\ Len(held'[d]) = n
          /\ Run(wire'[d], q + n) /\ Len(wire'[d]) = Len(wire[d]) - n
    <3> wire[d] \in Seq(Nat)
      BY <1>t
    <3>1. \A q \in Nat : Run(wire[d], q) =>
            /\ Run(SubSeq(wire[d], 1, n), q) /\ Len(SubSeq(wire[d], 1, n)) = n
            /\ Run(SubSeq(wire[d], n + 1, Len(wire[d])), q + n)
            /\ Len(SubSeq(wire[d], n + 1, Len(wire[d]))) = Len(wire[d]) - n
      BY RunSplit
    <3> QED
      BY <2>1, <3>1, <1>t
  <2>5. RelayInv'
    <3> SUFFICES ASSUME NEW e \in Directions,
                        copier[e] # "idle", peer[Dst(e)] \notin Gone
                 PROVE  /\ Run(held'[e], Pos(e)) /\ Run(wire'[e], Pos(e) + Len(held'[e]))
                        /\ peer[Src(e)] # "reset" =>
                             Pos(e) + Len(held'[e]) + Len(wire'[e]) = sent[e] + 1
      BY <2>2 DEF RelayInv, Pos, First
    <3>1. CASE e = d
      <4>0. Len(held[d]) = 0 /\ Len(got[d]) \in Nat /\ First(d) \in Nat
        BY <2>2, <1>t, <1>f
      <4>1. Pos(d) \in Nat /\ Pos(d) + Len(held[d]) = Pos(d)
        BY <4>0 DEF Pos
      <4>2. /\ Run(wire[d], Pos(d))
            /\ peer[Src(d)] # "reset" => Pos(d) + Len(wire[d]) = sent[d] + 1
        BY <2>2, <3>1, <4>0, <4>1 DEF RelayInv
      <4>3. /\ Run(held'[d], Pos(d)) /\ Len(held'[d]) = n
            /\ Run(wire'[d], Pos(d) + n) /\ Len(wire'[d]) = Len(wire[d]) - n
        BY <2>4, <4>1, <4>2
      <4>4. Len(wire[d]) \in Nat /\ sent[d] \in Nat
        BY <1>t
      <4> QED
        BY <3>1, <4>1, <4>2, <4>3, <4>4
    <3>2. CASE e # d
      BY <2>1, <3>2, <1>t DEF RelayInv
    <3> QED
      BY <3>1, <3>2
  <2>6. InOrder' /\ SetupInv' /\ HeadInv' /\ BufferInv' /\ DownInv' /\ FlushInv'
    BY <2>1, <2>2, <2>3, <1>t
    DEF InOrder, First, SetupInv, HeadInv, BufferInv, DownInv, FlushInv, Setup, Before
  <2> QED
    BY <2>5, <2>6
<1>18. ASSUME NEW d \in Directions, CopyWrite(d) PROVE StreamInv'
  <2>1. /\ copier[d] = "copy" /\ Accept(d, held[d])
        /\ held' = [held EXCEPT ![d] = <<>>]
        /\ UNCHANGED <<kind, pc, peer, sent, wire, buf, copier>>
    BY <1>18 DEF CopyWrite
  <2>2. /\ \A e \in Directions : e # d => got'[e] = got[e] /\ held'[e] = held[e]
        /\ got'[d] = IF peer[Dst(d)] \in Gone THEN got[d] ELSE got[d] \o held[d]
        /\ held'[d] = <<>>
    BY <2>1, <1>t DEF Accept
  <2>3. pc \notin Setup
    BY <2>1 DEF SetupInv
  <2>4. peer[Dst(d)] \notin Gone =>
          Run(got'[d], First(d)) /\ Len(got'[d]) = Len(got[d]) + Len(held[d])
    <3> SUFFICES ASSUME peer[Dst(d)] \notin Gone
                 PROVE  /\ Run(got[d] \o held[d], First(d))
                        /\ Len(got[d] \o held[d]) = Len(got[d]) + Len(held[d])
      BY <2>2
    <3>1. Run(got[d], First(d)) /\ Run(held[d], First(d) + Len(got[d]))
      BY <2>1, <1>g DEF RelayInv, Pos
    <3>2. got[d] \in Seq(Nat) /\ held[d] \in Seq(Nat) /\ First(d) \in Nat
      BY <1>t, <1>f
    <3> QED
      BY <3>1, <3>2, RunConcat, Zenon
  <2>5. InOrder'
    BY <2>1, <2>2, <2>4, <1>g, <1>h DEF First
  <2>6. RelayInv'
    <3> SUFFICES ASSUME NEW e \in Directions,
                        copier[e] # "idle", peer[Dst(e)] \notin Gone
                 PROVE  /\ Run(held'[e], Pos(e)') /\ Run(wire[e], Pos(e)' + Len(held'[e]))
                        /\ peer[Src(e)] # "reset" =>
                             Pos(e)' + Len(held'[e]) + Len(wire[e]) = sent[e] + 1
      BY <2>1 DEF RelayInv
    <3>1. CASE e = d
      <4>1. /\ Pos(d)' = Pos(d) + Len(held[d]) /\ Pos(d)' \in Nat
            /\ held'[d] = <<>> /\ Len(held'[d]) = 0 /\ Pos(d)' + 0 = Pos(d)'
        BY <2>1, <2>2, <2>4, <3>1, <1>t, <1>f DEF Pos, First
      <4> QED
        BY <3>1, <4>1, <1>t, EmptyRun DEF RelayInv
    <3>2. CASE e # d
      BY <2>1, <2>2, <3>2 DEF RelayInv, Pos, First
    <3> QED
      BY <3>1, <3>2
  <2>7. SetupInv' /\ HeadInv' /\ BufferInv' /\ DownInv' /\ FlushInv'
    BY <2>1, <2>2, <2>3
    DEF SetupInv, HeadInv, BufferInv, DownInv, FlushInv, Setup, Before
  <2> QED
    BY <2>5, <2>6, <2>7
<1>19. ASSUME NEW d \in Directions, CopyEnds(d) PROVE StreamInv'
  <2>1. /\ copier[d] = "copy" /\ copier' = [copier EXCEPT ![d] = "done"]
        /\ UNCHANGED <<kind, pc, peer, sent, wire, buf, held, got>>
    BY <1>19 DEF CopyEnds, CopyReturns
  <2>2. pc \notin Setup
    BY <2>1 DEF SetupInv
  <2> QED
    BY <2>1, <2>2, <1>t DEF InOrder, SetupInv, HeadInv, BufferInv, DownInv, FlushInv,
         RelayInv, Pos, First, Setup, Before
<1>20. CASE UNCHANGED vars
  <2>1. UNCHANGED <<kind, pc, peer, sent, wire, buf, held, got, copier>>
    BY <1>20 DEF vars
  <2>2. InOrder' /\ SetupInv' /\ HeadInv' /\ BufferInv'
    BY <2>1 DEF InOrder, SetupInv, HeadInv, BufferInv, First
  <2>3. DownInv' /\ FlushInv'
    BY <2>1 DEF DownInv, FlushInv, Pos, First
  <2>4. RelayInv'
    BY <2>1 DEF RelayInv, Pos, First
  <2> QED
    BY <2>2, <2>3, <2>4
<1> QED
  BY <1>1, <1>2, <1>3, <1>4, <1>5, <1>6, <1>7, <1>8, <1>9, <1>10, <1>11, <1>12,
     <1>13, <1>14, <1>15, <1>16, <1>17, <1>18, <1>19, <1>20
  DEF Next, PeerStep, Establish, Copy

\* The inductive invariant holds throughout.
THEOREM StreamInvariant == Spec => []StreamInv
  BY TypeCorrect, StreamInit, StreamNext, PTL DEF Spec

\* Receivers get the bytes of the sender in order, without gaps or repetitions,
\* whatever the sizes of the reads, for streams of any length: nothing of the
\* head reader's buffer is dropped or overtaken by the relay.
THEOREM InOrderHolds == Spec => []InOrder
  BY StreamInvariant, PTL DEF StreamInv

\* In the relay, what was passed on, held and unread is all that was sent, as
\* long as the receiver is there and the sender did not abort.
THEOREM NothingLostHolds == Spec => []NothingLost
<1>1. TypeOK /\ StreamInv => NothingLost
  <2> SUFFICES ASSUME TypeOK, StreamInv, NEW d \in Directions, copier[d] # "idle",
                      peer[Dst(d)] \notin Gone, peer[Src(d)] # "reset"
               PROVE  got[d] \o held[d] \o wire[d] =
                        [i \in 1 .. sent[d] + 1 - First(d) |-> First(d) + i - 1]
    BY DEF NothingLost
  <2>1. /\ got[d] \in Seq(Nat) /\ held[d] \in Seq(Nat) /\ wire[d] \in Seq(Nat)
        /\ sent[d] \in Nat /\ First(d) \in Nat
    BY BytesAreNumbers, MaxBytesAssumption DEF TypeOK, First
  <2>2. /\ Run(got[d], First(d)) /\ Run(held[d], First(d) + Len(got[d]))
        /\ Run(wire[d], First(d) + Len(got[d]) + Len(held[d]))
        /\ First(d) + Len(got[d]) + Len(held[d]) + Len(wire[d]) = sent[d] + 1
    BY InOrderIsRun DEF StreamInv, RelayInv, Pos
  <2>l. Len(got[d]) \in Nat /\ Len(held[d]) \in Nat /\ Len(wire[d]) \in Nat
    BY <2>1, LenProperties, Zenon
  <2>p. PICK f \in Nat, g \in Nat, h \in Nat, w \in Nat, n \in Nat :
          /\ f = First(d) /\ n = sent[d]
          /\ g = Len(got[d]) /\ h = Len(held[d]) /\ w = Len(wire[d])
    BY <2>1, <2>l, Zenon
  <2>q. f + g + h + w = n + 1
    BY <2>2, <2>p, Zenon
  <2>r. f + g + h = f + (g + h) /\ (g + h) + w = n + 1 - f
    BY <2>q
  <2> DEFINE gh == got[d] \o held[d]
  <2>3. /\ gh \in Seq(Nat) /\ Run(gh, First(d))
        /\ Len(gh) = Len(got[d]) + Len(held[d])
    <3>1. Run(gh, First(d)) /\ Len(gh) = Len(got[d]) + Len(held[d])
      BY <2>1, <2>2, RunConcat, Zenon
    <3>2. gh \in Seq(Nat)
      BY <2>1, ConcatProperties, Zenon
    <3> QED
      BY <3>1, <3>2
  <2>4. Run(wire[d], First(d) + Len(gh))
    BY <2>2, <2>3, <2>p, <2>r, Zenon
  <2> HIDE DEF gh
  <2>5. /\ gh \o wire[d] \in Seq(Nat) /\ Run(gh \o wire[d], First(d))
        /\ Len(gh \o wire[d]) = Len(gh) + Len(wire[d])
    <3>1. /\ Run(gh \o wire[d], First(d))
          /\ Len(gh \o wire[d]) = Len(gh) + Len(wire[d])
      BY <2>1, <2>3, <2>4, RunConcat, Zenon
    <3>2. gh \o wire[d] \in Seq(Nat)
      BY <2>1, <2>3, ConcatProperties, Zenon
    <3> QED
      BY <3>1, <3>2
  <2>6. Len(gh \o wire[d]) = sent[d] + 1 - First(d)
    BY <2>3, <2>5, <2>p, <2>r, Zenon
  <2>7. gh \o wire[d] = [i \in 1 .. Len(gh \o wire[d]) |-> First(d) + i - 1]
    BY <2>1, <2>5, RunIsInterval, Zenon
  <2> QED
    BY <2>6, <2>7, Zenon DEF gh
<1> QED
  BY <1>1, TypeCorrect, StreamInvariant, PTL

-----------------------------------------------------------------------------
(* The ends                                                                  *)

\* A direction that is done had nothing left to pass on, or nobody to pass it to.
EndInv ==
  /\ \A d \in Directions : eof[d] => copier[d] = "done"
  /\ pc = "end" => \A d \in Directions : copier[d] # "copy"
  /\ \A d \in Directions : copier[d] = "done" /\ peer[Dst(d)] \notin Gone =>
       peer[Src(d)] # "open" /\ held[d] = <<>> /\ wire[d] = <<>>

\* Every step keeps EndInv.
LEMMA EndNext ==
  TypeOK /\ SetupInv /\ EndInv /\ [Next]_vars => EndInv'
<1> SUFFICES ASSUME TypeOK, SetupInv, EndInv, [Next]_vars PROVE EndInv'
  OBVIOUS
<1> USE DEF EndInv, relayVars, Src, Dst
<1>t. /\ wire \in [Directions -> Seq(1 .. MaxBytes)]
      /\ held \in [Directions -> Seq(1 .. MaxBytes)]
      /\ peer \in [Peers -> {"open", "half"} \cup Gone]
      /\ copier \in [Directions -> {"idle", "copy", "done"}]
      /\ eof \in [Directions -> BOOLEAN]
  BY DEF TypeOK
<1>1. ASSUME NEW d \in Directions, Send(d) PROVE EndInv'
  BY <1>1, <1>t DEF Send, Directions
<1>2. ASSUME NEW p \in Peers, NEW how \in {"half", "closed"}, ShutDown(p, how)
      PROVE EndInv'
  BY <1>2, <1>t DEF ShutDown, Peers, Directions, Gone
<1>3. ASSUME NEW p \in Peers, Reset(p) PROVE EndInv'
  BY <1>3, <1>t DEF Reset, Peers, Directions, Gone
<1>4. CASE ReadRequest
  BY <1>4, <1>t DEF ReadRequest, Return, SetupInv, Setup, Before, Directions
<1>5. CASE ReadRequestFails
  BY <1>5, <1>t DEF ReadRequestFails, Return, SetupInv, Setup, Before, Directions
<1>6. CASE Deny
  BY <1>6, <1>t DEF Deny, Return, SetupInv, Setup, Before, Directions
<1>7. CASE Dial
  BY <1>7, <1>t DEF Dial, Return, SetupInv, Setup, Before, Directions
<1>8. CASE DialFails
  BY <1>8, <1>t DEF DialFails, Return, SetupInv, Setup, Before, Directions
<1>9. CASE WriteEstablished
  BY <1>9, <1>t DEF WriteEstablished, Return, SetupInv, Setup, Before, Directions
<1>10. CASE WriteEstablishedFails
  BY <1>10, <1>t DEF WriteEstablishedFails, Return, SetupInv, Setup, Before, Directions
<1>11. CASE Hijack
  BY <1>11, <1>t DEF Hijack, Return, SetupInv, Setup, Before, Directions
<1>12. CASE WriteRequestLine
  BY <1>12, <1>t DEF WriteRequestLine, Return, SetupInv, Setup, Before, Directions
<1>13. CASE WriteRequestLineFails
  BY <1>13, <1>t DEF WriteRequestLineFails, Return, SetupInv, Setup, Before, Directions
<1>14. CASE FlushPreludeFails
  BY <1>14, <1>t DEF FlushPreludeFails, Return, SetupInv, Setup, Before, Directions
<1>15. CASE FlushPrelude
  BY <1>15, <1>t DEF FlushPrelude, SetupInv, Setup, Before, Directions
<1>16. CASE RelayReturns
  BY <1>16, <1>t DEF RelayReturns, WaitsFor, Return
<1>17. ASSUME NEW d \in Directions, CopyRead(d) PROVE EndInv'
  BY <1>17, <1>t DEF CopyRead
<1>18. ASSUME NEW d \in Directions, CopyWrite(d) PROVE EndInv'
  BY <1>18, <1>t DEF CopyWrite
<1>19. ASSUME NEW d \in Directions, CopyEnds(d) PROVE EndInv'
  BY <1>19, <1>t DEF CopyEnds, CopyReturns, CannotWrite
<1>20. CASE UNCHANGED vars
  BY <1>20 DEF vars
<1> QED
  BY <1>1, <1>2, <1>3, <1>4, <1>5, <1>6, <1>7, <1>8, <1>9, <1>10, <1>11, <1>12,
     <1>13, <1>14, <1>15, <1>16, <1>17, <1>18, <1>19, <1>20
  DEF Next, PeerStep, Establish, Copy

\* A direction that has ended had a reason to, in every behaviour.
LEMMA EndInvariant == Spec => []EndInv
<1>1. Init => EndInv
  BY DEF Init, EndInv
<1>2. StreamInv => SetupInv
  BY DEF StreamInv
<1> QED
  BY <1>1, <1>2, EndNext, TypeCorrect, StreamInvariant, PTL DEF Spec

\* A receiver that is still there is told of the end, or loses the connection,
\* only after the sender ended and everything it wrote was passed on.
THEOREM EndAfterDataHolds == Spec => []EndAfterData
<1>1. TypeOK /\ StreamInv /\ EndInv => EndAfterData
  <2> SUFFICES ASSUME TypeOK, StreamInv, EndInv, NEW d \in Directions,
                      eof[d] \/ (pc = "end" /\ copier[d] # "idle"),
                      peer[Dst(d)] \notin Gone
               PROVE  /\ peer[Src(d)] # "open" /\ held[d] = <<>>
                      /\ peer[Src(d)] # "reset" => Len(got[d]) = sent[d] + 1 - First(d)
    BY DEF EndAfterData
  <2>1. copier[d] = "done"
    BY DEF EndInv, TypeOK
  <2>2. peer[Src(d)] # "open" /\ held[d] = <<>> /\ wire[d] = <<>>
    BY <2>1 DEF EndInv
  <2>3. peer[Src(d)] # "reset" => Pos(d) + Len(held[d]) + Len(wire[d]) = sent[d] + 1
    BY <2>1 DEF StreamInv, RelayInv
  <2>4. got[d] \in Seq(0 .. MaxBytes) /\ sent[d] \in Nat /\ First(d) \in Nat
    BY MaxBytesAssumption DEF TypeOK, First
  <2> QED
    BY <2>2, <2>3, <2>4 DEF Pos
<1> QED
  BY <1>1, EndInvariant, TypeCorrect, StreamInvariant, PTL

\* Every return of handle and handleStreaming closes what it opened.
THEOREM NoLeakHolds == Spec => []NoLeak
<1>1. Init => NoLeak
  BY DEF Init, NoLeak
<1>2. TypeOK /\ NoLeak /\ [Next]_vars => NoLeak'
  <2> SUFFICES ASSUME TypeOK, NoLeak, [Next]_vars PROVE NoLeak'
    OBVIOUS
  <2> USE DEF NoLeak, Peers
  <2>1. CASE PeerStep
    BY <2>1 DEF PeerStep, Send, ShutDown, Reset
  <2>2. CASE Establish
    BY <2>2 DEF Establish, ReadRequest, ReadRequestFails, Deny, Dial, DialFails,
         WriteEstablished, WriteEstablishedFails, Hijack, WriteRequestLine,
         WriteRequestLineFails, FlushPrelude, FlushPreludeFails, Return, TypeOK
  <2>3. ASSUME NEW d \in Directions, Copy(d) PROVE NoLeak'
    BY <2>3 DEF Copy, CopyRead, CopyWrite, CopyEnds
  <2>4. CASE RelayReturns
    BY <2>4 DEF RelayReturns, Return
  <2>5. CASE UNCHANGED vars
    BY <2>5 DEF vars
  <2> QED
    BY <2>1, <2>2, <2>3, <2>4, <2>5 DEF Next
<1> QED
  BY <1>1, <1>2, TypeCorrect, PTL DEF Spec

-----------------------------------------------------------------------------
(* Each direction implements a ByteChannel: the initial states map to        *)
(* initial states and every step maps to a step of the channel or a stutter. *)

\* Both instances at once.
C(d) == INSTANCE ByteChannel WITH
  first <- First(d), sender <- peer[Src(d)], receiver <- peer[Dst(d)],
  sent <- sent[d], passed <- got[d], state <- ChannelState(d)

-----------------------------------------------------------------------------
(* The inductive invariant                                                  *)

\* How many bytes are where.
Sent(d) == sent[d]
OnWire(d) == Len(wire[d])
InBuffer == Len(buf)
InHand(d) == Len(held[d])
Passed(d) == Len(got[d])

\* No byte is on its way that was not sent, whether the sender aborted or not.
SetupWithin ==
  /\ pc = "head" => OnWire("up") <= Sent("up")
  /\ pc \in Setup \ {"head"} => 1 + InBuffer + OnWire("up") <= Sent("up")
  /\ pc \in Setup => OnWire("down") <= Sent("down")

RelayWithin ==
  \A d \in Directions :
    copier[d] # "idle" /\ peer[Dst(d)] \notin Gone =>
      First(d) + Passed(d) + InHand(d) + OnWire(d) <= Sent(d) + 1

\* A goroutine that is done has told the receiver.
DoneIsTold == \A d \in Directions : copier[d] = "done" => eof[d]

ChannelInv == SetupWithin /\ RelayWithin /\ DoneIsTold

\* What the other invariants of the tunnel say.
TunnelInv == TypeOK /\ StreamInv /\ EndInv

\* They hold in every reachable state.
LEMMA TunnelInvariant == Spec => []TunnelInv
  BY TypeCorrect, StreamInvariant, EndInvariant, PTL DEF TunnelInv

\* The types, with bytes as numbers.
LEMMA Types ==
  ASSUME TypeOK
  PROVE  /\ kind \in {"connect", "stream"}
         /\ wire \in [Directions -> Seq(Nat)] /\ held \in [Directions -> Seq(Nat)]
         /\ got \in [Directions -> Seq(Nat)] /\ buf \in Seq(Nat)
         /\ sent \in [Directions -> Nat]
         /\ \A d \in Directions : First(d) \in Nat
  BY BytesAreNumbers, MaxBytesAssumption DEF TypeOK, First

\* The lengths of the parts of a read and of an extended sequence.
LEMMA Lengths ==
  ASSUME NEW s \in Seq(Nat)
  PROVE  /\ Len(s) \in Nat /\ (s = <<>> <=> Len(s) = 0)
         /\ \A b \in Nat : Len(Append(s, b)) = Len(s) + 1
         /\ \A t \in Seq(Nat) : Len(s \o t) = Len(s) + Len(t)
         /\ \A n \in 1 .. Len(s) :
              /\ Len(SubSeq(s, 1, n)) = n /\ Len(SubSeq(s, 2, n)) = n - 1
              /\ Len(SubSeq(s, n + 1, Len(s))) = Len(s) - n
<1>1. \A n \in 1 .. Len(s) :
        /\ Len(SubSeq(s, 1, n)) = n /\ Len(SubSeq(s, 2, n)) = n - 1
        /\ Len(SubSeq(s, n + 1, Len(s))) = Len(s) - n
  <2> SUFFICES ASSUME NEW n \in 1 .. Len(s)
               PROVE  /\ Len(SubSeq(s, 1, n)) = n /\ Len(SubSeq(s, 2, n)) = n - 1
                      /\ Len(SubSeq(s, n + 1, Len(s))) = Len(s) - n
    OBVIOUS
  <2>1. Len(s) \in Nat
    BY LenProperties
  <2>2. \A m \in 1 .. Len(s) + 1 : \A k \in (m - 1) .. Len(s) :
          Len(SubSeq(s, m, k)) = k - m + 1
    BY <2>1, SubSeqProperties
  <2> QED
    BY <2>1, <2>2
<1>2. \A t \in Seq(Nat) : Len(s \o t) = Len(s) + Len(t)
  BY ConcatProperties
<1>3. Len(s) \in Nat /\ (s = <<>> <=> Len(s) = 0)
  BY LenProperties, EmptySeq
<1>4. \A b \in Nat : Len(Append(s, b)) = Len(s) + 1
  BY AppendProperties
<1> QED
  BY <1>1, <1>2, <1>3, <1>4

\* Initially nothing is on its way.
LEMMA ChannelInvInit == Init => ChannelInv
  BY DEF Init, ChannelInv, SetupWithin, RelayWithin, DoneIsTold, Directions, Setup, Before,
     Sent, OnWire, InHand, Passed

\* Bytes move on; none appears that was not sent.
LEMMA ChannelInvNext ==
  TunnelInv /\ ChannelInv /\ [Next]_vars => ChannelInv'
<1> SUFFICES ASSUME TunnelInv, ChannelInv, [Next]_vars PROVE ChannelInv'
  OBVIOUS
<1>t. /\ kind \in {"connect", "stream"} /\ pc \in Setup \cup {"relay", "end"}
      /\ wire \in [Directions -> Seq(Nat)] /\ held \in [Directions -> Seq(Nat)]
      /\ got \in [Directions -> Seq(Nat)] /\ buf \in Seq(Nat)
      /\ sent \in [Directions -> Nat] /\ copier \in [Directions -> {"idle", "copy", "done"}]
      /\ eof \in [Directions -> BOOLEAN] /\ peer \in [Peers -> {"open", "half"} \cup Gone]
  BY Types DEF TunnelInv, TypeOK, Setup, Before
<1>l. /\ \A d \in Directions : /\ Sent(d) \in Nat /\ OnWire(d) \in Nat
                                 /\ InHand(d) \in Nat /\ Passed(d) \in Nat
      /\ InBuffer \in Nat
  BY <1>t, Lengths DEF Sent, OnWire, InHand, Passed, InBuffer
<1>d. /\ Directions = {"up", "down"} /\ \A d \in Directions : First(d) \in Nat
      /\ Dst("up") = "upstream" /\ Dst("down") = "client"
      /\ \A d \in Directions : Dst(d) \in Peers
  BY DEF Dst, Directions, Peers, First
<1>u. /\ pc \in Setup => copier["up"] = "idle" /\ copier["down"] = "idle"
      /\ pc \in Setup => InHand("up") = 0 /\ InHand("down") = 0
      /\ pc = "flush" =>
           /\ peer["upstream"] \notin Gone => First("up") + Passed("up") = 2
           /\ peer["client"] \notin Gone => First("down") + Passed("down") = 1
  BY <1>d, <1>t, Lengths DEF TunnelInv, StreamInv, SetupInv, FlushInv, Pos, Passed, InHand
<1>c. SetupWithin /\ RelayWithin /\ DoneIsTold
  BY DEF ChannelInv
<1> HIDE DEF Sent, OnWire, InHand, Passed, InBuffer
<1>1. ASSUME NEW d \in Directions, Send(d) PROVE ChannelInv'
  <2>1. OnWire(d)' = OnWire(d) + 1 /\ Sent(d)' = Sent(d) + 1
    BY <1>1, <1>t, Lengths DEF Send, OnWire, Sent
  <2>2. \A e \in Directions : e # d => OnWire(e)' = OnWire(e) /\ Sent(e)' = Sent(e)
    BY <1>1, <1>t DEF Send, OnWire, Sent
  <2>3. /\ \A e \in Directions : /\ Passed(e)' = Passed(e) /\ InHand(e)' = InHand(e)
                                   /\ First(e)' = First(e)
        /\ InBuffer' = InBuffer /\ UNCHANGED <<pc, peer, copier, eof>>
    BY <1>1 DEF Send, relayVars, Passed, InHand, First, InBuffer
  <2>7. SetupWithin'
    BY <2>1, <2>2, <2>3, <1>l, <1>d, <1>u, <1>c DEF SetupWithin, Setup, Before
  <2>8. RelayWithin'
    BY <2>1, <2>2, <2>3, <1>l, <1>d, <1>u, <1>c DEF RelayWithin
  <2>9. DoneIsTold'
    BY <2>1, <2>2, <2>3, <1>c DEF DoneIsTold
  <2> QED
    BY <2>7, <2>8, <2>9 DEF ChannelInv
<1>2. ASSUME NEW p \in Peers, NEW how \in {"half", "closed"}, ShutDown(p, how)
      PROVE ChannelInv'
  <2>1. /\ \A e \in Directions :
             /\ Sent(e)' = Sent(e) /\ Passed(e)' = Passed(e) /\ InHand(e)' = InHand(e)
             /\ First(e)' = First(e) /\ OnWire(e)' <= OnWire(e) /\ OnWire(e)' \in Nat
        /\ InBuffer' = InBuffer /\ UNCHANGED <<pc, copier, eof>>
    BY <1>2, <1>l, <1>t, Lengths DEF ShutDown, relayVars, Sent, OnWire, Passed, InHand, First, InBuffer
  <2>2. \A q \in Peers : peer'[q] \notin Gone => peer[q] \notin Gone
    BY <1>2, <1>t DEF ShutDown, Gone
  <2>7. SetupWithin'
    BY <2>1, <2>2, <1>l, <1>d, <1>u, <1>c DEF SetupWithin, Setup, Before
  <2>8. RelayWithin'
    BY <2>1, <2>2, <1>l, <1>d, <1>u, <1>c DEF RelayWithin
  <2>9. DoneIsTold'
    BY <2>1, <2>2, <1>c DEF DoneIsTold
  <2> QED
    BY <2>7, <2>8, <2>9 DEF ChannelInv
<1>3. ASSUME NEW p \in Peers, Reset(p) PROVE ChannelInv'
  <2>1. /\ \A e \in Directions :
             /\ Sent(e)' = Sent(e) /\ Passed(e)' = Passed(e) /\ InHand(e)' = InHand(e)
             /\ First(e)' = First(e) /\ OnWire(e)' <= OnWire(e) /\ OnWire(e)' \in Nat
        /\ InBuffer' = InBuffer /\ UNCHANGED <<pc, copier, eof>>
    BY <1>3, <1>l, <1>t, Lengths DEF Reset, relayVars, Sent, OnWire, Passed, InHand, First, InBuffer
  <2>2. \A q \in Peers : peer'[q] \notin Gone => peer[q] \notin Gone
    BY <1>3, <1>t DEF Reset, Gone
  <2>7. SetupWithin'
    BY <2>1, <2>2, <1>l, <1>d, <1>u, <1>c DEF SetupWithin, Setup, Before
  <2>8. RelayWithin'
    BY <2>1, <2>2, <1>l, <1>d, <1>u, <1>c DEF RelayWithin
  <2>9. DoneIsTold'
    BY <2>1, <2>2, <1>c DEF DoneIsTold
  <2> QED
    BY <2>7, <2>8, <2>9 DEF ChannelInv
<1>4. CASE ReadRequest
  <2>1. PICK m \in 1 .. Len(wire["up"]) :
          /\ buf' = SubSeq(wire["up"], 2, m)
          /\ wire' = [wire EXCEPT !["up"] = SubSeq(wire["up"], m + 1, Len(wire["up"]))]
    BY <1>4 DEF ReadRequest
  <2>2. /\ InBuffer' = m - 1 /\ OnWire("up")' = OnWire("up") - m
        /\ OnWire("down")' = OnWire("down") /\ m \in Nat
    BY <2>1, <1>t, <1>d, Lengths DEF InBuffer, OnWire
  <2>3. /\ pc = "head" /\ pc' = "checked" /\ UNCHANGED <<peer, copier, eof>>
        /\ \A e \in Directions : Sent(e)' = Sent(e)
    BY <1>4 DEF ReadRequest, relayVars, Sent
  <2>4. \A e \in Directions : copier'[e] = "idle"
    BY <2>3, <1>u, <1>d DEF Setup, Before
  <2>7. SetupWithin'
    BY <2>2, <2>3, <2>4, <1>l, <1>d, <1>u, <1>c DEF SetupWithin, Setup, Before
  <2>8. RelayWithin'
    BY <2>2, <2>3, <2>4, <1>l, <1>d, <1>u, <1>c DEF RelayWithin
  <2>9. DoneIsTold'
    BY <2>2, <2>3, <2>4, <1>c DEF DoneIsTold
  <2> QED
    BY <2>7, <2>8, <2>9 DEF ChannelInv
<1>5. CASE ReadRequestFails
  <2>1. /\ \A e \in Directions : Sent(e)' = Sent(e) /\ OnWire(e)' = OnWire(e)
        /\ InBuffer' = InBuffer /\ UNCHANGED <<copier, eof>>
        /\ pc \in Setup /\ pc' \in (Setup \ {"head"}) \cup {"end"} /\ (pc = "head" => pc' = "end")
    BY <1>5 DEF ReadRequestFails, Return, relayVars, Sent, OnWire, InBuffer, Setup, Before
  <2>2. \A e \in Directions : copier'[e] = "idle"
    BY <2>1, <1>u, <1>d
  <2>7. SetupWithin'
    BY <2>1, <2>2, <1>l, <1>d, <1>u, <1>c DEF SetupWithin, Setup, Before
  <2>8. RelayWithin'
    BY <2>1, <2>2, <1>l, <1>d, <1>u, <1>c DEF RelayWithin
  <2>9. DoneIsTold'
    BY <2>1, <2>2, <1>c DEF DoneIsTold
  <2> QED
    BY <2>7, <2>8, <2>9 DEF ChannelInv
<1>6. CASE Deny
  <2>1. /\ \A e \in Directions : Sent(e)' = Sent(e) /\ OnWire(e)' = OnWire(e)
        /\ InBuffer' = InBuffer /\ UNCHANGED <<copier, eof>>
        /\ pc \in Setup /\ pc' \in (Setup \ {"head"}) \cup {"end"} /\ (pc = "head" => pc' = "end")
    BY <1>6 DEF Deny, Return, relayVars, Sent, OnWire, InBuffer, Setup, Before
  <2>2. \A e \in Directions : copier'[e] = "idle"
    BY <2>1, <1>u, <1>d
  <2>7. SetupWithin'
    BY <2>1, <2>2, <1>l, <1>d, <1>u, <1>c DEF SetupWithin, Setup, Before
  <2>8. RelayWithin'
    BY <2>1, <2>2, <1>l, <1>d, <1>u, <1>c DEF RelayWithin
  <2>9. DoneIsTold'
    BY <2>1, <2>2, <1>c DEF DoneIsTold
  <2> QED
    BY <2>7, <2>8, <2>9 DEF ChannelInv
<1>7. CASE Dial
  <2>1. /\ \A e \in Directions : Sent(e)' = Sent(e) /\ OnWire(e)' = OnWire(e)
        /\ InBuffer' = InBuffer /\ UNCHANGED <<copier, eof>>
        /\ pc \in Setup /\ pc' \in (Setup \ {"head"}) \cup {"end"} /\ (pc = "head" => pc' = "end")
    BY <1>7 DEF Dial, relayVars, Sent, OnWire, InBuffer, Setup, Before
  <2>2. \A e \in Directions : copier'[e] = "idle"
    BY <2>1, <1>u, <1>d
  <2>7. SetupWithin'
    BY <2>1, <2>2, <1>l, <1>d, <1>u, <1>c DEF SetupWithin, Setup, Before
  <2>8. RelayWithin'
    BY <2>1, <2>2, <1>l, <1>d, <1>u, <1>c DEF RelayWithin
  <2>9. DoneIsTold'
    BY <2>1, <2>2, <1>c DEF DoneIsTold
  <2> QED
    BY <2>7, <2>8, <2>9 DEF ChannelInv
<1>8. CASE DialFails
  <2>1. /\ \A e \in Directions : Sent(e)' = Sent(e) /\ OnWire(e)' = OnWire(e)
        /\ InBuffer' = InBuffer /\ UNCHANGED <<copier, eof>>
        /\ pc \in Setup /\ pc' \in (Setup \ {"head"}) \cup {"end"} /\ (pc = "head" => pc' = "end")
    BY <1>8 DEF DialFails, Return, relayVars, Sent, OnWire, InBuffer, Setup, Before
  <2>2. \A e \in Directions : copier'[e] = "idle"
    BY <2>1, <1>u, <1>d
  <2>7. SetupWithin'
    BY <2>1, <2>2, <1>l, <1>d, <1>u, <1>c DEF SetupWithin, Setup, Before
  <2>8. RelayWithin'
    BY <2>1, <2>2, <1>l, <1>d, <1>u, <1>c DEF RelayWithin
  <2>9. DoneIsTold'
    BY <2>1, <2>2, <1>c DEF DoneIsTold
  <2> QED
    BY <2>7, <2>8, <2>9 DEF ChannelInv
<1>9. CASE WriteEstablished
  <2>1. /\ \A e \in Directions : Sent(e)' = Sent(e) /\ OnWire(e)' = OnWire(e)
        /\ InBuffer' = InBuffer /\ UNCHANGED <<copier, eof>>
        /\ pc \in Setup /\ pc' \in (Setup \ {"head"}) \cup {"end"} /\ (pc = "head" => pc' = "end")
    BY <1>9 DEF WriteEstablished, relayVars, Sent, OnWire, InBuffer, Setup, Before
  <2>2. \A e \in Directions : copier'[e] = "idle"
    BY <2>1, <1>u, <1>d
  <2>7. SetupWithin'
    BY <2>1, <2>2, <1>l, <1>d, <1>u, <1>c DEF SetupWithin, Setup, Before
  <2>8. RelayWithin'
    BY <2>1, <2>2, <1>l, <1>d, <1>u, <1>c DEF RelayWithin
  <2>9. DoneIsTold'
    BY <2>1, <2>2, <1>c DEF DoneIsTold
  <2> QED
    BY <2>7, <2>8, <2>9 DEF ChannelInv
<1>10. CASE WriteEstablishedFails
  <2>1. /\ \A e \in Directions : Sent(e)' = Sent(e) /\ OnWire(e)' = OnWire(e)
        /\ InBuffer' = InBuffer /\ UNCHANGED <<copier, eof>>
        /\ pc \in Setup /\ pc' \in (Setup \ {"head"}) \cup {"end"} /\ (pc = "head" => pc' = "end")
    BY <1>10 DEF WriteEstablishedFails, Return, relayVars, Sent, OnWire, InBuffer, Setup, Before
  <2>2. \A e \in Directions : copier'[e] = "idle"
    BY <2>1, <1>u, <1>d
  <2>7. SetupWithin'
    BY <2>1, <2>2, <1>l, <1>d, <1>u, <1>c DEF SetupWithin, Setup, Before
  <2>8. RelayWithin'
    BY <2>1, <2>2, <1>l, <1>d, <1>u, <1>c DEF RelayWithin
  <2>9. DoneIsTold'
    BY <2>1, <2>2, <1>c DEF DoneIsTold
  <2> QED
    BY <2>7, <2>8, <2>9 DEF ChannelInv
<1>11. CASE Hijack
  <2>1. /\ \A e \in Directions : Sent(e)' = Sent(e) /\ OnWire(e)' = OnWire(e)
        /\ InBuffer' = InBuffer /\ UNCHANGED <<copier, eof>>
        /\ pc \in Setup /\ pc' \in (Setup \ {"head"}) \cup {"end"} /\ (pc = "head" => pc' = "end")
    BY <1>11 DEF Hijack, Return, relayVars, Sent, OnWire, InBuffer, Setup, Before
  <2>2. \A e \in Directions : copier'[e] = "idle"
    BY <2>1, <1>u, <1>d
  <2>7. SetupWithin'
    BY <2>1, <2>2, <1>l, <1>d, <1>u, <1>c DEF SetupWithin, Setup, Before
  <2>8. RelayWithin'
    BY <2>1, <2>2, <1>l, <1>d, <1>u, <1>c DEF RelayWithin
  <2>9. DoneIsTold'
    BY <2>1, <2>2, <1>c DEF DoneIsTold
  <2> QED
    BY <2>7, <2>8, <2>9 DEF ChannelInv
<1>12. CASE WriteRequestLine
  <2>1. /\ \A e \in Directions : Sent(e)' = Sent(e) /\ OnWire(e)' = OnWire(e)
        /\ InBuffer' = InBuffer /\ UNCHANGED <<copier, eof>>
        /\ pc \in Setup /\ pc' \in (Setup \ {"head"}) \cup {"end"} /\ (pc = "head" => pc' = "end")
    BY <1>12 DEF WriteRequestLine, relayVars, Sent, OnWire, InBuffer, Setup, Before
  <2>2. \A e \in Directions : copier'[e] = "idle"
    BY <2>1, <1>u, <1>d
  <2>7. SetupWithin'
    BY <2>1, <2>2, <1>l, <1>d, <1>u, <1>c DEF SetupWithin, Setup, Before
  <2>8. RelayWithin'
    BY <2>1, <2>2, <1>l, <1>d, <1>u, <1>c DEF RelayWithin
  <2>9. DoneIsTold'
    BY <2>1, <2>2, <1>c DEF DoneIsTold
  <2> QED
    BY <2>7, <2>8, <2>9 DEF ChannelInv
<1>13. CASE WriteRequestLineFails
  <2>1. /\ \A e \in Directions : Sent(e)' = Sent(e) /\ OnWire(e)' = OnWire(e)
        /\ InBuffer' = InBuffer /\ UNCHANGED <<copier, eof>>
        /\ pc \in Setup /\ pc' \in (Setup \ {"head"}) \cup {"end"} /\ (pc = "head" => pc' = "end")
    BY <1>13 DEF WriteRequestLineFails, Return, relayVars, Sent, OnWire, InBuffer, Setup, Before
  <2>2. \A e \in Directions : copier'[e] = "idle"
    BY <2>1, <1>u, <1>d
  <2>7. SetupWithin'
    BY <2>1, <2>2, <1>l, <1>d, <1>u, <1>c DEF SetupWithin, Setup, Before
  <2>8. RelayWithin'
    BY <2>1, <2>2, <1>l, <1>d, <1>u, <1>c DEF RelayWithin
  <2>9. DoneIsTold'
    BY <2>1, <2>2, <1>c DEF DoneIsTold
  <2> QED
    BY <2>7, <2>8, <2>9 DEF ChannelInv
<1>14. CASE FlushPreludeFails
  <2>1. /\ \A e \in Directions : Sent(e)' = Sent(e) /\ OnWire(e)' = OnWire(e)
        /\ InBuffer' = InBuffer /\ UNCHANGED <<copier, eof>>
        /\ pc \in Setup /\ pc' \in (Setup \ {"head"}) \cup {"end"} /\ (pc = "head" => pc' = "end")
    BY <1>14 DEF FlushPreludeFails, Return, relayVars, Sent, OnWire, InBuffer, Setup, Before
  <2>2. \A e \in Directions : copier'[e] = "idle"
    BY <2>1, <1>u, <1>d
  <2>7. SetupWithin'
    BY <2>1, <2>2, <1>l, <1>d, <1>u, <1>c DEF SetupWithin, Setup, Before
  <2>8. RelayWithin'
    BY <2>1, <2>2, <1>l, <1>d, <1>u, <1>c DEF RelayWithin
  <2>9. DoneIsTold'
    BY <2>1, <2>2, <1>c DEF DoneIsTold
  <2> QED
    BY <2>7, <2>8, <2>9 DEF ChannelInv
<1>15. CASE FlushPrelude
  <2>1. /\ pc = "flush" /\ pc' = "relay" /\ UNCHANGED <<peer, eof>>
        /\ copier' = [d \in Directions |-> "copy"]
        /\ \A e \in Directions : /\ Sent(e)' = Sent(e) /\ OnWire(e)' = OnWire(e)
                                   /\ InHand(e)' = InHand(e) /\ First(e)' = First(e)
    BY <1>15 DEF FlushPrelude, Sent, OnWire, InHand, First
  <2>2. /\ Passed("down")' = Passed("down")
        /\ peer["upstream"] \notin Gone => Passed("up")' = Passed("up") + InBuffer
    BY <1>15, <1>t, <1>d, Lengths DEF FlushPrelude, Accept, Passed, InBuffer
  <2>3. /\ 1 + InBuffer + OnWire("up") <= Sent("up") /\ OnWire("down") <= Sent("down")
        /\ InHand("up") = 0 /\ InHand("down") = 0
    BY <2>1, <1>u, <1>c DEF SetupWithin, Setup, Before
  <2>4. /\ Passed("down") \in Nat /\ Passed("up") \in Nat /\ InBuffer \in Nat
        /\ First("up") \in Nat /\ First("down") \in Nat
    BY <1>l, <1>d
  <2>5. RelayWithin'
    BY <2>1, <2>2, <2>3, <2>4, <1>l, <1>d, <1>u DEF RelayWithin
  <2>6. SetupWithin' /\ DoneIsTold'
    BY <2>1 DEF SetupWithin, DoneIsTold, Setup, Before
  <2> QED
    BY <2>5, <2>6 DEF ChannelInv
<1>16. ASSUME NEW d \in Directions, CopyRead(d) PROVE ChannelInv'
  <2>1. \E m \in Nat : /\ InHand(d)' = m /\ OnWire(d)' = OnWire(d) - m /\ InHand(d) = 0
    <3>1. PICK m \in 1 .. Len(wire[d]) :
            /\ held' = [held EXCEPT ![d] = SubSeq(wire[d], 1, m)]
            /\ wire' = [wire EXCEPT ![d] = SubSeq(wire[d], m + 1, Len(wire[d]))]
      BY <1>16 DEF CopyRead
    <3>2. wire[d] \in Seq(Nat) /\ held[d] = <<>>
      BY <1>16, <1>t DEF CopyRead
    <3>3. held'[d] = SubSeq(wire[d], 1, m) /\ wire'[d] = SubSeq(wire[d], m + 1, Len(wire[d]))
      BY <3>1, <1>t
    <3>4. m \in Nat
      BY <3>1
    <3> QED
      BY <3>2, <3>3, <3>4, Lengths DEF InHand, OnWire
  <2>2. InHand(d)' + OnWire(d)' = InHand(d) + OnWire(d) /\ InHand(d)' \in Nat /\ OnWire(d)' \in Int
    BY <2>1, <1>l
  <2>3. /\ \A e \in Directions : Passed(e)' = Passed(e)
        /\ \A e \in Directions : e # d => InHand(e)' = InHand(e) /\ OnWire(e)' = OnWire(e)
    BY <1>16, <1>t DEF CopyRead, Passed, InHand, OnWire
  <2>4. /\ copier[d] = "copy" /\ pc \notin Setup /\ UNCHANGED <<pc, peer, copier, eof>>
        /\ \A e \in Directions : Sent(e)' = Sent(e) /\ First(e)' = First(e)
    BY <1>16, <1>u, <1>d DEF CopyRead, Sent, First
  <2>5. RelayWithin'
    <3>1. copier[d] # "idle" /\ peer[Dst(d)] \notin Gone =>
            First(d)' + Passed(d)' + InHand(d)' + OnWire(d)' <= Sent(d)' + 1
      BY <2>2, <2>3, <2>4, <1>l, <1>d, <1>c DEF RelayWithin
    <3>2. \A e \in Directions : e # d =>
            (copier[e] # "idle" /\ peer[Dst(e)] \notin Gone =>
               First(e)' + Passed(e)' + InHand(e)' + OnWire(e)' <= Sent(e)' + 1)
      BY <2>3, <2>4, <1>c DEF RelayWithin
    <3> QED
      BY <3>1, <3>2, <2>4 DEF RelayWithin
  <2>6. SetupWithin' /\ DoneIsTold'
    BY <2>4, <1>c DEF SetupWithin, DoneIsTold, Setup, Before
  <2> QED
    BY <2>5, <2>6 DEF ChannelInv
<1>17. ASSUME NEW d \in Directions, CopyWrite(d) PROVE ChannelInv'
  <2>1. /\ peer[Dst(d)] \notin Gone => Passed(d)' = Passed(d) + InHand(d)
        /\ \A e \in Directions : e # d => Passed(e)' = Passed(e)
    BY <1>17, <1>t, Lengths DEF CopyWrite, Accept, Passed, InHand
  <2>2. /\ InHand(d)' = 0 /\ \A e \in Directions : e # d => InHand(e)' = InHand(e)
        /\ \A e \in Directions : OnWire(e)' = OnWire(e)
    BY <1>17, <1>t, Lengths DEF CopyWrite, InHand, OnWire
  <2>3. /\ copier[d] = "copy" /\ pc \notin Setup /\ UNCHANGED <<pc, peer, copier, eof>>
        /\ \A e \in Directions : Sent(e)' = Sent(e) /\ First(e)' = First(e)
    BY <1>17, <1>u, <1>d DEF CopyWrite, Sent, First
  <2>7. SetupWithin'
    BY <2>1, <2>2, <2>3, <1>l, <1>d, <1>u, <1>c DEF SetupWithin, Setup, Before
  <2>8. RelayWithin'
    BY <2>1, <2>2, <2>3, <1>l, <1>d, <1>u, <1>c DEF RelayWithin
  <2>9. DoneIsTold'
    BY <2>1, <2>2, <2>3, <1>c DEF DoneIsTold
  <2> QED
    BY <2>7, <2>8, <2>9 DEF ChannelInv
<1>18. ASSUME NEW d \in Directions, CopyEnds(d) PROVE ChannelInv'
  <2>1. /\ copier[d] = "copy" /\ pc \notin Setup /\ UNCHANGED <<pc, peer>>
        /\ copier' = [copier EXCEPT ![d] = "done"] /\ eof' = [eof EXCEPT ![d] = TRUE]
        /\ \A e \in Directions :
             /\ Sent(e)' = Sent(e) /\ First(e)' = First(e) /\ OnWire(e)' = OnWire(e)
             /\ InHand(e)' = InHand(e) /\ Passed(e)' = Passed(e)
    BY <1>18, <1>u, <1>d DEF CopyEnds, CopyReturns, Sent, First, OnWire, InHand, Passed
  <2>2. \A e \in Directions : copier'[e] # "idle" => copier[e] # "idle"
    BY <2>1
  <2>3. SetupWithin' /\ RelayWithin'
    BY <2>1, <2>2, <1>c, <1>l, <1>d DEF SetupWithin, RelayWithin
  <2>4. DoneIsTold'
    BY <2>1, <1>t, <1>c, Zenon DEF DoneIsTold
  <2> QED
    BY <2>3, <2>4 DEF ChannelInv
<1>19. CASE RelayReturns
  <2>1. /\ \A e \in Directions :
             /\ Sent(e)' = Sent(e) /\ First(e)' = First(e) /\ OnWire(e)' = OnWire(e)
             /\ InHand(e)' = InHand(e) /\ Passed(e)' = Passed(e)
        /\ InBuffer' = InBuffer /\ UNCHANGED <<peer, copier, eof>> /\ pc' \in {pc, "end"}
    BY <1>19 DEF RelayReturns, Return, relayVars, Sent, First, OnWire, InHand, Passed, InBuffer
  <2>7. SetupWithin'
    BY <2>1, <1>l, <1>d, <1>u, <1>c DEF SetupWithin, Setup, Before
  <2>8. RelayWithin'
    BY <2>1, <1>l, <1>d, <1>u, <1>c DEF RelayWithin
  <2>9. DoneIsTold'
    BY <2>1, <1>c DEF DoneIsTold
  <2> QED
    BY <2>7, <2>8, <2>9 DEF ChannelInv
<1>20. CASE UNCHANGED vars
  <2>1. /\ \A e \in Directions :
             /\ Sent(e)' = Sent(e) /\ First(e)' = First(e) /\ OnWire(e)' = OnWire(e)
             /\ InHand(e)' = InHand(e) /\ Passed(e)' = Passed(e)
        /\ InBuffer' = InBuffer /\ UNCHANGED <<peer, copier, eof>> /\ pc' \in {pc, "end"}
    BY <1>20 DEF vars, Sent, First, OnWire, InHand, Passed, InBuffer
  <2>7. SetupWithin'
    BY <2>1, <1>l, <1>d, <1>u, <1>c DEF SetupWithin, Setup, Before
  <2>8. RelayWithin'
    BY <2>1, <1>l, <1>d, <1>u, <1>c DEF RelayWithin
  <2>9. DoneIsTold'
    BY <2>1, <1>c DEF DoneIsTold
  <2> QED
    BY <2>7, <2>8, <2>9 DEF ChannelInv
<1> QED
  BY <1>1, <1>2, <1>3, <1>4, <1>5, <1>6, <1>7, <1>8, <1>9, <1>10, <1>11,
     <1>12, <1>13, <1>14, <1>15, <1>16, <1>17, <1>18, <1>19, <1>20
  DEF Next, PeerStep, Establish, Copy

\* The invariant of the refinement.
LEMMA ChannelInvariant == Spec => [](TunnelInv /\ ChannelInv)
  BY ChannelInvInit, ChannelInvNext, TunnelInvariant, PTL DEF Spec, TunnelInv

-----------------------------------------------------------------------------
(* The refinement, for direction d                                          *)

\* A tunnel starts as a channel.
LEMMA ChannelInit ==
  ASSUME NEW d \in Directions, Init
  PROVE  C(d)!Init
  BY DEF Init, C!Init, First, ChannelState, Directions, Peers, Src, Dst

\* What is passed on next is what the sender wrote next.
LEMMA RunIsPassed ==
  ASSUME NEW d \in Directions, NEW bs \in Seq(Nat), TypeOK,
         peer[Dst(d)] \notin Gone, got' = [got EXCEPT ![d] = got[d] \o bs],
         Run(bs, Pos(d)), Pos(d) + Len(bs) <= sent[d] + 1
  PROVE  C(d)!PassOn(Len(bs))
<1>1. First(d) \in Nat /\ Len(got[d]) \in Nat /\ Pos(d) \in Nat
  BY Types, Lengths DEF Pos
<1>2. bs = [i \in 1 .. Len(bs) |-> Pos(d) + i - 1]
  BY <1>1, RunIsInterval
<1>3. got'[d] = got[d] \o bs
  BY Types
<1> QED
  BY <1>2, <1>3 DEF C!PassOn, C!Gone, Gone, Pos

\* A step that leaves the ends, the bytes and the state of d alone is a stutter.
LEMMA Unmoved ==
  ASSUME NEW d \in Directions, UNCHANGED <<kind, peer>>, sent'[d] = sent[d],
         got'[d] = got[d], ChannelState(d)' = ChannelState(d)
  PROVE  UNCHANGED C(d)!vars
  BY DEF C!vars, First

\* Every step of a tunnel is a step of the channel, or none.
LEMMA ChannelNext ==
  ASSUME NEW d \in Directions
  PROVE  TunnelInv /\ ChannelInv /\ [Next]_vars => [C(d)!Next]_(C(d)!vars)
<1> SUFFICES ASSUME TunnelInv, ChannelInv, [Next]_vars
             PROVE  C(d)!Next \/ UNCHANGED C(d)!vars
  OBVIOUS
<1>t. /\ kind \in {"connect", "stream"} /\ pc \in Setup \cup {"relay", "end"}
      /\ wire \in [Directions -> Seq(Nat)] /\ held \in [Directions -> Seq(Nat)]
      /\ got \in [Directions -> Seq(Nat)] /\ buf \in Seq(Nat)
      /\ sent \in [Directions -> Nat] /\ copier \in [Directions -> {"idle", "copy", "done"}]
      /\ eof \in [Directions -> BOOLEAN] /\ peer \in [Peers -> {"open", "half"} \cup Gone]
  BY Types DEF TunnelInv, TypeOK, Setup, Before
<1>d. /\ Directions = {"up", "down"} /\ Peers = {"client", "upstream"}
      /\ Src(d) \in Peers /\ Dst(d) \in Peers
      /\ \A e \in Directions : Src(e) = Src(d) => e = d
  BY DEF Src, Dst, Directions, Peers
<1>i. /\ pc \in Setup => \A e \in Directions : copier[e] = "idle"
      /\ \A e \in Directions : eof[e] <=> copier[e] = "done"
      /\ pc = "end" => \A e \in Directions : copier[e] # "copy"
  BY DEF TunnelInv, StreamInv, SetupInv, EndInv, ChannelInv, DoneIsTold
\* Setting up goes on, or ends in a refusal.
<1>q. ASSUME pc \in Setup, UNCHANGED <<kind, peer, sent, copier>>, got'[d] = got[d],
             pc' \in Setup \cup {"end"}
      PROVE  C(d)!Refuse \/ UNCHANGED C(d)!vars
  <2>1. pc # "end" /\ copier[d] = "idle" /\ copier'[d] = "idle"
    BY <1>q, <1>i DEF Setup, Before
  <2> QED
    BY <1>q, <2>1, Unmoved DEF C!Refuse, ChannelState, First
<1>1. ASSUME NEW e \in Directions, Send(e) PROVE C(d)!Next \/ UNCHANGED C(d)!vars
  <2>1. /\ UNCHANGED <<kind, pc, peer, got, copier, eof>> /\ sent' = [sent EXCEPT ![e] = sent[e] + 1]
        /\ peer[Src(e)] = "open"
    BY <1>1 DEF Send, relayVars
  <2>2. ChannelState(d)' = ChannelState(d)
    BY <2>1 DEF ChannelState
  <2>3. CASE e = d
    BY <2>1, <2>2, <2>3, <1>t DEF C!Next, C!Write, First
  <2>4. CASE e # d
    BY <2>1, <2>2, <2>4, <1>t, Unmoved
  <2> QED
    BY <2>3, <2>4
<1>2. ASSUME NEW p \in Peers, NEW how \in {"half", "closed"}, ShutDown(p, how)
      PROVE C(d)!Next \/ UNCHANGED C(d)!vars
  <2>1. UNCHANGED <<kind, pc, sent, got, copier, eof>>
    BY <1>2 DEF ShutDown, relayVars
  <2>2. ChannelState(d)' = ChannelState(d)
    BY <2>1 DEF ChannelState
  <2>3. \A q \in Peers : peer'[q] = peer[q] \/ peer[q] = "open"
                         \/ (peer[q] = "half" /\ peer'[q] \in Gone)
    BY <1>2, <1>t DEF ShutDown, Gone
  <2> QED
    BY <2>1, <2>2, <2>3, <1>d DEF C!Next, C!Depart, C!Departs, C!Gone, Gone, First
<1>3. ASSUME NEW p \in Peers, Reset(p) PROVE C(d)!Next \/ UNCHANGED C(d)!vars
  <2>1. UNCHANGED <<kind, pc, sent, got, copier, eof>>
    BY <1>3 DEF Reset, relayVars
  <2>2. ChannelState(d)' = ChannelState(d)
    BY <2>1 DEF ChannelState
  <2>3. \A q \in Peers : peer'[q] = peer[q] \/ peer[q] = "open"
                         \/ (peer[q] = "half" /\ peer'[q] \in Gone)
    BY <1>3, <1>t DEF Reset, Gone
  <2> QED
    BY <2>1, <2>2, <2>3, <1>d DEF C!Next, C!Depart, C!Departs, C!Gone, Gone, First
<1>4. CASE ReadRequest
  <2>1. /\ pc \in Setup /\ UNCHANGED <<kind, peer, sent, copier>> /\ got'[d] = got[d]
        /\ pc' \in Setup \cup {"end"}
    BY <1>4 DEF ReadRequest, relayVars, Setup, Before
  <2> QED
    BY <2>1, <1>q DEF C!Next
<1>5. CASE ReadRequestFails
  <2>1. /\ pc \in Setup /\ UNCHANGED <<kind, peer, sent, copier>> /\ got'[d] = got[d]
        /\ pc' \in Setup \cup {"end"}
    BY <1>5 DEF ReadRequestFails, Return, relayVars, Setup, Before
  <2> QED
    BY <2>1, <1>q DEF C!Next
<1>6. CASE Deny
  <2>1. /\ pc \in Setup /\ UNCHANGED <<kind, peer, sent, copier>> /\ got'[d] = got[d]
        /\ pc' \in Setup \cup {"end"}
    BY <1>6 DEF Deny, Return, relayVars, Setup, Before
  <2> QED
    BY <2>1, <1>q DEF C!Next
<1>7. CASE Dial
  <2>1. /\ pc \in Setup /\ UNCHANGED <<kind, peer, sent, copier>> /\ got'[d] = got[d]
        /\ pc' \in Setup \cup {"end"}
    BY <1>7 DEF Dial, relayVars, Setup, Before
  <2> QED
    BY <2>1, <1>q DEF C!Next
<1>8. CASE DialFails
  <2>1. /\ pc \in Setup /\ UNCHANGED <<kind, peer, sent, copier>> /\ got'[d] = got[d]
        /\ pc' \in Setup \cup {"end"}
    BY <1>8 DEF DialFails, Return, relayVars, Setup, Before
  <2> QED
    BY <2>1, <1>q DEF C!Next
<1>9. CASE WriteEstablishedFails
  <2>1. /\ pc \in Setup /\ UNCHANGED <<kind, peer, sent, copier>> /\ got'[d] = got[d]
        /\ pc' \in Setup \cup {"end"}
    BY <1>9 DEF WriteEstablishedFails, Return, relayVars, Setup, Before
  <2> QED
    BY <2>1, <1>q DEF C!Next
<1>10. CASE Hijack
  <2>1. /\ pc \in Setup /\ UNCHANGED <<kind, peer, sent, copier>> /\ got'[d] = got[d]
        /\ pc' \in Setup \cup {"end"}
    BY <1>10 DEF Hijack, Return, relayVars, Setup, Before
  <2> QED
    BY <2>1, <1>q DEF C!Next
<1>11. CASE WriteRequestLineFails
  <2>1. /\ pc \in Setup /\ UNCHANGED <<kind, peer, sent, copier>> /\ got'[d] = got[d]
        /\ pc' \in Setup \cup {"end"}
    BY <1>11 DEF WriteRequestLineFails, Return, relayVars, Setup, Before
  <2> QED
    BY <2>1, <1>q DEF C!Next
<1>12. CASE FlushPreludeFails
  <2>1. /\ pc \in Setup /\ UNCHANGED <<kind, peer, sent, copier>> /\ got'[d] = got[d]
        /\ pc' \in Setup \cup {"end"}
    BY <1>12 DEF FlushPreludeFails, Return, relayVars, Setup, Before
  <2> QED
    BY <2>1, <1>q DEF C!Next
<1>13. CASE WriteEstablished
  <2>1. /\ pc = "reply" /\ pc' = "flush" /\ UNCHANGED <<kind, peer, sent, copier, eof>>
        /\ got' = IF peer[Dst("down")] \in Gone THEN got ELSE [got EXCEPT !["down"] = got["down"] \o <<0>>]
    BY <1>13 DEF WriteEstablished, Accept, relayVars
  <2>2. CASE got'[d] = got[d]
    BY <2>1, <2>2, <1>q DEF C!Next, Setup, Before
  <2>3. CASE got'[d] # got[d]
    <3>1. d = "down" /\ peer[Dst(d)] \notin Gone /\ got' = [got EXCEPT ![d] = got[d] \o <<0>>]
      BY <2>1, <2>3, <1>t
    <3>2. <<0>> \in Seq(Nat) /\ Len(<<0>>) = 1
      OBVIOUS
    <3>3. Pos(d) = 0 /\ Pos(d) + 1 <= sent[d] + 1 /\ 1 \in 1 .. sent[d] + 1
      <4>1. kind = "connect" /\ got[d] = <<>>
        BY <2>1 DEF TunnelInv, StreamInv, SetupInv, Before
      <4>2. First(d) = 0
        BY <3>1, <4>1 DEF First
      <4>3. sent[d] \in Nat /\ (d = "up" => 1 <= sent[d])
        BY <3>1, <1>t
      <4> QED
        BY <3>1, <4>1, <4>2, <4>3 DEF Pos
    <3>4. Run(<<0>>, Pos(d))
      BY <3>3 DEF Run
    <3>5. C(d)!PassOn(1)
      BY <3>1, <3>2, <3>3, <3>4, RunIsPassed DEF TunnelInv
    <3>6. ChannelState(d) = "setup" /\ ChannelState(d)' = "setup"
      BY <2>1, <1>i DEF ChannelState, Setup, Before
    <3> QED
      BY <2>1, <3>3, <3>5, <3>6 DEF C!Next, C!Pass, First
  <2> QED
    BY <2>2, <2>3
<1>14. CASE WriteRequestLine
  <2>1. /\ pc = "replay" /\ pc' = "flush" /\ UNCHANGED <<kind, peer, sent, copier, eof>>
        /\ got' = IF peer[Dst("up")] \in Gone THEN got ELSE [got EXCEPT !["up"] = got["up"] \o <<1>>]
    BY <1>14 DEF WriteRequestLine, Accept, relayVars
  <2>2. CASE got'[d] = got[d]
    BY <2>1, <2>2, <1>q DEF C!Next, Setup, Before
  <2>3. CASE got'[d] # got[d]
    <3>1. d = "up" /\ peer[Dst(d)] \notin Gone /\ got' = [got EXCEPT ![d] = got[d] \o <<1>>]
      BY <2>1, <2>3, <1>t
    <3>2. <<1>> \in Seq(Nat) /\ Len(<<1>>) = 1
      OBVIOUS
    <3>3. Pos(d) = 1 /\ Pos(d) + 1 <= sent[d] + 1 /\ 1 \in 1 .. sent[d] + 1
      <4>1. kind = "stream" /\ got[d] = <<>>
        BY <2>1 DEF TunnelInv, StreamInv, SetupInv, Before
      <4>2. First(d) = 1
        BY <3>1, <4>1 DEF First
      <4>3. sent[d] \in Nat /\ (d = "up" => 1 <= sent[d])
        <5>1. 1 + InBuffer + OnWire("up") <= Sent("up")
          BY <2>1 DEF ChannelInv, SetupWithin, Setup, Before
        <5>2. InBuffer \in Nat /\ OnWire("up") \in Nat /\ Sent("up") \in Nat
          BY <1>t, <1>d, Lengths DEF InBuffer, OnWire, Sent
        <5>3. 1 <= Sent("up")
          BY <5>1, <5>2
        <5> QED
          BY <5>3, <1>t DEF Sent
      <4> QED
        BY <3>1, <4>1, <4>2, <4>3 DEF Pos
    <3>4. Run(<<1>>, Pos(d))
      BY <3>3 DEF Run
    <3>5. C(d)!PassOn(1)
      BY <3>1, <3>2, <3>3, <3>4, RunIsPassed DEF TunnelInv
    <3>6. ChannelState(d) = "setup" /\ ChannelState(d)' = "setup"
      BY <2>1, <1>i DEF ChannelState, Setup, Before
    <3> QED
      BY <2>1, <3>3, <3>5, <3>6 DEF C!Next, C!Pass, First
  <2> QED
    BY <2>2, <2>3
<1>15. CASE FlushPrelude
  <2>1. /\ pc = "flush" /\ pc' = "relay" /\ UNCHANGED <<kind, peer, sent, eof>>
        /\ copier' = [e \in Directions |-> "copy"]
        /\ got' = IF peer[Dst("up")] \in Gone THEN got ELSE [got EXCEPT !["up"] = got["up"] \o buf]
    BY <1>15 DEF FlushPrelude, Accept
  <2>2. ChannelState(d) = "setup" /\ ChannelState(d)' = "joined"
    BY <2>1, <1>i DEF ChannelState, Setup, Before
  <2>3. CASE got'[d] = got[d]
    BY <2>1, <2>2, <2>3 DEF C!Next, C!Join, First
  <2>4. CASE got'[d] # got[d]
    <3>1. d = "up" /\ peer[Dst(d)] \notin Gone /\ got' = [got EXCEPT ![d] = got[d] \o buf]
      BY <2>1, <2>4, <1>t
    <3>2. buf # <<>>
      <4>1. got[d] \o <<>> = got[d]
        BY <1>t, ConcatEmptySeq
      <4> QED
        BY <3>1, <2>4, <4>1, <1>t
    <3>3. Pos(d) = 2 /\ Run(buf, 2)
      BY <2>1, <3>1 DEF TunnelInv, StreamInv, FlushInv, BufferInv, Dst, Setup, Before
    <3>4. 1 + InBuffer + OnWire("up") <= Sent("up")
      BY <2>1 DEF ChannelInv, SetupWithin, Setup, Before
    <3>5. InBuffer \in Nat /\ InBuffer # 0 /\ OnWire("up") \in Nat /\ Sent("up") \in Nat
      BY <3>2, <1>t, <1>d, Lengths DEF InBuffer, OnWire, Sent
    <3>6. 2 + InBuffer <= Sent("up") + 1 /\ InBuffer \in 1 .. Sent("up") + 1
      BY <3>4, <3>5
    <3>7. C(d)!PassOn(Len(buf))
      BY <3>1, <3>3, <3>6, <1>t, RunIsPassed DEF TunnelInv, InBuffer, Sent
    <3> QED
      BY <2>1, <2>2, <3>1, <3>6, <3>7 DEF C!Next, C!Join, First, InBuffer, Sent
  <2> QED
    BY <2>3, <2>4
<1>16. ASSUME NEW e \in Directions, CopyRead(e) PROVE C(d)!Next \/ UNCHANGED C(d)!vars
  <2>1. UNCHANGED <<kind, pc, peer, sent, copier, got, eof>>
    BY <1>16 DEF CopyRead
  <2> QED
    BY <2>1, Unmoved DEF ChannelState
<1>17. ASSUME NEW e \in Directions, CopyWrite(e) PROVE C(d)!Next \/ UNCHANGED C(d)!vars
  <2>1. /\ copier[e] = "copy" /\ held[e] # <<>>
        /\ UNCHANGED <<kind, pc, peer, sent, copier, eof>>
        /\ got' = IF peer[Dst(e)] \in Gone THEN got ELSE [got EXCEPT ![e] = got[e] \o held[e]]
    BY <1>17 DEF CopyWrite, Accept
  <2>2. CASE got'[d] = got[d]
    BY <2>1, <2>2, Unmoved DEF ChannelState
  <2>3. CASE got'[d] # got[d]
    <3>1. e = d /\ peer[Dst(d)] \notin Gone /\ got' = [got EXCEPT ![d] = got[d] \o held[d]]
      BY <2>1, <2>3, <1>t
    <3>2. Run(held[d], Pos(d))
      BY <2>1, <3>1 DEF TunnelInv, StreamInv, RelayInv
    <3>3. First(d) + Passed(d) + InHand(d) + OnWire(d) <= Sent(d) + 1
      BY <2>1, <3>1 DEF ChannelInv, RelayWithin
    <3>4. /\ Passed(d) \in Nat /\ InHand(d) \in Nat /\ InHand(d) # 0 /\ OnWire(d) \in Nat
          /\ Sent(d) \in Nat /\ First(d) \in Nat
      BY <2>1, <3>1, <1>t, Lengths DEF Passed, InHand, OnWire, Sent, First
    <3>5. First(d) + Passed(d) + InHand(d) <= Sent(d) + 1 /\ InHand(d) \in 1 .. Sent(d) + 1
      BY <3>3, <3>4
    <3>6. C(d)!PassOn(Len(held[d]))
      BY <3>1, <3>2, <3>5, <1>t, RunIsPassed DEF TunnelInv, Passed, InHand, Sent, Pos
    <3>7. ChannelState(d) = "joined" /\ ChannelState(d)' = "joined"
      BY <2>1, <3>1, <1>i DEF ChannelState
    <3> QED
      BY <2>1, <3>5, <3>6, <3>7 DEF C!Next, C!Pass, First, InHand, Sent
  <2> QED
    BY <2>2, <2>3
<1>18. ASSUME NEW e \in Directions, CopyEnds(e) PROVE C(d)!Next \/ UNCHANGED C(d)!vars
  <2>1. /\ copier[e] = "copy" /\ UNCHANGED <<kind, pc, peer, sent, got>>
        /\ copier' = [copier EXCEPT ![e] = "done"] /\ eof' = [eof EXCEPT ![e] = TRUE]
        /\ \/ held[e] = <<>> /\ wire[e] = <<>> /\ peer[Src(e)] # "open"
           \/ peer[Dst(e)] \in Gone
    BY <1>18 DEF CopyEnds, CopyReturns, CannotWrite
  <2>2. CASE e # d
    <3>1. copier'[d] = copier[d] /\ eof'[d] = eof[d]
      BY <2>1, <2>2, <1>t
    <3> QED
      BY <2>1, <3>1, Unmoved DEF ChannelState
  <2>3. CASE e = d
    <3>1. ChannelState(d) = "joined"
      BY <2>1, <2>3, <1>i DEF ChannelState
    <3>2. copier'[d] = "done" /\ eof'[d]
      BY <2>1, <2>3, <1>t
    <3>3. ChannelState(d)' = "ended"
      BY <3>2 DEF ChannelState
    <3>4. \/ peer[Dst(d)] \in Gone \/ peer[Src(d)] = "reset"
          \/ peer[Src(d)] # "open" /\ First(d) + Len(got[d]) = sent[d] + 1
      <4> SUFFICES ASSUME peer[Dst(d)] \notin Gone, peer[Src(d)] # "reset"
                   PROVE  peer[Src(d)] # "open" /\ First(d) + Len(got[d]) = sent[d] + 1
        OBVIOUS
      <4>1. held[d] = <<>> /\ wire[d] = <<>> /\ peer[Src(d)] # "open"
        BY <2>1, <2>3
      <4>2. Pos(d) + Len(held[d]) + Len(wire[d]) = sent[d] + 1
        BY <2>1, <2>3 DEF TunnelInv, StreamInv, RelayInv
      <4>3. First(d) \in Nat /\ Len(got[d]) \in Nat /\ Len(<<>>) = 0
        BY <1>t, Lengths DEF First
      <4> QED
        BY <4>1, <4>2, <4>3 DEF Pos
    <3> QED
      BY <2>1, <3>1, <3>3, <3>4 DEF C!Next, C!End, C!Gone, C!AllPassed, Gone, First
  <2> QED
    BY <2>2, <2>3
<1>19. CASE RelayReturns
  <2>1. /\ copier[d] = "done" /\ pc' = "end" /\ UNCHANGED <<kind, peer, sent, got, copier, eof>>
    BY <1>19 DEF RelayReturns, Return, relayVars, WaitsFor
  <2>2. eof[d]
    BY <2>1, <1>i
  <2> QED
    BY <2>1, <2>2, Unmoved DEF ChannelState
<1>20. CASE UNCHANGED vars
  BY <1>20, Unmoved DEF vars, ChannelState
<1> QED
  BY <1>1, <1>2, <1>3, <1>4, <1>5, <1>6, <1>7, <1>8, <1>9, <1>10, <1>11,
     <1>12, <1>13, <1>14, <1>15, <1>16, <1>17, <1>18, <1>19, <1>20
  DEF Next, PeerStep, Establish, Copy

-----------------------------------------------------------------------------
(* The theorems                                                             *)

\* The two instances of TunnelRefinement are those of C.
\* Src and Dst of the direction are the peers the instance names.
LEMMA UpIsC ==
  /\ C("up")!Init => Up!Init
  /\ [C("up")!Next]_(C("up")!vars) => [Up!Next]_(Up!vars)
<1>1. Src("up") = "client" /\ Dst("up") = "upstream"
  BY DEF Src, Dst
<1> QED
  BY <1>1 DEF C!Init, Up!Init, C!Next, Up!Next, C!vars, Up!vars, C!Write, Up!Write, C!Depart,
     Up!Depart, C!Departs, Up!Departs, C!Gone, Up!Gone, C!Pass, Up!Pass,
     C!PassOn, Up!PassOn, C!Join, Up!Join, C!Refuse, Up!Refuse, C!End, Up!End,
     C!AllPassed, Up!AllPassed

\* Src and Dst of the direction are the peers the instance names.
LEMMA DownIsC ==
  /\ C("down")!Init => Down!Init
  /\ [C("down")!Next]_(C("down")!vars) => [Down!Next]_(Down!vars)
<1>1. Src("down") = "upstream" /\ Dst("down") = "client"
  BY DEF Src, Dst
<1> QED
  BY <1>1 DEF C!Init, Down!Init, C!Next, Down!Next, C!vars, Down!vars, C!Write, Down!Write,
     C!Depart, Down!Depart, C!Departs, Down!Departs, C!Gone, Down!Gone, C!Pass,
     Down!Pass, C!PassOn, Down!PassOn, C!Join, Down!Join, C!Refuse, Down!Refuse,
     C!End, Down!End, C!AllPassed, Down!AllPassed

\* From the client to the target: the bytes behind the request head (CONNECT), or
\* the whole request (streaming), reach it as through a ByteChannel.
THEOREM UpRefines == Spec => Up!Init /\ [][Up!Next]_(Up!vars)
<1>1. Init => Up!Init
  BY ChannelInit, UpIsC DEF Directions
<1>2. TunnelInv /\ ChannelInv /\ [Next]_vars => [Up!Next]_(Up!vars)
  BY ChannelNext, UpIsC DEF Directions
<1> QED
  BY <1>1, <1>2, ChannelInvariant, PTL DEF Spec

\* From the target to the client: the 200 of CONNECT and all the target writes.
THEOREM DownRefines == Spec => Down!Init /\ [][Down!Next]_(Down!vars)
<1>1. Init => Down!Init
  BY ChannelInit, DownIsC DEF Directions
<1>2. TunnelInv /\ ChannelInv /\ [Next]_vars => [Down!Next]_(Down!vars)
  BY ChannelNext, DownIsC DEF Directions
<1> QED
  BY <1>1, <1>2, ChannelInvariant, PTL DEF Spec

=============================================================================

------------------------------- MODULE Tunnel -------------------------------
(***************************************************************************)
(* One spliced connection through the proxy: ConnectProxy.handle           *)
(* (internal/proxy/connect.go), handleStreaming (proxy.go) and the Relay   *)
(* both end in (relay.go).                                                 *)
(*                                                                         *)
(* Bytes are numbered from 1 in the order their sender wrote them; the     *)
(* first byte of the client stands for the request head.  The proxy's own  *)
(* "200 Connection Established" is byte 0 of the downward stream.          *)
(***************************************************************************)
EXTENDS Naturals, Sequences

CONSTANT MaxBytes   \* bound: bytes each peer sends

ASSUME MaxBytesAssumption == MaxBytes \in Nat \ {0}

VARIABLES
  kind,   \* "connect" (ConnectProxy.handle) or "stream" (handleStreaming)
  pc,     \* where the handler is
  conn,   \* conn[p]: the proxy's end of the connection to peer p
  peer,   \* peer[p]: what p did with its own end
  sent,   \* sent[d]: bytes p has written in direction d
  wire,   \* wire[d]: sent bytes the proxy has not read
  buf,    \* bytes the bufio.Reader holds beyond the request head
  copier, \* copier[d]: goroutine of direction d
  held,   \* held[d]: bytes io.Copy has read and not yet written
  got,    \* got[d]: bytes accepted by the connection to the receiver of d
  eof     \* eof[d]: closeWrite was called on the receiver's connection

vars == <<kind, pc, conn, peer, sent, wire, buf, copier, held, got, eof>>
relayVars == <<copier, held, eof>>

Peers == {"client", "upstream"}
Directions == {"up", "down"}
Src(d) == IF d = "up" THEN "client" ELSE "upstream"
Dst(d) == IF d = "up" THEN "upstream" ELSE "client"

Gone == {"closed", "reset"}   \* the peer reads and writes no more

TypeOK ==
  /\ kind \in {"connect", "stream"}
  /\ pc \in {"head", "checked", "reply", "hijack", "replay", "flush", "relay", "end"}
  /\ conn \in [Peers -> {"none", "open", "returned", "closed"}]
  /\ peer \in [Peers -> {"open", "half"} \cup Gone]
  /\ sent \in [Directions -> 0 .. MaxBytes]
  /\ wire \in [Directions -> Seq(1 .. MaxBytes)]
  /\ buf \in Seq(1 .. MaxBytes)
  /\ copier \in [Directions -> {"idle", "copy", "done"}]
  /\ held \in [Directions -> Seq(1 .. MaxBytes)]
  /\ got \in [Directions -> Seq(0 .. MaxBytes)]
  /\ eof \in [Directions -> BOOLEAN]

\* The listener has accepted a client.
Init ==
  /\ kind \in {"connect", "stream"}
  /\ pc = "head"
  /\ conn = [p \in Peers |-> IF p = "client" THEN "open" ELSE "none"]
  /\ peer = [p \in Peers |-> "open"]
  /\ sent = [d \in Directions |-> 0]
  /\ wire = [d \in Directions |-> <<>>]
  /\ buf = <<>>
  /\ copier = [d \in Directions |-> "idle"]
  /\ held = [d \in Directions |-> <<>>]
  /\ got = [d \in Directions |-> <<>>]
  /\ eof = [d \in Directions |-> FALSE]

-----------------------------------------------------------------------------
(* The peers (external)                                                     *)

Connected(p) == conn[p] \in {"open", "returned"}

Send(d) ==
  /\ Connected(Src(d)) /\ peer[Src(d)] = "open" /\ sent[d] < MaxBytes
  /\ sent' = [sent EXCEPT ![d] = @ + 1]
  /\ wire' = [wire EXCEPT ![d] = Append(@, sent[d] + 1)]
  /\ UNCHANGED <<kind, pc, conn, peer, buf, got, relayVars>>

\* shutdown(SHUT_WR), or close with everything read.
ShutDown(p, how) ==
  /\ Connected(p)
  /\ peer[p] = "open" \/ (peer[p] = "half" /\ how = "closed")
  /\ how \in {"half", "closed"}
  /\ peer' = [peer EXCEPT ![p] = how]
  /\ UNCHANGED <<kind, pc, conn, sent, wire, buf, got, relayVars>>

\* An abortive close: what the proxy has not read is lost.
Reset(p) ==
  /\ Connected(p) /\ peer[p] \in {"open", "half"}
  /\ peer' = [peer EXCEPT ![p] = "reset"]
  /\ wire' = [d \in Directions |-> IF Src(d) = p THEN <<>> ELSE wire[d]]
  /\ UNCHANGED <<kind, pc, conn, sent, buf, got, relayVars>>

PeerStep ==
  \/ \E d \in Directions : Send(d)
  \/ \E p \in Peers : Reset(p) \/ \E how \in {"half", "closed"} : ShutDown(p, how)

-----------------------------------------------------------------------------
(* The handler, up to the relay                                             *)

\* The connections the handler leaves behind when it returns early.
Return(c, u) ==
  /\ pc' = "end"
  /\ conn' = [p \in Peers |-> IF p = "client" THEN c ELSE u]

\* Write bs towards the receiver of d: accepted, or the receiver is gone and
\* the bytes vanish.  CannotWrite is a write that fails.
Accept(d, bs) ==
  got' = IF peer[Dst(d)] \in Gone THEN got ELSE [got EXCEPT ![d] = @ \o bs]
CannotWrite(d) == peer[Dst(d)] \in Gone

\* http.ReadRequest: one read may bring bytes beyond the head into the buffer.
ReadRequest ==
  /\ pc = "head"
  /\ \E n \in 1 .. Len(wire["up"]) :
       /\ buf' = SubSeq(wire["up"], 2, n)
       /\ wire' = [wire EXCEPT !["up"] = SubSeq(@, n + 1, Len(@))]
  /\ pc' = "checked"
  /\ UNCHANGED <<kind, conn, peer, sent, got, relayVars>>

\* No usable head arrives before the 30 s deadline or before the client ends.
ReadRequestFails ==
  /\ pc = "head" /\ Return("closed", "none")
  /\ UNCHANGED <<kind, peer, sent, wire, buf, got, relayVars>>

\* The method, host:port, allowlist and port checks; deny writes a response
\* and the deferred Close follows.
Deny ==
  /\ pc = "checked" /\ kind = "connect" /\ Return("closed", "none")
  /\ UNCHANGED <<kind, peer, sent, wire, buf, got, relayVars>>

Dial ==
  /\ pc = "checked"
  /\ conn' = [conn EXCEPT !["upstream"] = "open"]
  /\ pc' = IF kind = "connect" THEN "reply" ELSE "hijack"
  /\ UNCHANGED <<kind, peer, sent, wire, buf, got, relayVars>>

\* connect: deny and close; stream: net/http keeps the client's connection.
DialFails ==
  /\ pc = "checked"
  /\ Return(IF kind = "connect" THEN "closed" ELSE "returned", "none")
  /\ UNCHANGED <<kind, peer, sent, wire, buf, got, relayVars>>

WriteEstablished ==
  /\ pc = "reply" /\ Accept("down", <<0>>) /\ pc' = "flush"
  /\ UNCHANGED <<kind, conn, peer, sent, wire, buf, relayVars>>

\* Mutant: the dialled connection is forgotten.
EstablishedFailsLeaks ==
  /\ pc = "reply" /\ CannotWrite("down") /\ Return("closed", "open")
  /\ UNCHANGED <<kind, peer, sent, wire, buf, got, relayVars>>

WriteEstablishedFails ==
  /\ pc = "reply" /\ CannotWrite("down") /\ Return("closed", "closed")
  /\ UNCHANGED <<kind, peer, sent, wire, buf, got, relayVars>>

Hijack ==
  /\ pc = "hijack"
  /\ \/ pc' = "replay" /\ UNCHANGED conn
     \/ Return("returned", "closed")
  /\ UNCHANGED <<kind, peer, sent, wire, buf, got, relayVars>>

\* writeRequestLine sends the request head on.
WriteRequestLine ==
  /\ pc = "replay" /\ Accept("up", <<1>>) /\ pc' = "flush"
  /\ UNCHANGED <<kind, conn, peer, sent, wire, buf, relayVars>>

WriteRequestLineFails ==
  /\ pc = "replay" /\ CannotWrite("up") /\ Return("closed", "closed")
  /\ UNCHANGED <<kind, peer, sent, wire, buf, got, relayVars>>

\* Mutant: the bytes in the head reader's buffer are dropped.
DropsPrelude ==
  /\ pc = "flush" /\ buf' = <<>>
  /\ pc' = "relay"
  /\ copier' = [d \in Directions |-> "copy"]
  /\ UNCHANGED <<kind, conn, peer, sent, wire, held, got, eof>>

\* The buffered bytes go upstream, then Relay starts its two goroutines.
FlushPrelude ==
  /\ pc = "flush" /\ Accept("up", buf) /\ buf' = <<>>
  /\ pc' = "relay"
  /\ copier' = [d \in Directions |-> "copy"]
  /\ UNCHANGED <<kind, conn, peer, sent, wire, held, eof>>

FlushPreludeFails ==
  /\ pc = "flush" /\ buf # <<>> /\ CannotWrite("up") /\ Return("closed", "closed")
  /\ UNCHANGED <<kind, peer, sent, wire, buf, got, relayVars>>

-----------------------------------------------------------------------------
(* Relay                                                                    *)

CopyRead(d) ==
  /\ copier[d] = "copy" /\ held[d] = <<>>
  /\ \E n \in 1 .. Len(wire[d]) :
       /\ held' = [held EXCEPT ![d] = SubSeq(wire[d], 1, n)]
       /\ wire' = [wire EXCEPT ![d] = SubSeq(@, n + 1, Len(@))]
  /\ UNCHANGED <<kind, pc, conn, peer, sent, buf, copier, got, eof>>

\* Mutant: a short write is taken for a complete one.
CopyWriteShort(d) ==
  /\ copier[d] = "copy" /\ held[d] # <<>>
  /\ Accept(d, <<Head(held[d])>>)
  /\ held' = [held EXCEPT ![d] = <<>>]
  /\ UNCHANGED <<kind, pc, conn, peer, sent, wire, buf, copier, eof>>

CopyWrite(d) ==
  /\ copier[d] = "copy" /\ held[d] # <<>>
  /\ Accept(d, held[d])
  /\ held' = [held EXCEPT ![d] = <<>>]
  /\ UNCHANGED <<kind, pc, conn, peer, sent, wire, buf, copier, eof>>

\* Mutant: no closeWrite.
NoCloseWrite(d) == copier' = [copier EXCEPT ![d] = "done"] /\ UNCHANGED eof

\* io.Copy returns, closeWrite, wg.Done.
CopyReturns(d) ==
  /\ copier' = [copier EXCEPT ![d] = "done"]
  /\ eof' = [eof EXCEPT ![d] = TRUE]

\* Mutant: only a failing write ends a copy.
CopyEndsOnErrorOnly(d) ==
  /\ copier[d] = "copy" /\ held[d] # <<>> /\ CannotWrite(d)
  /\ CopyReturns(d)
  /\ UNCHANGED <<kind, pc, conn, peer, sent, wire, buf, held, got>>

\* io.Copy meets the end of what the source writes, or a failing write.
CopyEnds(d) ==
  /\ copier[d] = "copy"
  /\ \/ held[d] = <<>> /\ wire[d] = <<>> /\ peer[Src(d)] # "open"
     \/ held[d] # <<>> /\ CannotWrite(d)
  /\ CopyReturns(d)
  /\ UNCHANGED <<kind, pc, conn, peer, sent, wire, buf, held, got>>

\* Mutant: the relay ends with the client's direction.
WaitsForClient == {"up"}

\* wg.Wait returns when these directions are done.
WaitsFor == Directions

RelayReturns ==
  /\ pc = "relay" /\ \A d \in WaitsFor : copier[d] = "done"
  /\ Return("closed", "closed")
  /\ UNCHANGED <<kind, peer, sent, wire, buf, got, relayVars>>

-----------------------------------------------------------------------------
Establish ==
  \/ ReadRequest \/ ReadRequestFails \/ Deny \/ Dial \/ DialFails
  \/ WriteEstablished \/ WriteEstablishedFails
  \/ Hijack \/ WriteRequestLine \/ WriteRequestLineFails
  \/ FlushPrelude \/ FlushPreludeFails

Copy(d) == CopyRead(d) \/ CopyWrite(d) \/ CopyEnds(d)

Next ==
  \/ PeerStep
  \/ Establish
  \/ \E d \in Directions : Copy(d)
  \/ RelayReturns

Spec == Init /\ [][Next]_vars

\* Each goroutine runs, the read deadline and the dial timeout expire, and the
\* receivers read, so that a write returns.  Nothing is asked of the senders.
FairSpec ==
  /\ Spec
  /\ WF_vars(Establish) /\ WF_vars(RelayReturns)
  /\ \A d \in Directions : WF_vars(Copy(d))

-----------------------------------------------------------------------------
(* Properties                                                               *)

\* The number of the first byte the receiver of d gets: CONNECT consumes the
\* head and inserts its 200; a streaming endpoint passes the head on.
First(d) ==
  IF kind = "stream" THEN 1 ELSE IF d = "up" THEN 2 ELSE 0

\* What a receiver gets is what the sender wrote, in order, without gaps or
\* repetitions, across the head reader's buffer and the relay's.
InOrder ==
  \A d \in Directions : \A i \in DOMAIN got[d] : got[d][i] = First(d) + i - 1

\* Once the relay runs nothing is lost on the way: what the receiver has, what
\* the goroutine holds and what is still unread add up to what was sent, as
\* long as the receiver is there and the sender did not abort.
NothingLost ==
  \A d \in Directions :
    /\ pc \in {"relay", "end"} /\ copier[d] # "idle"
    /\ peer[Dst(d)] \notin Gone /\ peer[Src(d)] # "reset"
    => got[d] \o held[d] \o wire[d] =
         [i \in 1 .. sent[d] + 1 - First(d) |-> First(d) + i - 1]

\* A receiver that is still there is told of the end (closeWrite) or loses the
\* connection only after the sender ended its side and everything it wrote was
\* passed on ("until EOF in both directions, then closes both").
EndAfterData ==
  \A d \in Directions :
    /\ eof[d] \/ (pc = "end" /\ copier[d] # "idle")
    /\ peer[Dst(d)] \notin Gone
    => /\ peer[Src(d)] # "open"
       /\ held[d] = <<>>
       /\ peer[Src(d)] # "reset" => Len(got[d]) = sent[d] + 1 - First(d)

\* No path through the handler leaks a connection: when it has returned, the
\* upstream connection is closed if it was ever opened, and the client's is
\* closed or back with net/http.
NoLeak ==
  pc = "end" => conn["upstream"] # "open" /\ conn["client"] # "open"

\* When both senders have ended, the relay returns.
EndsWhenBothEnd ==
  (\A p \in Peers : peer[p] # "open") ~> (pc = "end")

\* "bidirectional relay until either side closes" (comment above
\* handleStreaming): a peer that closed ends the relay.
EitherSideCloses ==
  (kind = "stream" /\ pc = "relay" /\ \E p \in Peers : peer[p] \in Gone) ~> (pc = "end")

=============================================================================

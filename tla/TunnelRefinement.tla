-------------------------- MODULE TunnelRefinement --------------------------
(***************************************************************************)
(* Each direction of a Tunnel is a ByteChannel.                            *)
(***************************************************************************)
EXTENDS Tunnel

\* Where direction d stands: setting up, relayed, told of its end, or given up
\* by one of the early returns.
ChannelState(d) ==
  IF copier[d] = "idle"
  THEN IF pc = "end" THEN "refused" ELSE "setup"
  ELSE IF eof[d] \/ pc = "end" THEN "ended" ELSE "joined"

Up == INSTANCE ByteChannel WITH
  first <- First("up"), sender <- peer["client"], receiver <- peer["upstream"],
  sent <- sent["up"], passed <- got["up"], state <- ChannelState("up")

Down == INSTANCE ByteChannel WITH
  first <- First("down"), sender <- peer["upstream"], receiver <- peer["client"],
  sent <- sent["down"], passed <- got["down"], state <- ChannelState("down")

\* ConnectProxy.handle and handleStreaming followed by Relay are one ByteChannel
\* in each direction: the head reader's buffer, the prelude, CONNECT's own 200
\* and io.Copy cannot be told apart from a single FIFO that passes everything on
\* and ends once the sender has, without waiting for the other direction.
DirectionsAreChannels == Up!Spec /\ Down!Spec

=============================================================================

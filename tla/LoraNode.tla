------------------------------- MODULE LoraNode -------------------------------
(***************************************************************************)
(* The LoRa node's half of the protocol: it has one transport, forwards    *)
(* nothing, and answers the pings that reach it.                           *)
(***************************************************************************)
EXTENDS Relay

CONSTANT PONG   \* the payload of an answer, b"pong"

\* send_via_port: plan, then transmit what is planned for LoRa.  A frame the radio
\* fails to send does not stop the others: to the rest of the mesh it is a lost frame.
SendViaPort(relay, kind, payload, dest) ==
  LET plan == PlanSend(relay, kind, payload, dest)
  IN  [plan EXCEPT !.frames = SelectSeq(@, LAMBDA f : f.transport = "Lora")]

PongToSenderOnly(relay, msg) == SendViaPort(relay, "Pong", PONG, msg.from)   \* mutant

\* A unicast to whoever pinged; a broadcast if the receiver table does not know it.
Pong(relay, msg) ==
  LET unicast == SendViaPort(relay, "Pong", PONG, msg.from)
  IN  IF unicast.err # "UnknownReceiver" THEN unicast
      ELSE SendViaPort(unicast.relay, "Pong", PONG, BROADCAST_ADDR)

\* The receive branch of the main loop: what is not complete, or for others, is dropped.
Answered(relay, source, frame) ==
  LET got == IngestFrame(relay, source, frame)
      pong == IF got.out.tag = "Complete" /\ got.out.msg.kind = "Ping" THEN Pong(got.relay, got.out.msg)
              ELSE [relay |-> got.relay, frames |-> <<>>]
  IN  [relay |-> pong.relay, out |-> got.out, frames |-> pong.frames]

=============================================================================

------------------------------ MODULE Forwarding ------------------------------
(***************************************************************************)
(* What the Cardputer's bridge_loop makes of an ingest outcome: which      *)
(* messages it passes on, and the frames it plans for them.                *)
(***************************************************************************)
EXTENDS Relay

Others(skip) == InOrder(Transport \ {skip})

\* plan_forward onto some transports, one after the other.
ForwardOnto(relay, msg, targets) ==
  LET after[k \in 0 .. Len(targets)] ==
        IF k = 0 THEN [relay |-> relay, frames |-> <<>>]
        ELSE LET sofar == after[k - 1]
                 plan == PlanForward(sofar.relay, msg, targets[k])
             IN  [relay |-> plan.relay, frames |-> sofar.frames \o plan.frames]
  IN  after[Len(targets)]

FanoutEverywhere(relay, msg, skip) == ForwardOnto(relay, msg, ALL)   \* mutant
\* fanout_forward: every transport but the one the message came from.
Fanout(relay, msg, skip) == ForwardOnto(relay, msg, Others(skip))

\* Broadcasts are kept and passed on, messages for somebody else only passed on.
MustForwardOthersOnly(out) == out.tag = "NotForMe"                  \* mutant
MustForward(out) == out.tag = "NotForMe" \/ (out.tag = "Complete" /\ IsBroadcast(out.msg))

\* One turn of bridge_loop on a frame: the engine, the outcome and the frames to queue.
Bridged(relay, source, frame) ==
  LET got == IngestFrame(relay, source, frame)
      fan == IF MustForward(got.out) THEN Fanout(got.relay, got.out.msg, source)
             ELSE [relay |-> got.relay, frames |-> <<>>]
  IN  [relay |-> fan.relay, out |-> got.out, frames |-> fan.frames]

=============================================================================

------------------------------ MODULE BridgeTasks ------------------------------
(***************************************************************************)
(* The Cardputer's engine, its queues and the tasks around it: bridge_loop,*)
(* the LoRa and ESP-NOW tasks and the keyboard.  All futures are joined in *)
(* one task of a cooperative executor, and the engine's mutex is never     *)
(* held across an await, so what a future does between two awaits that can *)
(* pend is one step: a whole turn of bridge_loop, with its fan-out, is.    *)
(*                                                                         *)
(* INBOUND_RAW is filled with send, which waits while it is full; the      *)
(* queues out of the bridge with try_send, which drops.                    *)
(***************************************************************************)
EXTENDS Forwarding

CONSTANTS
  CARD_ADDR, CARD_ID_BASE,
  QUEUE,     \* capacity of every queue (8)
  Nothing    \* a task that holds no frame

ASSUME QueueAssumption == QUEUE \in Nat \ {0}

Radio == {"Lora", "EspNow"}

VARIABLES
  relay,    \* RELAY
  inbound,  \* INBOUND_RAW: [source, frame]
  out,      \* LORA_OUT, MQTT_OUT, ESPNOW_OUT: [Transport -> frames planned]
  ui,       \* how many lines wait in UI_IN
  hand,     \* [Transport -> the frame its task waits to put into INBOUND_RAW]
  ether,    \* <<radio, frame>>: what may still be heard
  typed,    \* texts the user is about to send
  echoes,   \* bound: how often a neighbour may still send a message back
  left      \* history: [Transport -> messages taken from its queue, in order]

bridgeVars == <<relay, inbound, out, ui, hand, ether, typed, echoes, left>>

\* bridge_loop registers all three ports before any other future uses the engine.
Boot == [NewRelay(CARD_ADDR, CARD_ID_BASE) EXCEPT !.registered = Transport]

BridgeInit(heard, texts, copies) ==
  /\ relay = Boot
  /\ inbound = <<>> /\ out = [t \in Transport |-> <<>>] /\ ui = 0
  /\ hand = [t \in Transport |-> Nothing]
  /\ ether = heard /\ typed = texts /\ echoes = copies
  /\ left = [t \in Transport |-> <<>>]

For(t, frames) ==
  Ext!FlattenSeq([k \in DOMAIN frames |-> IF frames[k].transport = t THEN <<frames[k]>> ELSE <<>>])

\* enqueue, for a whole plan: nobody drains a queue meanwhile.
QueuedAll(t, frames) == out[t] \o For(t, frames)                         \* mutant
QueuedDroppingOldest(t, frames) ==                                 \* mutant
  LET all == out[t] \o For(t, frames)
  IN  SubSeq(all, IF Len(all) > QUEUE THEN Len(all) - QUEUE + 1 ELSE 1, Len(all))
Queued(t, frames) ==
  LET all == out[t] \o For(t, frames)
  IN  SubSeq(all, 1, IF Len(all) > QUEUE THEN QUEUE ELSE Len(all))

Enqueues(frames) == out' = [t \in Transport |-> Queued(t, frames)]

Shows(line) == ui' = IF line /\ ui < QUEUE THEN ui + 1 ELSE ui

CanTurnWithRoom == inbound # <<>> /\ \A t \in Transport : Len(out[t]) < QUEUE   \* mutant

\* bridge_loop waits for a frame, and for nothing else.
CanTurn == inbound # <<>>
TakesInbound == CanTurn /\ inbound' = Tail(inbound)

\* bridge_loop on one raw frame: ingest, show, forward.
BridgeTurn ==
  /\ TakesInbound
  /\ LET turn == Bridged(relay, Head(inbound).source, Head(inbound).frame)
     IN  relay' = turn.relay /\ Enqueues(turn.frames) /\ Shows(turn.out.tag = "Complete")
  /\ UNCHANGED <<hand, ether, typed, echoes, left>>

\* INBOUND_RAW.send: at once if there is room, otherwise the task is stuck with it.
Delivers(t, frame) ==
  IF Len(inbound) < QUEUE
  THEN inbound' = Append(inbound, [source |-> t, frame |-> frame]) /\ UNCHANGED hand
  ELSE hand' = [hand EXCEPT ![t] = frame] /\ UNCHANGED inbound

Pushes(t) ==
  /\ hand[t] # Nothing /\ Len(inbound) < QUEUE
  /\ inbound' = Append(inbound, [source |-> t, frame |-> hand[t]])
  /\ hand' = [hand EXCEPT ![t] = Nothing]
  /\ UNCHANGED <<relay, out, ui, ether, typed, echoes, left>>

\* send_local_text: a text too long, or the engine's other refusals, change no queue.
SendsLocal ==
  /\ typed # <<>> /\ typed' = Tail(typed)
  /\ LET plan == PlanSend(relay, "Text", Head(typed), BROADCAST_ADDR)
     IN  relay' = plan.relay /\ Enqueues(plan.frames) /\ Shows(plan.frames # <<>>)
  /\ UNCHANGED <<inbound, hand, ether, echoes, left>>

\* The user interface takes a line off UI_IN.
UiShows == ui > 0 /\ ui' = ui - 1 /\ UNCHANGED <<relay, inbound, out, hand, ether, typed, echoes, left>>

\* A radio task is in its select: the receiver is polled first.
Hears(t) ==
  /\ hand[t] = Nothing
  /\ \E x \in ether : x[1] = t /\ ether' = ether \ {x} /\ Delivers(t, x[2])
  /\ UNCHANGED <<relay, out, ui, typed, echoes, left>>

\* What a neighbour with both radios may send back: it heard a message whole.
Echo(t, msg) ==
  IF msg.frag = NoFrag /\ MayBeRelayed(msg)
  THEN {<<r, PreparedForRelay(msg)>> : r \in Radio \ {t}} ELSE {}

Echoed(t, msg) ==
  \/ UNCHANGED <<ether, echoes>>
  \/ /\ echoes > 0 /\ echoes' = echoes - 1
     /\ Echo(t, msg) # {} /\ ether' = ether \cup Echo(t, msg)

\* A frame taken from the queue is gone whether or not the radio sends it.
Transmits(t) ==
  /\ hand[t] = Nothing /\ out[t] # <<>>
  /\ out' = [out EXCEPT ![t] = Tail(@)]
  /\ left' = [left EXCEPT ![t] = Append(@, Head(out[t]).message)]
  /\ Echoed(t, Head(out[t]).message)
  /\ UNCHANGED <<relay, inbound, ui, hand, typed>>

\* The endless loops around the queues, one of each kind of task.
LoraLoop   == Hears("Lora") \/ Pushes("Lora") \/ Transmits("Lora")
EspNowLoop == Hears("EspNow") \/ Pushes("EspNow") \/ Transmits("EspNow")
UiLoop     == SendsLocal \/ UiShows

=============================================================================

-------------------------------- MODULE Relay --------------------------------
(***************************************************************************)
(* relaystar-relay's Relay engine: one value holding the id counter, the   *)
(* receiver table, the reassembler, the seen cache and the registered      *)
(* ports.  Every public operation is an operator from an engine (and its   *)
(* inputs) to the engine it leaves and what it returns.                    *)
(*                                                                         *)
(* A destination is a node's address, or BROADCAST_ADDR for                *)
(* Destination::Broadcast; it doubles as the FrameAddr of the frames.      *)
(***************************************************************************)
EXTENDS SeenCache, ReceiverTable, Fragmenter

CONSTANTS
  IdBits,   \* width of a message id (32)
  SeqBits   \* position of the slice number in a dedup key (16)

\* Powers of two, as a function on which a proof can recur.
Pow2[k \in Nat] == IF k = 0 THEN 1 ELSE 2 * Pow2[k - 1]

IdSpace == Pow2[IdBits]

ASSUME RelayAssumption ==
  /\ IdBits \in Nat /\ SeqBits \in Nat
  /\ 0 .. IdSpace - 1 \subseteq Key

NewRelay(self_addr, id_base) ==
  [self_addr |-> self_addr, id_base |-> id_base, id_ctr |-> 0,
   receivers |-> EmptyTable, slots |-> EmptySlots, seen |-> EmptyCache,
   registered |-> {}]

\* next_id, n calls ahead: a wrapping add of the base and the counter.
NthId(relay, n) == (relay.id_base + relay.id_ctr + n) % IdSpace
NextId(relay) == NthId(relay, 0)
TakeIds(relay, n) == [relay EXCEPT !.id_ctr = (@ + n) % IdSpace]

RegisterPort(relay, t)   == [relay EXCEPT !.registered = @ \cup {t}]
UnregisterPort(relay, t) == [relay EXCEPT !.registered = @ \ {t}]

AddReceiver(relay, addr, t)  == [relay EXCEPT !.receivers = Add(@, addr, t)]
RemoveReceiver(relay, addr)  == [relay EXCEPT !.receivers = Remove(@, addr)]

-----------------------------------------------------------------------------
(* Sending: plan_send, plan_forward, send, forward.                         *)

Refused(relay, err) == [relay |-> relay, frames |-> <<>>, err |-> err]

Planned(t, addr, frames) ==
  [k \in DOMAIN frames |-> [transport |-> t, addr |-> addr, message |-> frames[k]]]

\* Those of a set of transports, in the order of Transport::ALL.
InOrder(S) == Ext!FlattenSeq([k \in DOMAIN ALL |-> IF ALL[k] \in S THEN <<ALL[k]>> ELSE <<>>])

AnyRegistered(relay, dest) == InOrder(relay.registered)            \* mutant

\* resolve_targets: a unicast to a peer no registered transport reaches has none.
ResolveTargets(relay, dest) ==
  InOrder({t \in relay.registered :
    dest # BROADCAST_ADDR =>
      Known(relay.receivers, dest) /\ t \in TransportsFor(relay.receivers, dest)})

GroupIsId(relay, k) == NextId(relay)                               \* mutant
\* The id of a message and then one group id per target, the k-th for the k-th target.
GroupFor(relay, k) == NthId(relay, k)

\* plan_send: fresh id, then per target prepare, a group id and split; the first
\* error abandons the whole plan but not the ids it took.
PlanSend(relay, kind, payload, dest) ==
  LET targets == ResolveTargets(relay, dest)
      msg(t) == Prepare(NextId(relay), DEFAULT_TTL, t, relay.self_addr, dest, kind, payload)
      split(k) == Split(msg(targets[k]), targets[k], GroupFor(relay, k))
      failing == {k \in DOMAIN targets : split(k) = <<>>}
  IN  IF relay.registered = {} THEN Refused(relay, "NoPortsRegistered")
      ELSE IF targets = <<>> THEN Refused(relay, "UnknownReceiver")
      ELSE IF ~FitsMessage(payload) THEN Refused(TakeIds(relay, 1), "PayloadTooLarge")
      ELSE IF failing # {} THEN Refused(TakeIds(relay, 1 + First(failing)), "PayloadUnfragmentable")
      ELSE [relay  |-> TakeIds(relay, 1 + Len(targets)),
            frames |-> Ext!FlattenSeq([k \in DOMAIN targets |-> Planned(targets[k], dest, split(k))]),
            err    |-> "Ok"]

\* The frames one transport carries of a message, under a fresh group id: the body
\* of plan_forward, and of emit, where a port error may cut the sequence short.
EmitOn(relay, t, msg) ==
  LET frames == Split(msg, t, NextId(relay))
  IN  [relay  |-> TakeIds(relay, 1),
       frames |-> Planned(t, msg.to, frames),
       err    |-> IF frames = <<>> THEN "PayloadUnfragmentable" ELSE "Ok"]

\* plan_forward and forward: nothing to send, and no id taken, once the TTL is spent.
PlanForward(relay, msg, target) ==
  IF ~MayBeRelayed(msg) THEN Refused(relay, "Ok")
  ELSE EmitOn(relay, target, PreparedForRelay(msg))

\* send: the direct API, for the one port the caller holds.
Send(relay, t, kind, payload, dest) ==
  LET targets == ResolveTargets(relay, dest)
      msg == Prepare(NextId(relay), DEFAULT_TTL, t, relay.self_addr, dest, kind, payload)
  IN  IF relay.registered = {} THEN Refused(relay, "NoPortsRegistered")
      ELSE IF dest # BROADCAST_ADDR /\ targets = <<>> THEN Refused(relay, "UnknownReceiver")
      ELSE IF t \notin {targets[k] : k \in DOMAIN targets} THEN Refused(relay, "NoSuchPort")
      ELSE IF ~FitsMessage(payload) THEN Refused(TakeIds(relay, 1), "PayloadTooLarge")
      ELSE EmitOn(TakeIds(relay, 1), t, msg)

-----------------------------------------------------------------------------
(* Receiving: ingest.                                                       *)

Bit(n, k) == (n \div Pow2[k]) % 2

\* Exclusive or: low[k] has its lowest k bits.
Xor(a, b) ==
  LET low[k \in Nat] == IF k = 0 THEN 0
                        ELSE low[k - 1] + ((Bit(a, k - 1) + Bit(b, k - 1)) % 2) * Pow2[k - 1]
  IN  low[IdBits]

KeyWithGroup(msg) ==                                               \* mutant
  IF msg.frag = NoFrag THEN msg.id
  ELSE Xor(Xor(msg.id, msg.frag.group_id), (msg.frag.seq * Pow2[SeqBits]) % IdSpace)

\* The dedup key of a frame: slices share the id and differ in the shifted seq.
DedupKey(msg) ==
  IF msg.frag = NoFrag THEN msg.id
  ELSE Xor(msg.id, (msg.frag.seq * Pow2[SeqBits]) % IdSpace)

\* Senders are learnt from every frame, duplicates included.
Learnt(relay, msg, source) ==
  IF msg.from = BROADCAST_ADDR \/ msg.from = relay.self_addr THEN relay.receivers
  ELSE Add(relay.receivers, msg.from, source)

DirectAll(relay, msg) == [tag |-> "Complete", msg |-> msg]         \* mutant
Direct(relay, msg) ==
  IF msg.to = relay.self_addr \/ IsBroadcast(msg)
  THEN [tag |-> "Complete", msg |-> msg]
  ELSE [tag |-> "NotForMe", msg |-> msg]

Directed(relay, out) ==
  IF out.tag \in {"Passthrough", "Complete"} THEN Direct(relay, out.msg) ELSE out

\* The message ingest hands to the engine: its origin is where it came from.
Received(frame, source) == [frame EXCEPT !.origin = source]

\* ingest of a frame that decodes: learn, drop duplicates, reassemble, direct.
\* (Bytes that do not decode change nothing.)
IngestFrame(relay, source, frame) ==
  LET msg == Received(frame, source)
      key == DedupKey(msg)
      reassembled == Ingest(relay.slots, msg)
      learnt == [relay EXCEPT !.receivers = Learnt(relay, msg, source)]
  IN  IF Contains(relay.seen, key)
      THEN [relay |-> learnt, out |-> [tag |-> "Duplicate"]]
      ELSE [relay |-> [learnt EXCEPT !.seen = CheckAndInsert(@, key), !.slots = reassembled.slots],
            out   |-> Directed(relay, reassembled.out)]

=============================================================================

-------------------------------- MODULE Proto --------------------------------
(***************************************************************************)
(* The vocabulary relaystar-proto shares with every other crate: the       *)
(* transports in fan-out order, the capacity of a frame on each, and the   *)
(* hop budget of a message.  A message is a record                         *)
(*   [id, ttl, origin, from, to, kind, payload, frag]                      *)
(* with frag = NoFrag (declared in Reassembler) when it is None.           *)
(***************************************************************************)
EXTENDS Naturals, Sequences

CONSTANTS
  MaxPayload,      \* Transport::max_payload: 180, 4096 and 200 bytes
  DEFAULT_TTL,     \* the hop budget of a fresh message (4)
  BROADCAST_ADDR   \* the address FF:FF:FF:FF:FF:FF

ALL == <<"Lora", "Mqtt", "EspNow">>
Transport == {ALL[k] : k \in DOMAIN ALL}

ASSUME ProtoAssumption ==
  /\ MaxPayload \in [Transport -> Nat]
  /\ DEFAULT_TTL \in Nat

IsBroadcast(msg) == msg.to = BROADCAST_ADDR

\* prepared_for_relay returns None once the hop budget is spent.
MayBeRelayed(msg) == msg.ttl # 0

PreparedWithoutDecrement(msg) == msg                               \* mutant
PreparedForRelay(msg) == [msg EXCEPT !.ttl = @ - 1]

=============================================================================

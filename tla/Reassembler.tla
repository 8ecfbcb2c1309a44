----------------------------- MODULE Reassembler -----------------------------
(***************************************************************************)
(* relaystar-relay's Reassembler<SLOTS, PER_SLOT>: a fixed array of slots, *)
(* each collecting the slices of one (group_id, total).  The operators     *)
(* work on the slot array; ReassemblerSpec is the state machine of one     *)
(* reassembler and Relay embeds one in each node.                          *)
(*                                                                         *)
(* Of a message only frag and payload are looked at here; whatever else    *)
(* its record holds (id, ttl, addresses, kind) travels in the template.    *)
(***************************************************************************)
EXTENDS Naturals, FiniteSets, Sequences
Ext == INSTANCE SequencesExt

CONSTANTS
  SLOTS,        \* concurrent groups (2 on the LoRa node, 4 on the Cardputer)
  PER_SLOT,     \* fragments per group (32)
  MAX_PAYLOAD,  \* the payload capacity of a Message (200)
  NoFrag,       \* a message's frag when it is None
  NoTemplate    \* a slot's template when it is None

\* The doc of Relay bounds NF by the 64 bits of seen_mask.
ASSUME ReassemblerAssumption ==
  /\ SLOTS \in Nat \ {0}
  /\ PER_SLOT \in 1 .. 64
  /\ MAX_PAYLOAD \in Nat

SlotIndex == 1 .. SLOTS
Bucket == 0 .. PER_SLOT - 1

EmptySlot ==
  [in_use |-> FALSE, group_id |-> 0, total |-> 0, received |-> 0,
   seen_mask |-> {}, fragments |-> [q \in Bucket |-> <<>>], template |-> NoTemplate]

EmptySlots == [i \in SlotIndex |-> EmptySlot]

Passthrough(msg) == [tag |-> "Passthrough", msg |-> msg]
Buffered         == [tag |-> "Buffered"]
Complete(msg)    == [tag |-> "Complete", msg |-> msg]
Dropped(reason)  == [tag |-> "Dropped", reason |-> reason]

ValidHeader(f) == f.total # 0 /\ f.seq < f.total /\ f.total <= PER_SLOT /\ f.total <= 64

MatchesGroupOnly(slot, f) == slot.in_use /\ slot.group_id = f.group_id  \* mutant

Matches(slot, f) ==
  slot.in_use /\ slot.group_id = f.group_id /\ slot.total = f.total

Existing(slots, f) == {i \in SlotIndex : Matches(slots[i], f)}
FreeSlots(slots)   == {i \in SlotIndex : ~slots[i].in_use}

\* The loops over the array stop at the first index that qualifies.
First(S) == CHOOSE i \in S : \A j \in S : i <= j

\* A claimed slot: the buckets are those the last reset cleared.
Claimed(slot, msg) ==
  [in_use |-> TRUE, group_id |-> msg.frag.group_id, total |-> msg.frag.total,
   received |-> 0, seen_mask |-> {}, fragments |-> slot.fragments,
   template |-> [msg EXCEPT !.payload = <<>>, !.frag = NoFrag]]

\* find_or_claim: the slot index, and the slot as it stands there after the call.
SlotFor(slots, f) ==
  First(IF Existing(slots, f) # {} THEN Existing(slots, f) ELSE FreeSlots(slots))

FoundOrClaimed(slots, msg) ==
  LET i == SlotFor(slots, msg.frag)
  IN  IF Existing(slots, msg.frag) # {} THEN slots[i] ELSE Claimed(slots[i], msg)

NeverHas(slot, f) == FALSE                                              \* mutant
AlreadyHas(slot, f) == f.seq \in slot.seen_mask

StoredByArrival(slot, msg) ==                                           \* mutant
  [slot EXCEPT !.fragments[slot.received] = msg.payload,
               !.seen_mask = @ \cup {msg.frag.seq},
               !.received = @ + 1]

Stored(slot, msg) ==
  [in_use |-> slot.in_use, group_id |-> slot.group_id, total |-> slot.total,
   received |-> slot.received + 1,
   seen_mask |-> slot.seen_mask \cup {msg.frag.seq},
   fragments |-> [slot.fragments EXCEPT ![msg.frag.seq] = msg.payload],
   template |-> slot.template]

Concat(slices) == Ext!FlattenSeq(slices)

\* The buckets of a full slot, concatenated in slice order.
Assembled(slot) == Concat([k \in 1 .. slot.total |-> slot.fragments[k - 1]])

\* ingest: the slots it leaves behind and the outcome it returns.  (Copying one
\* slice into its bucket cannot fail: both hold at most MAX_PAYLOAD bytes.)
Ingest(slots, msg) ==
  LET f      == msg.frag
      i      == SlotFor(slots, f)
      opened == FoundOrClaimed(slots, msg)
      stored == Stored(opened, msg)
      leave(out)    == [slots |-> slots, out |-> out]
      put(s, out)   == [slots |-> [slots EXCEPT ![i] = s], out |-> out]
  IN  IF f = NoFrag THEN leave(Passthrough(msg))
      ELSE IF ~ValidHeader(f) THEN leave(Dropped("BadHeader"))
      ELSE IF Existing(slots, f) = {} /\ FreeSlots(slots) = {} THEN leave(Dropped("NoSlot"))
      ELSE IF AlreadyHas(opened, f) THEN leave(Dropped("DuplicateSlice"))
      ELSE IF stored.received < stored.total THEN put(stored, Buffered)
      ELSE IF Len(Assembled(stored)) > MAX_PAYLOAD
           THEN put(EmptySlot, Dropped("PayloadTooLarge"))
      ELSE put(EmptySlot, Complete([stored.template EXCEPT !.payload = Assembled(stored)]))

\* evict: reset the first slot in use for the group, if there is one.
Evictable(slots, group_id) ==
  {i \in SlotIndex : slots[i].in_use /\ slots[i].group_id = group_id}

Evict(slots, group_id) ==
  IF Evictable(slots, group_id) = {} THEN slots
  ELSE [slots EXCEPT ![First(Evictable(slots, group_id))] = EmptySlot]

InFlight(slots) == Cardinality({i \in SlotIndex : slots[i].in_use})

=============================================================================

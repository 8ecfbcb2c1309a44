--------------------------- MODULE ReassemblerSpec ---------------------------
(***************************************************************************)
(* One Reassembler under every call of its public interface: slices of the *)
(* streams several senders fragmented, interleaved, repeated and lost at   *)
(* will (a lost slice is one that never arrives), messages that were never *)
(* fragmented, inconsistent headers, and evictions.                        *)
(***************************************************************************)
EXTENDS Reassembler

CONSTANTS
  Stream,     \* what was fragmented: [group_id, head, slices]; head stands for
              \* the header fields all slices share (id, ttl, from, to, kind)
  Whole,      \* messages with frag = None: [head, payload, frag]
  BadHeader   \* inconsistent fragment headers: [group_id, seq, total]

Frame(st, q) ==
  [head |-> st.head, payload |-> st.slices[q + 1],
   frag |-> [group_id |-> st.group_id, seq |-> q, total |-> Len(st.slices)]]

Original(st) == [head |-> st.head, payload |-> Concat(st.slices), frag |-> NoFrag]

\* Within the life of the reassembler no two streams share group id and total:
\* Relay::next_id hands out a group id once.  A reboot of the sender breaks
\* this (its counter restarts at 0); that case is not in this module.
ASSUME StreamAssumption ==
  /\ \A st \in Stream : /\ st.group_id \in Nat
                        /\ st.slices \in Seq(Seq(Nat))
                        /\ Len(st.slices) \in 1 .. PER_SLOT
                        /\ st.head # NoTemplate
  /\ \A s, t \in Stream :
       s.group_id = t.group_id /\ Len(s.slices) = Len(t.slices) => s = t
  /\ \A st \in Stream : \A q \in 0 .. Len(st.slices) - 1 : Frame(st, q).frag # NoFrag
  /\ \A h \in BadHeader : h # NoFrag /\ ~ValidHeader(h)
  /\ \A m \in Whole : m.frag = NoFrag

VARIABLES
  slots,  \* the slot array
  out,    \* what the last call returned
  call    \* history: the last call

vars == <<slots, out, call>>

Init == slots = EmptySlots /\ out = [tag |-> "None"] /\ call = <<>>

IngestCall(msg) ==
  /\ slots' = Ingest(slots, msg).slots
  /\ out' = Ingest(slots, msg).out

SliceArrives(st, q) ==
  /\ IngestCall(Frame(st, q))
  /\ call' = <<"slice", <<st.group_id, Len(st.slices)>>, q>>

BadHeaderArrives(st, h) ==
  /\ IngestCall([Frame(st, 0) EXCEPT !.frag = h])
  /\ call' = <<"bad", h>>

WholeArrives(m) == IngestCall(m) /\ call' = <<"whole", m>>

EvictCall(group_id) ==
  /\ slots' = Evict(slots, group_id)
  /\ out' = IF Evictable(slots, group_id) = {} THEN [tag |-> "None"] ELSE [tag |-> "Evicted"]
  /\ call' = <<"evict", group_id>>

Next ==
  \/ \E st \in Stream : \E q \in 0 .. Len(st.slices) - 1 : SliceArrives(st, q)
  \/ \E st \in Stream, h \in BadHeader : BadHeaderArrives(st, h)
  \/ \E m \in Whole : WholeArrives(m)
  \/ \E st \in Stream : EvictCall(st.group_id)

Spec == Init /\ [][Next]_vars

-----------------------------------------------------------------------------

Template(st) == [head |-> st.head, payload |-> <<>>, frag |-> NoFrag]

SlotType ==
  [in_use : BOOLEAN, group_id : Nat, total : Nat, received : Nat,
   seen_mask : SUBSET Bucket, fragments : [Bucket -> Seq(Nat)],
   template : {NoTemplate} \cup {Template(st) : st \in Stream}]

TypeOK == slots \in [SlotIndex -> SlotType]

InUse == {i \in SlotIndex : slots[i].in_use}

\* A slot in use collects one stream: it holds a proper, non-empty part of the
\* stream's slices, each in its own bucket, and the counter counts them.
Collecting(slot, st) ==
  /\ slot.group_id = st.group_id /\ slot.total = Len(st.slices)
  /\ slot.seen_mask \subseteq 0 .. slot.total - 1
  /\ slot.received = Cardinality(slot.seen_mask)
  /\ 0 < slot.received /\ slot.received < slot.total
  /\ \A q \in slot.seen_mask : slot.fragments[q] = st.slices[q + 1]
  /\ slot.template = Template(st)

\* At rest every slot is either as reset leaves it or collects one stream, and no
\* two slots collect the same one: the slices of a group cannot be split over two
\* slots (which would starve both) and slices of different groups never mix, in
\* any interleaving of arrivals and evictions.
SlotsConsistent ==
  /\ \A i \in SlotIndex : slots[i] # EmptySlot =>
       slots[i].in_use /\ \E st \in Stream : Collecting(slots[i], st)
  /\ \A i, j \in InUse :
       slots[i].group_id = slots[j].group_id /\ slots[i].total = slots[j].total => i = j

\* The inductive invariant of the slot array.
SlotsInv == TypeOK /\ SlotsConsistent

\* A message handed out as complete is, byte for byte and header included, one
\* that some sender fragmented, whatever the order in which slices arrived.
CompleteIsOriginal ==
  out.tag = "Complete" => \E st \in Stream : out.msg = Original(st)

\* The slots seen as a pool of open groups.
SlotOf(key) == CHOOSE i \in InUse : <<slots[i].group_id, slots[i].total>> = key
Pending ==
  [key \in {<<slots[i].group_id, slots[i].total>> : i \in InUse} |-> slots[SlotOf(key)].seen_mask]
Outcome ==
  IF out.tag = "Complete"
  THEN [tag |-> "Complete", head |-> out.msg.head, payload |-> out.msg.payload]
  ELSE out

Sent == {[group_id |-> st.group_id, total |-> Len(st.slices), head |-> st.head,
          payload |-> Concat(st.slices)] : st \in Stream}

Abstract == INSTANCE ReassemblyPool WITH Stream <- Sent, pending <- Pending, out <- Outcome

\* The slot array implements the pool: a group completes exactly at the arrival of
\* its last missing slice, a repeated slice changes nothing, and a group is refused
\* only when SLOTS other groups are open.
PoolBehaviour == Abstract!Spec

=============================================================================

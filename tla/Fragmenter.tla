----------------------------- MODULE Fragmenter -----------------------------
(***************************************************************************)
(* relaystar-relay's Fragmenter: builds a message and splits it into the   *)
(* frames one transport can carry.                                         *)
(***************************************************************************)
EXTENDS Proto, Reassembler

CONSTANT MAX_FRAGMENTS   \* slices of a message (32)

ASSUME FragmenterAssumption == MAX_FRAGMENTS \in Nat

\* A payload that exceeds one Message is refused before it can be split.
FitsMessage(payload) == Len(payload) <= MAX_PAYLOAD

Prepare(id, ttl, origin, from, to, kind, payload) ==
  [id |-> id, ttl |-> ttl, origin |-> origin, from |-> from, to |-> to,
   kind |-> kind, payload |-> payload, frag |-> NoFrag]

\* The slice size on a transport.
Mtu(t) == IF MaxPayload[t] < MAX_PAYLOAD THEN MaxPayload[t] ELSE MAX_PAYLOAD

\* div_ceil
SliceCount(msg, t) == (Len(msg.payload) + Mtu(t) - 1) \div Mtu(t)

CutShort(msg, t, seq) ==                                           \* mutant
  SubSeq(msg.payload, seq * Mtu(t) + 1, (seq + 1) * Mtu(t) - 1)

CutSlice(msg, t, seq) ==
  SubSeq(msg.payload, seq * Mtu(t) + 1,
         IF (seq + 1) * Mtu(t) < Len(msg.payload) THEN (seq + 1) * Mtu(t) ELSE Len(msg.payload))

SliceOf(msg, t, group_id, seq) ==
  [id |-> msg.id, ttl |-> msg.ttl, origin |-> msg.origin, from |-> msg.from, to |-> msg.to,
   kind |-> msg.kind, payload |-> CutSlice(msg, t, seq),
   frag |-> [group_id |-> group_id, seq |-> seq, total |-> SliceCount(msg, t)]]

Unfragmentable(msg, t) ==
  \/ Mtu(t) = 0
  \/ /\ msg.frag = NoFrag
     /\ Len(msg.payload) > Mtu(t)
     /\ SliceCount(msg, t) > MAX_FRAGMENTS

\* split: the frames for transport t, at least one of them; none stands for the
\* PayloadUnfragmentable error.
Split(msg, t, group_id) ==
  IF Unfragmentable(msg, t) THEN <<>>
  ELSE IF msg.frag # NoFrag \/ Len(msg.payload) <= Mtu(t) THEN <<msg>>
  ELSE [k \in 1 .. SliceCount(msg, t) |-> SliceOf(msg, t, group_id, k - 1)]

=============================================================================

--------------------------- MODULE ReassemblyPool ----------------------------
(***************************************************************************)
(* What a reassembly buffer promises, with no slots, counters or buckets:  *)
(* for at most SLOTS open groups it remembers which slices arrived, and it *)
(* hands out a group's original message at the arrival of the last one     *)
(* missing, each slice counted once, in whatever order they come.          *)
(***************************************************************************)
EXTENDS Naturals, FiniteSets, Sequences

CONSTANTS SLOTS, MAX_PAYLOAD,
  Stream,       \* what was fragmented: [group_id, total, head, payload]
  Whole,        \* messages that were not
  BadHeader     \* fragments with a header no split produces

VARIABLES
  pending,  \* the open groups: (group_id, total) -> the slices that arrived
  out,      \* the outcome of the last call
  call      \* the last call

vars == <<pending, out, call>>

KeyOf(st) == <<st.group_id, st.total>>

Got(st) == IF KeyOf(st) \in DOMAIN pending THEN pending[KeyOf(st)] ELSE {}

Init == pending = <<>> /\ out = [tag |-> "None"] /\ call = <<>>

Open(st) == KeyOf(st) \in DOMAIN pending
Room(st) == Open(st) \/ Cardinality(DOMAIN pending) < SLOTS

Refuse(st) == ~Room(st) /\ out' = [tag |-> "Dropped", reason |-> "NoSlot"]
              /\ UNCHANGED pending

Repeat(st, q) == q \in Got(st) /\ out' = [tag |-> "Dropped", reason |-> "DuplicateSlice"]
                 /\ UNCHANGED pending

Collect(st, q) ==
  /\ Room(st) /\ q \notin Got(st)
  /\ Got(st) \cup {q} # 0 .. st.total - 1
  /\ pending' = [k \in DOMAIN pending \cup {KeyOf(st)} |->
                   IF k = KeyOf(st) THEN Got(st) \cup {q} ELSE pending[k]]
  /\ out' = [tag |-> "Buffered"]

Finish(st, q) ==
  /\ Room(st) /\ q \notin Got(st)
  /\ Got(st) \cup {q} = 0 .. st.total - 1
  /\ pending' = [k \in DOMAIN pending \ {KeyOf(st)} |-> pending[k]]
  /\ out' = IF Len(st.payload) > MAX_PAYLOAD
            THEN [tag |-> "Dropped", reason |-> "PayloadTooLarge"]
            ELSE [tag |-> "Complete", head |-> st.head, payload |-> st.payload]

SliceArrives(st, q) ==
  /\ call' = <<"slice", KeyOf(st), q>>
  /\ Refuse(st) \/ Repeat(st, q) \/ Collect(st, q) \/ Finish(st, q)

WholeArrives(m) ==
  /\ call' = <<"whole", m>>
  /\ out' = [tag |-> "Passthrough", msg |-> m] /\ UNCHANGED pending

BadHeaderArrives(h) ==
  /\ call' = <<"bad", h>>
  /\ out' = [tag |-> "Dropped", reason |-> "BadHeader"] /\ UNCHANGED pending

\* Closing a group by its id forgets one of the groups that carry it.
Forget(g) ==
  \/ /\ \E k \in DOMAIN pending :
          k[1] = g /\ pending' = [j \in DOMAIN pending \ {k} |-> pending[j]]
     /\ out' = [tag |-> "Evicted"]
  \/ /\ \A k \in DOMAIN pending : k[1] # g
     /\ out' = [tag |-> "None"] /\ UNCHANGED pending

Evict(g) == call' = <<"evict", g>> /\ Forget(g)

Next ==
  \/ \E st \in Stream : \E q \in 0 .. st.total - 1 : SliceArrives(st, q)
  \/ \E m \in Whole : WholeArrives(m)
  \/ \E h \in BadHeader : BadHeaderArrives(h)
  \/ \E st \in Stream : Evict(st.group_id)

Spec == Init /\ [][Next]_vars

=============================================================================

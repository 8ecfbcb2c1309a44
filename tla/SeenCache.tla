------------------------------ MODULE SeenCache ------------------------------
(***************************************************************************)
(* relaystar-proto's SeenCache<N>: the overwriting ring of recently seen   *)
(* keys that every relay uses for duplicate suppression.  The module holds *)
(* the ring's operators on a cache value; SeenCacheSpec is the state       *)
(* machine of one cache and Relay embeds a cache in each node.             *)
(***************************************************************************)
EXTENDS Naturals

CONSTANTS
  N,   \* the ring's capacity (64 in Relay)
  Key  \* the keys that can be recorded (u32 in the code)

\* A ring without slots would divide by zero in insert; ids starts out as [0; N].
ASSUME CacheAssumption == N \in Nat \ {0} /\ Key \subseteq Nat /\ 0 \in Key

Slot == 0 .. N - 1

Cache == [ids : [Slot -> Key], valid : [Slot -> BOOLEAN], next : Slot]

EmptyCache ==
  [ids |-> [i \in Slot |-> 0], valid |-> [i \in Slot |-> FALSE], next |-> 0]

ContainsIgnoringValid(c, id) == \E i \in Slot : c.ids[i] = id  \* mutant

\* contains: some slot that was written holds the key.
Contains(c, id) == \E i \in Slot : c.valid[i] /\ c.ids[i] = id

InsertWithoutWrap(c, id) ==                                    \* mutant
  [ids   |-> [c.ids EXCEPT ![c.next] = id],
   valid |-> [c.valid EXCEPT ![c.next] = TRUE],
   next  |-> c.next + 1]

InsertWithoutAdvance(c, id) ==                                 \* mutant
  [ids   |-> [c.ids EXCEPT ![c.next] = id],
   valid |-> [c.valid EXCEPT ![c.next] = TRUE],
   next  |-> c.next]

\* insert: overwrite the slot next points at, the oldest one once the ring is full.
Insert(c, id) ==
  [ids   |-> [c.ids EXCEPT ![c.next] = id],
   valid |-> [c.valid EXCEPT ![c.next] = TRUE],
   next  |-> (c.next + 1) % N]

\* The cache check_and_insert leaves behind; it returns ~Contains(c, id).
CheckAndInsert(c, id) == IF Contains(c, id) THEN c ELSE Insert(c, id)

=============================================================================

---------------------------- MODULE SeenCacheSpec ----------------------------
(***************************************************************************)
(* One SeenCache under every call of its public interface.  check_and_     *)
(* insert is what Relay::ingest calls; insert alone is public as well.     *)
(***************************************************************************)
EXTENDS SeenCache, Sequences

VARIABLES
  cache,   \* the SeenCache
  verdict, \* what the last check_and_insert returned
  call     \* history: the last call, <<operation, key>>

vars == <<cache, verdict, call>>

Init == cache = EmptyCache /\ verdict = FALSE /\ call = <<>>

CheckAndInsertCall(id) ==
  /\ verdict' = ~Contains(cache, id)
  /\ cache' = CheckAndInsert(cache, id)
  /\ call' = <<"check", id>>

InsertCall(id) ==
  /\ cache' = Insert(cache, id)
  /\ call' = <<"insert", id>>
  /\ UNCHANGED verdict

Next == \E id \in Key : CheckAndInsertCall(id) \/ InsertCall(id)

Spec == Init /\ [][Next]_vars

-----------------------------------------------------------------------------

\* The ring is well formed: every index, key and flag is in range.
TypeOK == cache \in Cache /\ verdict \in BOOLEAN

\* The ring fills from slot 0 upwards, and once full it stays full.
FillsInOrder ==
  \/ \A i \in Slot : cache.valid[i]
  \/ \A i \in Slot : cache.valid[i] <=> i < cache.next

\* Together they are inductive: without FillsInOrder the window below would not
\* be the keys in the order they were recorded.
RingInv == TypeOK /\ FillsInOrder

\* The keys the ring holds, oldest first.
Window ==
  IF cache.valid[cache.next]
  THEN [k \in 1 .. N |-> cache.ids[(cache.next + (k - 1)) % N]]
  ELSE [k \in 1 .. cache.next |-> cache.ids[k - 1]]

Abstract == INSTANCE SeenWindow WITH window <- Window

\* The ring keeps exactly the last N keys recorded: a key is reported as a
\* duplicate if and only if it is one of them, whatever the order of the calls
\* and however often the ring has wrapped.
RemembersLastN == Abstract!Spec

=============================================================================

-------------------------- MODULE ReceiverTableSpec --------------------------
(***************************************************************************)
(* One ReceiverTable under every call of its public interface.             *)
(***************************************************************************)
EXTENDS PeerTable, FiniteSets

VARIABLES
  rows,    \* the table's entries
  answer,  \* what the last call returned
  call     \* history: the last call, <<operation, peer, transports>>

vars == <<rows, answer, call>>

Init == rows = EmptyTable /\ answer = "None" /\ call = <<>>

AddCall(p, t) ==
  /\ rows' = Add(rows, p, t)
  /\ answer' = AddAnswer(rows, p, t)
  /\ call' = <<"add", p, {t}>>

RemoveTransportCall(p, t) ==
  /\ rows' = RemoveTransport(rows, p, t)
  /\ answer' = IF Known(rows, p) /\ t \in TransportsFor(rows, p) THEN "Changed" ELSE "Unchanged"
  /\ call' = <<"remove", p, {t}>>

RemoveCall(p) ==
  /\ rows' = Remove(rows, p)
  /\ answer' = IF Known(rows, p) THEN "Changed" ELSE "Unchanged"
  /\ call' = <<"remove", p, Transport>>

ClearCall == rows' = EmptyTable /\ answer' = "None" /\ call' = <<"clear">>

Next ==
  \/ \E p \in Peer, t \in Transport : AddCall(p, t) \/ RemoveTransportCall(p, t)
  \/ \E p \in Peer : RemoveCall(p)
  \/ ClearCall

Spec == Init /\ [][Next]_vars

-----------------------------------------------------------------------------

\* The inductive invariant: the table fits, no row is empty, and an address has one
\* row.  A second row for an address would be shadowed by the first in every lookup
\* and would come back to life when that one is swap-removed.
TableInv == WellFormed(rows)

Via == RouteMap(rows)

Abstract == INSTANCE PeerMap WITH via <- Via

\* Whatever the order of insertions and of removals that move rows about, the table
\* behaves as the map: no call disturbs another peer's routes.
BehavesAsMap == Abstract!Spec

=============================================================================

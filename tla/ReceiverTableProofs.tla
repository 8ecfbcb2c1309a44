------------------------ MODULE ReceiverTableProofs ------------------------
(***************************************************************************)
(* For every table size, every set of peers and every sequence of calls:   *)
(* the table stays well formed and behaves as a map from peers to          *)
(* transports.                                                             *)
(***************************************************************************)
EXTENDS ReceiverTableSpec, ReceiverTableLemmas

\* The copy of Cardinality that PeerMap brings in is Cardinality.
LEMMA SameCardinality == \A S : Abstract!Cardinality(S) = Cardinality(S)
BY DEF Abstract!Cardinality, Cardinality

\* Every call keeps the table well formed: it fits, has no empty row, and has one row
\* per address (receivers.rs add, remove_transport, remove, clear).
THEOREM TableStaysWellFormed == Spec => []TableInv
<1>1. Init => TableInv
  BY EmptyTableFacts DEF Init, TableInv
<1>2. TableInv /\ [Next]_vars => TableInv'
  <2> SUFFICES ASSUME TableInv, [Next]_vars PROVE TableInv'  OBVIOUS
  <2>1. ASSUME NEW p \in Peer, NEW t \in Transport, AddCall(p, t) PROVE TableInv'
    BY <2>1, AddMaps DEF AddCall, TableInv
  <2>2. ASSUME NEW p \in Peer, NEW t \in Transport, RemoveTransportCall(p, t) PROVE TableInv'
    BY <2>2, RemoveTransportMaps DEF RemoveTransportCall, TableInv
  <2>3. ASSUME NEW p \in Peer, RemoveCall(p) PROVE TableInv'
    BY <2>3, RemoveMaps DEF RemoveCall, TableInv
  <2>4. CASE ClearCall
    BY <2>4, EmptyTableFacts DEF ClearCall, TableInv
  <2>5. CASE UNCHANGED vars
    BY <2>5 DEF vars, TableInv
  <2> QED  BY <2>1, <2>2, <2>3, <2>4, <2>5 DEF Next
<1> QED  BY <1>1, <1>2, PTL DEF Spec

\* The table behaves as a bounded map from peers to transports: no call, and no row a
\* removal moves, disturbs another peer's routes.
THEOREM TableIsMap == Spec => BehavesAsMap
<1>1. Init => Abstract!Init
  BY EmptyTableFacts DEF Init, Via, Abstract!Init
<1>2. TableInv /\ [Next]_vars => [Abstract!Next]_(Abstract!vars)
  <2> SUFFICES ASSUME TableInv, [Next]_vars PROVE [Abstract!Next]_(Abstract!vars)  OBVIOUS
  <2>1. WellFormed(rows)  BY DEF TableInv
  <2>2. ASSUME NEW p \in Peer
        PROVE  /\ Via[p] # {} <=> Known(rows, p)
               /\ Known(rows, p) => Via[p] = TransportsFor(rows, p)
    BY <2>1, RouteMapAt DEF Via, RouteMap
  <2>3. Abstract!Tracked = {p \in Peer : Via[p] # {}}
    BY DEF Abstract!Tracked
  <2>4. Abstract!Cardinality(Abstract!Tracked) = Len(rows)
    BY <2>1, <2>3, TrackedIsLen, SameCardinality DEF Via
  <2>5. Len(rows) \in Nat /\ NR \in Nat /\ Len(rows) <= NR
    BY <2>1, TableShape, TableAssumption DEF WellFormed, TableAssumption
  <2>6. ASSUME NEW p \in Peer, NEW t \in Transport, AddCall(p, t)
        PROVE  Abstract!Observe(p, t)
    <3>1. p \in Abstract!Tracked <=> Known(rows, p)  BY <2>2, <2>3
    <3>2. CASE Known(rows, p) \/ Len(rows) < NR
      <4>1. Via' = [Via EXCEPT ![p] = @ \cup {t}]
        BY <2>1, <2>6, <3>2, AddMaps DEF AddCall, Via
      <4>2. answer' = IF t \in Via[p] THEN "Known" ELSE "Added"
        BY <2>2, <2>6, <3>2 DEF AddCall, AddAnswer
      <4> QED  BY <2>4, <3>1, <3>2, <4>1, <4>2 DEF Abstract!Observe
    <3>3. CASE ~Known(rows, p) /\ ~(Len(rows) < NR)
      <4>1. Via' = Via  BY <2>1, <2>6, <3>3, AddMaps DEF AddCall, Via
      <4>2. answer' = "ReceiverTableFull"  BY <2>6, <3>3 DEF AddCall, AddAnswer
      <4>3. Len(rows) >= NR  BY <2>5, <3>3
      <4> QED  BY <2>4, <3>1, <3>3, <4>1, <4>2, <4>3 DEF Abstract!Observe
    <3> QED  BY <3>2, <3>3
  <2>7. ASSUME NEW p \in Peer, NEW t \in Transport, RemoveTransportCall(p, t)
        PROVE  Abstract!Forget(p, {t})
    <3>1. Via' = [Via EXCEPT ![p] = @ \ {t}]
      BY <2>1, <2>7, RemoveTransportMaps DEF RemoveTransportCall, Via
    <3>2. answer' = IF Via[p] \cap {t} # {} THEN "Changed" ELSE "Unchanged"
      BY <2>2, <2>7 DEF RemoveTransportCall
    <3> QED  BY <3>1, <3>2 DEF Abstract!Forget
  <2>8. ASSUME NEW p \in Peer, RemoveCall(p)
        PROVE  Abstract!Forget(p, Transport)
    <3>1. Via' = [Via EXCEPT ![p] = @ \ Transport]
      BY <2>1, <2>8, RemoveMaps DEF RemoveCall, Via
    <3>2. Via[p] \subseteq Transport  BY <2>1, RouteMapAt DEF Via
    <3>3. answer' = IF Via[p] \cap Transport # {} THEN "Changed" ELSE "Unchanged"
      BY <2>2, <2>8, <3>2 DEF RemoveCall
    <3> QED  BY <3>1, <3>3 DEF Abstract!Forget
  <2>9. CASE ClearCall
    <3>1. Via' = [p \in Peer |-> {}]  BY <2>9, EmptyTableFacts DEF ClearCall, Via
    <3> QED  BY <2>9, <3>1 DEF ClearCall, Abstract!ForgetAll, Abstract!Next
  <2>10. CASE UNCHANGED vars
    BY <2>10 DEF vars, Via, Abstract!vars
  <2>11. ASSUME NEW p \in Peer, NEW t \in Transport, AddCall(p, t) PROVE Abstract!Next
    BY <2>6, <2>11 DEF AddCall, Abstract!Next
  <2>12. ASSUME NEW p \in Peer, NEW t \in Transport, RemoveTransportCall(p, t) PROVE Abstract!Next
    BY <2>7, <2>12 DEF RemoveTransportCall, Abstract!Next
  <2>13. ASSUME NEW p \in Peer, RemoveCall(p) PROVE Abstract!Next
    BY <2>8, <2>13 DEF RemoveCall, Abstract!Next
  <2> QED  BY <2>9, <2>10, <2>11, <2>12, <2>13 DEF Next
<1> QED  BY <1>1, <1>2, TableStaysWellFormed, PTL DEF Spec, BehavesAsMap, Abstract!Spec

=============================================================================

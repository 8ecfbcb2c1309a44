------------------------------ MODULE PeerTable ------------------------------
(***************************************************************************)
(* The receiver tables of a node whose peers are Peer, and the map from    *)
(* peers to transports such a table stands for.                            *)
(***************************************************************************)
EXTENDS ReceiverTable

CONSTANT Peer   \* the addresses of the other nodes

\* A row lists the transports a peer was heard on, at least one.
Row == [addr : Peer, transports : (SUBSET Transport) \ {{}}]

\* The table fits, no row is empty, and an address has one row.
WellFormed(rs) ==
  /\ rs \in Seq(Row) /\ Len(rs) <= NR
  /\ \A i, j \in 1 .. Len(rs) : rs[i].addr = rs[j].addr => i = j

\* The transports of every peer.
RouteMap(rs) == [p \in Peer |-> IF Known(rs, p) THEN TransportsFor(rs, p) ELSE {}]

=============================================================================

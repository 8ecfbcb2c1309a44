--------------------------- MODULE MCReceiverTable ---------------------------
(* Three peers and two rows: the table fills, refuses, and swaps rows.       *)
EXTENDS ReceiverTableSpec

MCMaxPayload == [t \in Transport |-> 1]

=============================================================================

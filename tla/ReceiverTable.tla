---------------------------- MODULE ReceiverTable ----------------------------
(***************************************************************************)
(* relaystar-relay's ReceiverTable<N>: which peers were observed on which  *)
(* transports.  A table is the sequence of its rows; row order matters to  *)
(* the code (swap_remove moves the last row), never to a caller.  The      *)
(* operators work on a table value: ReceiverTableSpec is the state machine *)
(* of one table and Relay embeds a table in each node.                     *)
(***************************************************************************)
EXTENDS Proto

CONSTANT NR   \* peers the table can track (8 on the LoRa node, 16 on the Cardputer)

ASSUME TableAssumption == NR \in Nat

EmptyTable == <<>>

RowsOf(rows, addr) == {i \in DOMAIN rows : rows[i].addr = addr}
Known(rows, addr) == RowsOf(rows, addr) # {}

\* position / find: the first row of the address.
Position(rows, addr) ==
  CHOOSE i \in RowsOf(rows, addr) : \A j \in RowsOf(rows, addr) : i <= j

\* lookup / transports_for: the transports of a known address.
TransportsFor(rows, addr) == rows[Position(rows, addr)].transports

WithTransports(rows, i, ts) ==
  [rows EXCEPT ![i] = [addr |-> rows[i].addr, transports |-> ts]]

\* add: extend the row, or append one while there is room; a full table is left
\* as it is (add reports ReceiverTableFull, learn and ingest swallow it).
Add(rows, addr, t) ==
  IF Known(rows, addr)
  THEN LET i == Position(rows, addr)
       IN  WithTransports(rows, i, rows[i].transports \cup {t})
  ELSE IF Len(rows) < NR THEN Append(rows, [addr |-> addr, transports |-> {t}])
  ELSE rows

\* The answer of add: newly added, already known, or ReceiverTableFull.
AddAnswer(rows, addr, t) ==
  IF Known(rows, addr)
  THEN IF t \in TransportsFor(rows, addr) THEN "Known" ELSE "Added"
  ELSE IF Len(rows) < NR THEN "Added" ELSE "ReceiverTableFull"

PopLast(rows, i) == SubSeq(rows, 1, Len(rows) - 1)                 \* mutant

SwapRemove(rows, i) == SubSeq([rows EXCEPT ![i] = rows[Len(rows)]], 1, Len(rows) - 1)

RemoveTransportKeepingRow(rows, addr, t) ==                        \* mutant
  IF ~Known(rows, addr) THEN rows
  ELSE LET i == Position(rows, addr) IN WithTransports(rows, i, rows[i].transports \ {t})

\* remove_transport: an emptied row is dropped with its address.
RemoveTransport(rows, addr, t) ==
  IF ~Known(rows, addr) THEN rows
  ELSE LET i    == Position(rows, addr)
           left == rows[i].transports \ {t}
       IN  IF left = {} THEN SwapRemove(rows, i) ELSE WithTransports(rows, i, left)

Remove(rows, addr) ==
  IF Known(rows, addr) THEN SwapRemove(rows, Position(rows, addr)) ELSE rows

=============================================================================

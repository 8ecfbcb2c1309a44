----------------------------- MODULE MCRelaySend -----------------------------
(* The sending half: payloads that fit one transport whole and are split for *)
(* the other, that divide evenly, that are too long for the slices of one    *)
(* transport, and oversize; to two peers and to all, over two transports     *)
(* that split at different sizes, while a third is only received on; room    *)
(* for one peer in the table; ids that wrap around the id space.             *)
EXTENDS RelaySpec

MCMaxPayload == [t \in Transport |-> CASE t = "Lora" -> 2 [] t = "EspNow" -> 3 [] OTHER -> 9]
MCKey == 0 .. 31
MCPayload == {<<1, 2, 3>>, <<1, 2, 3, 4>>, <<1, 2, 3, 4, 5>>, <<1, 2, 3, 4, 5, 6>>}

Passing == Prepare(17, 1, "Lora", "p1", "p2", "Text", <<7, 8, 9>>)
MCForeign == {Passing}
MCGroupsOf == [m \in MCForeign |-> [t \in {"Mqtt"} |-> {18}]]

=============================================================================

----------------------------- MODULE MCMeshTwins -----------------------------
(* Two bridges joined twice, over LoRa and over ESP-NOW, so that every       *)
(* message they forward can come back, and caches of a single key.           *)
EXTENDS Mesh

MCMaxPayload == [t \in Transport |-> 1]
MCKey == 0 .. 7
MCIdBase == [n \in Node |-> IF n = "b" THEN 0 ELSE 4]
MCLink == {<<t, x, y>> \in Transport \X Node \X Node : t # "Mqtt" /\ x # y}

MCLetter == {
  [from |-> "b", to |-> BROADCAST_ADDR, kind |-> "Text", payload |-> <<1>>],
  [from |-> "c", to |-> BROADCAST_ADDR, kind |-> "Text", payload |-> <<2>>]}
MCPong == <<3>>
MCScenario == {[letters |-> MCLetter, links |-> MCLink]}

=============================================================================

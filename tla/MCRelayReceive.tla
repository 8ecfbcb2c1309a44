--------------------------- MODULE MCRelayReceive ---------------------------
(* The receiving half: three messages of one peer, each of them whole over   *)
(* MQTT and in slices over LoRa, one of them split by two nodes.  Ids 1 and 5*)
(* differ by the weight of a slice number, so their dedup keys collide.      *)
EXTENDS RelaySpec

MCMaxPayload == [t \in Transport |-> IF t = "Lora" THEN 2 ELSE 4]
MCKey == 0 .. 15

Msg(id, from, to, payload) == Prepare(id, 1, "Lora", from, to, "Text", payload)
Long == Msg(1, "p1", BROADCAST_ADDR, <<1, 2, 3>>)
Mine == Msg(2, "p1", "self", <<4, 5, 6>>)
Colliding == Msg(5, "p1", "p2", <<7>>)

MCForeign == {Long, Mine, Colliding}
MCGroupsOf ==
  [m \in MCForeign |->
     CASE m = Long -> [Lora |-> {8, 9}, Mqtt |-> {12}]
       [] m = Mine -> [Lora |-> {10}, Mqtt |-> {13}]
       [] OTHER    -> [Lora |-> {11}, Mqtt |-> {14}]]

=============================================================================

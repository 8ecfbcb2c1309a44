------------------------------- MODULE MCMesh -------------------------------
(* A diamond: a, b and c share ESP-NOW, b, c and the LoRa node e share LoRa, *)
(* and b and c bridge the two; without c it is a line.  LoRa carries two     *)
(* payload bytes, ESP-NOW four.                                              *)
EXTENDS Mesh

MCMaxPayload == [t \in Transport |-> IF t = "Lora" THEN 2 ELSE 4]
MCKey == 0 .. 63

MCIdBase == [n \in Node |-> CASE n = "a" -> 0 [] n = "b" -> 4 [] n = "c" -> 8 [] OTHER -> 12]

Segment(t, nodes) == {<<t, x, y>> : <<x, y>> \in {z \in nodes \X nodes : z[1] # z[2]}}
MCLink == Segment("EspNow", {"a", "b", "c"}) \cup Segment("Lora", {"b", "c", "e"})

\* Broadcasts: a text and a ping of a node that hosts the engine, the heartbeat of the
\* LoRa node, a line typed on a terminal; and the answers to the ping.
Long  == [from |-> "a", to |-> BROADCAST_ADDR, kind |-> "Text", payload |-> <<1, 2, 3>>]
Beat  == [from |-> "e", to |-> BROADCAST_ADDR, kind |-> "Text", payload |-> <<4>>]
Hello == [from |-> "b", to |-> BROADCAST_ADDR, kind |-> "Text", payload |-> <<7>>]
Probe == [from |-> "a", to |-> BROADCAST_ADDR, kind |-> "Ping", payload |-> <<5>>]
MCPong == <<6>>
Pongs == {[from |-> "e", to |-> x, kind |-> "Pong", payload |-> MCPong] : x \in {"a", BROADCAST_ADDR}}
MCLetter == {Long, Beat, Hello, Probe} \cup Pongs

Line == {l \in MCLink : "c" \notin {l[2], l[3]}}
MCScenario == {
  [letters |-> {Probe}, links |-> MCLink],
  [letters |-> {Long}, links |-> MCLink],
  [letters |-> {Hello, Beat}, links |-> MCLink],
  [letters |-> {Hello, Probe, Beat}, links |-> Line]}
SlicesScenario == {[letters |-> {Long}, links |-> MCLink]}

=============================================================================

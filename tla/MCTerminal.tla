------------------------------ MODULE MCTerminal ------------------------------
(* Queues of two frames, LoRa slices of one byte, and four surroundings: busy *)
(* radios and no broker; a neighbour that sends back what it hears while      *)
(* texts come in; a keepalive and a text too long for a message; a broker or  *)
(* socket that fails once, and a packet too long to read.                     *)
EXTENDS Terminal

MCMaxPayload == [t \in Transport |-> IF t = "Lora" THEN 1 ELSE 2]
MCKey == 0 .. 63
MCTopic == <<117>>

Msg(id, from, to, text) == Prepare(id, DEFAULT_TTL, "EspNow", from, to, "Text", text)
Far == Msg(9, "x", BROADCAST_ADDR, <<65, 66>>)
Near == Msg(10, "y", "x", <<67>>)
Slice(k) == SliceOf(Far, "Lora", 11, k)

Radios ==
  [heard |-> {<<"Lora", Slice(0)>>, <<"Lora", Slice(1)>>, <<"EspNow", Far>>, <<"EspNow", Near>>},
   typed |-> <<<<68, 69>>>>, echoes |-> 0, online |-> FALSE, texts |-> <<>>, pings |-> 0, faults |-> 0]
Neighbour ==
  [heard |-> {}, typed |-> <<>>, echoes |-> 2, online |-> TRUE, texts |-> <<<<70>>, <<71>>>>, pings |-> 0, faults |-> 0]
Broker ==
  [heard |-> {}, typed |-> <<<<68>>>>, echoes |-> 0, online |-> TRUE,
   texts |-> <<<<70>>, <<71, 72, 73>>>>, pings |-> 1, faults |-> 0]
Failing ==
  [heard |-> {<<"EspNow", Near>>}, typed |-> <<>>, echoes |-> 0, online |-> TRUE,
   texts |-> <<<<70>>, <<71, 72, 73, 74>>>>, pings |-> 0, faults |-> 1]
\* A text of one letter and the length of the next packet, then two of one letter.
Desync ==
  [heard |-> {}, typed |-> <<<<68>>>>, echoes |-> 0, online |-> TRUE,
   texts |-> <<<<65, 6>>, <<66>>, <<67>>>>, pings |-> 0, faults |-> 0]
DesyncScenario == {Desync}
MCScenario == {Radios, Neighbour, Broker, Failing}

ASSUME LengthsReadBack(0 .. 300 \cup 16380 .. 16390)

=============================================================================

-------------------------------- MODULE MqttTask --------------------------------
(***************************************************************************)
(* The Cardputer's mqtt_loop, with the TCP connection and the broker it    *)
(* talks to.  The client reads byte by byte; in the steady state a frame   *)
(* to publish or the keepalive timer drops a read_publish that waits for   *)
(* the rest of its packet, and with it the bytes it has read.              *)
(***************************************************************************)
EXTENDS BridgeTasks, Mqtt311

CONSTANTS
  TOPIC_UPLINK   \* a sequence of bytes

ASSUME TopicAssumption == TOPIC_UPLINK \in Seq(Nat)

VARIABLES
  session,     \* "offline": no broker to be found; "down", "connecting", "subscribing", "steady"
  wire,        \* bytes the broker has sent on this connection, not read yet
  rx,          \* bytes the read in progress has taken off it
  owed,        \* requests the broker has not answered yet
  subscribed,  \* whether the broker has taken the subscription
  texts,       \* what the outside world is about to publish on the uplink topic
  pings,       \* bound: keepalives still to come
  faults,      \* bound: refusals and failures still to come
  torn,        \* history: a read was dropped half way on this connection
  given,       \* history: texts the broker sent on this connection
  taken        \* history: texts the terminal read on this connection

linkVars == <<session, wire, rx, owed, subscribed, texts, pings, faults, torn, given, taken>>
vars == <<bridgeVars, linkVars>>

LinkInit(online, uplinks, keepalives, failures) ==
  /\ session = IF online THEN "down" ELSE "offline"
  /\ wire = <<>> /\ rx = <<>> /\ owed = <<>> /\ subscribed = FALSE
  /\ texts = uplinks /\ pings = keepalives /\ faults = failures
  /\ torn = FALSE /\ given = <<>> /\ taken = <<>>

Up == session \notin {"offline", "down"}

\* The task is at a socket operation or in its select, not stuck with a frame.
AtSocket == Up /\ hand["Mqtt"] = Nothing

-----------------------------------------------------------------------------
(* The connection.                                                          *)

SessionEndsKeepingRead ==                                          \* mutant
  /\ session' = "down" /\ wire' = <<>> /\ owed' = <<>> /\ subscribed' = FALSE
  /\ torn' = FALSE /\ given' = <<>> /\ taken' = <<>>
  /\ UNCHANGED rx

\* The socket is dropped; the loop goes back, at once or after five seconds, to
\* connecting.
SessionEnds ==
  /\ session' = "down" /\ wire' = <<>> /\ owed' = <<>> /\ subscribed' = FALSE
  /\ rx' = <<>>
  /\ torn' = FALSE /\ given' = <<>> /\ taken' = <<>>

TcpConnects ==
  /\ session = "down" /\ session' = "connecting" /\ owed' = <<"CONNECT">>
  /\ UNCHANGED <<wire, rx, subscribed, texts, pings, faults, torn, given, taken, bridgeVars>>

SocketFails ==
  /\ AtSocket /\ faults > 0 /\ faults' = faults - 1
  /\ SessionEnds
  /\ UNCHANGED <<texts, pings, bridgeVars>>

-----------------------------------------------------------------------------
(* Reading.                                                                 *)

\* One byte arrives at the read in progress.
Got == Append(rx, Head(wire))

Waits ==
  /\ rx' = Got /\ wire' = Tail(wire)
  /\ UNCHANGED <<session, owed, subscribed, texts, pings, faults, torn, given, taken, bridgeVars>>

Fails == SessionEnds /\ UNCHANGED <<texts, pings, faults, bridgeVars>>

Consumes ==
  /\ rx' = <<>> /\ wire' = Tail(wire)
  /\ UNCHANGED <<subscribed, texts, pings, faults, torn, given>>

ReadsConnack ==
  LET p == ReadPacket(Got, CONNACK_BUF)
  IN  /\ session = "connecting" /\ wire # <<>>
      /\ \/ p = Pending /\ Waits
         \/ p # Pending /\ ~Connected(p) /\ Fails
         \/ /\ Connected(p) /\ Consumes
            /\ session' = "subscribing" /\ owed' = Append(owed, "SUBSCRIBE")
            /\ UNCHANGED <<taken, bridgeVars>>

ReadsSuback ==
  LET p == ReadPacket(Got, SUBACK_BUF)
  IN  /\ session = "subscribing" /\ wire # <<>>
      /\ \/ p = Pending /\ Waits
         \/ p # Pending /\ ~Subscribed(p) /\ Fails
         \/ Subscribed(p) /\ Consumes /\ session' = "steady" /\ UNCHANGED <<owed, taken, bridgeVars>>

UplinkWithoutId(text) ==                                           \* mutant
  LET msg == Prepare(NextId(relay), DEFAULT_TTL, "Mqtt", CARD_ADDR, BROADCAST_ADDR, "Text", text)
  IN  /\ relay' = relay
      /\ IF FitsMessage(text) THEN Delivers("Mqtt", msg) ELSE UNCHANGED <<inbound, hand>>

\* handle_uplink_text: the id is spent even if the text then exceeds a Message.
Uplink(text) ==
  LET msg == Prepare(NextId(relay), DEFAULT_TTL, "Mqtt", CARD_ADDR, BROADCAST_ADDR, "Text", text)
  IN  /\ relay' = TakeIds(relay, 1)
      /\ IF FitsMessage(text) THEN Delivers("Mqtt", msg) ELSE UNCHANGED <<inbound, hand>>

\* The first branch of the select: read_publish.
ReadsPublish ==
  LET p == ReadPublish(Got, PKT_BUF)
      wanted == p.tag = "Publish" /\ p.topic = TOPIC_UPLINK
  IN  /\ session = "steady" /\ AtSocket /\ wire # <<>>
      /\ \/ p = Pending /\ Waits
         \/ p = Error /\ Fails
         \/ /\ wanted /\ Consumes /\ Uplink(p.text) /\ taken' = Append(taken, p.text)
            /\ UNCHANGED <<session, owed, out, ui, ether, typed, echoes, left>>
         \/ /\ p.tag \in {"Publish", "Ignored"} /\ ~wanted /\ Consumes
            /\ UNCHANGED <<session, owed, taken, bridgeVars>>

Reads == ReadsConnack \/ ReadsSuback \/ ReadsPublish

-----------------------------------------------------------------------------
(* The other branches of the select: the read in progress is dropped.       *)

DropsRead == rx' = <<>> /\ torn' = (torn \/ rx # <<>>)

TakesFromQueue ==
  /\ out["Mqtt"] # <<>>
  /\ out' = [out EXCEPT !["Mqtt"] = Tail(@)]
  /\ left' = [left EXCEPT !["Mqtt"] = Append(@, Head(out["Mqtt"]).message)]
  /\ UNCHANGED <<relay, inbound, ui, hand, ether, typed, echoes>>

\* A frame whose publish fails is lost with the session.
Publishes ==
  /\ session = "steady" /\ AtSocket /\ TakesFromQueue
  /\ \/ DropsRead /\ UNCHANGED <<session, wire, owed, subscribed, faults, given, taken>>
     \/ faults > 0 /\ faults' = faults - 1 /\ SessionEnds
  /\ UNCHANGED <<texts, pings>>

Pings ==
  /\ session = "steady" /\ AtSocket /\ pings > 0 /\ pings' = pings - 1
  /\ DropsRead /\ owed' = Append(owed, "PINGREQ")
  /\ UNCHANGED <<session, wire, subscribed, texts, faults, given, taken, bridgeVars>>

-----------------------------------------------------------------------------
(* The broker.                                                              *)

Sends(packet) == wire' = wire \o packet

Accepts ==
  /\ Sends(CASE Head(owed) = "CONNECT"   -> Packet(CONNACK, <<0, 0>>)
             [] Head(owed) = "SUBSCRIBE" -> Packet(SUBACK, <<0, 1, 0>>)
             [] Head(owed) = "PINGREQ"   -> Packet(PINGRESP, <<>>))
  /\ subscribed' = (subscribed \/ Head(owed) = "SUBSCRIBE")
  /\ UNCHANGED faults

Refuses ==
  /\ faults > 0 /\ faults' = faults - 1
  /\ \/ Head(owed) = "CONNECT" /\ Sends(Packet(CONNACK, <<0, 5>>))
     \/ Head(owed) = "SUBSCRIBE" /\ Sends(Packet(SUBACK, <<0, 1, 128>>))
  /\ UNCHANGED subscribed

BrokerAnswers ==
  /\ owed # <<>> /\ owed' = Tail(owed)
  /\ Accepts \/ Refuses
  /\ UNCHANGED <<session, rx, texts, pings, torn, given, taken, bridgeVars>>

\* The broker may begin with the messages of a subscription before it acknowledges it.
BrokerPublishes ==
  /\ subscribed \/ (owed # <<>> /\ Head(owed) = "SUBSCRIBE")
  /\ texts # <<>> /\ texts' = Tail(texts)
  /\ Sends(Packet(PUBLISH, PublishBody(TOPIC_UPLINK, Head(texts))))
  /\ given' = Append(given, Head(texts))
  /\ UNCHANGED <<session, rx, owed, subscribed, pings, faults, torn, taken, bridgeVars>>

=============================================================================

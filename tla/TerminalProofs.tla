---------------------------- MODULE TerminalProofs ----------------------------
(***************************************************************************)
(* For every capacity, buffer size, topic and surroundings: the sessions   *)
(* with the broker stay apart, and so do the packets of one session; the   *)
(* handshake is over before the event loop begins; every queue keeps to    *)
(* its capacity; the slices of a message leave in order; and the texts of  *)
(* a connection, read byte by byte, arrive in order and complete.          *)
(***************************************************************************)
EXTENDS Terminal, RelayLemmas

\* Every transport has its task, and a place for the frame that task is stuck with.
HandsInv == DOMAIN hand = Transport

IInv == SessionInv /\ HandsInv

\* The link variables the invariant speaks of.
Link == <<session, wire, rx, owed, subscribed, given, taken>>

\* The MQTT task is none of the radio tasks.
LEMMA MqttIsTransport == "Mqtt" \in Transport /\ "Mqtt" \notin Radio
  BY DEF Transport, ALL, Radio

\* A read that is still waiting holds no complete packet, whoever makes the read.
LEMMA WaitingReadIsPending ==
  ASSUME NEW bytes, NEW cap, ReadPublish(bytes, cap) = Pending
  PROVE  ReadPacket(bytes, cap) = Pending
<1> DEFINE p == ReadPacket(bytes, cap)
<1>1. CASE p.tag # "Packet"
  BY <1>1 DEF ReadPublish
<1>2. CASE p.tag = "Packet"
  <2>1. \/ ReadPublish(bytes, cap) = [tag |-> "Ignored"]
        \/ ReadPublish(bytes, cap) = Error
        \/ ReadPublish(bytes, cap) = [tag |-> "Publish", topic |-> TopicOf(p.body), text |-> TextOf(p.body)]
    BY <1>2 DEF ReadPublish
  <2>2. ReadPublish(bytes, cap).tag # "Pending"
    BY <2>1 DEF Error
  <2> QED  BY <2>2 DEF Pending
<1> QED  BY <1>1, <1>2

\* The bridge and the radio tasks leave the link alone, and the MQTT task's text is
\* theirs to put into INBOUND_RAW but not to replace.
LEMMA BridgeKeepsHand ==
  ASSUME IInv, BridgeStep
  PROVE  HandsInv' /\ hand'["Mqtt"] \in {hand["Mqtt"], Nothing}
<1>1. CASE BridgeTurn \/ UiLoop
  BY <1>1 DEF BridgeTurn, UiLoop, SendsLocal, UiShows, IInv, HandsInv
<1>2. ASSUME NEW t \in Transport, Pushes(t)
      PROVE  HandsInv' /\ hand'["Mqtt"] \in {hand["Mqtt"], Nothing}
  BY <1>2, MqttIsTransport DEF Pushes, IInv, HandsInv
<1>3. ASSUME NEW t \in Radio, Hears(t)
      PROVE  HandsInv' /\ hand'["Mqtt"] \in {hand["Mqtt"], Nothing}
  <2>1. t # "Mqtt"  BY MqttIsTransport
  <2>2. PICK frame : Delivers(t, frame)
    BY <1>3 DEF Hears
  <2>3. HandsInv' /\ hand'["Mqtt"] = hand["Mqtt"]
    BY <2>1, <2>2, MqttIsTransport DEF Delivers, IInv, HandsInv
  <2> QED  BY <2>3
<1>4. ASSUME NEW t \in Radio, Transmits(t)
      PROVE  HandsInv' /\ hand'["Mqtt"] \in {hand["Mqtt"], Nothing}
  BY <1>4 DEF Transmits, IInv, HandsInv
<1>5. CASE LoraLoop \/ EspNowLoop
  <2>1. "Lora" \in Transport \cap Radio /\ "EspNow" \in Transport \cap Radio
    BY DEF Transport, ALL, Radio
  <2> QED  BY <1>2, <1>3, <1>4, <1>5, <2>1 DEF LoraLoop, EspNowLoop
<1> QED  BY <1>1, <1>2, <1>5, MqttIsTransport DEF BridgeStep

\* The end of a session leaves nothing behind: this is where a forgotten buffer would
\* break the invariant.
LEMMA SessionEndsClean ==
  ASSUME IInv, AtSocket, SessionEnds, UNCHANGED hand
  PROVE  IInv'
<1>1. session' = "down" /\ hand'["Mqtt"] = Nothing
  BY DEF SessionEnds, AtSocket
<1>2. ~Up' /\ HandsInv'
  BY <1>1 DEF Up, IInv, HandsInv
<1>3. SessionInv'
  BY <1>1, <1>2 DEF SessionInv, SessionEnds
<1> QED  BY <1>2, <1>3 DEF IInv

\* The task is stuck with a text in a steady session only.
LEMMA IdleHand ==
  ASSUME IInv, session # "steady"
  PROVE  hand["Mqtt"] = Nothing
  BY DEF IInv, SessionInv

\* One more byte of a packet that is not complete yet.
LEMMA WaitsKeeps ==
  ASSUME IInv, Waits, Up, wire # <<>>, hand["Mqtt"] = Nothing, ReadPacket(Got, Buffer) = Pending
  PROVE  IInv'
<1>1. rx' = Got /\ Buffer' = Buffer /\ Up' /\ hand' = hand
  BY DEF Waits, Buffer, Up, bridgeVars
<1>2. session' = "connecting" => ~subscribed' /\ owed' = <<>>
  BY DEF Waits, IInv, SessionInv
<1>3. SessionInv'
  BY <1>1, <1>2, ReadPacket(rx', Buffer') = Pending DEF SessionInv
<1> QED  BY <1>1, <1>3 DEF IInv, HandsInv

\* Reading the answer to CONNECT.
LEMMA ReadsConnackKeeps ==
  ASSUME IInv, ReadsConnack
  PROVE  IInv'
<1>1. session = "connecting" /\ wire # <<>> /\ Up /\ hand["Mqtt"] = Nothing
  BY IdleHand DEF ReadsConnack, Up
<1>2. Buffer = CONNACK_BUF  BY <1>1 DEF Buffer
<1>3. CASE ReadPacket(Got, CONNACK_BUF) = Pending /\ Waits
  BY <1>1, <1>2, <1>3, WaitsKeeps
<1>4. CASE Fails
  BY <1>1, <1>4, SessionEndsClean DEF Fails, AtSocket, bridgeVars
<1>5. CASE Consumes /\ session' = "subscribing" /\ UNCHANGED <<taken, bridgeVars>>
  <2>1. rx' = <<>> /\ hand' = hand /\ hand'["Mqtt"] = Nothing /\ Up'
    BY <1>1, <1>5 DEF Consumes, bridgeVars, Up
  <2>2. SessionInv'
    BY <1>5, <2>1 DEF SessionInv
  <2> QED  BY <2>1, <2>2 DEF IInv, HandsInv
<1> QED  BY <1>3, <1>4, <1>5 DEF ReadsConnack

\* Reading the answer to SUBSCRIBE.
LEMMA ReadsSubackKeeps ==
  ASSUME IInv, ReadsSuback
  PROVE  IInv'
<1>1. session = "subscribing" /\ wire # <<>> /\ Up /\ hand["Mqtt"] = Nothing
  BY IdleHand DEF ReadsSuback, Up
<1>2. Buffer = SUBACK_BUF  BY <1>1 DEF Buffer
<1>3. CASE ReadPacket(Got, SUBACK_BUF) = Pending /\ Waits
  BY <1>1, <1>2, <1>3, WaitsKeeps
<1>4. CASE Fails
  BY <1>1, <1>4, SessionEndsClean DEF Fails, AtSocket, bridgeVars
<1>5. CASE Consumes /\ session' = "steady" /\ UNCHANGED <<owed, taken, bridgeVars>>
  <2>1. rx' = <<>> /\ hand' = hand /\ hand'["Mqtt"] = Nothing /\ Up'
    BY <1>1, <1>5 DEF Consumes, bridgeVars, Up
  <2>2. SessionInv'
    BY <1>5, <2>1 DEF SessionInv
  <2> QED  BY <2>1, <2>2 DEF IInv, HandsInv
<1> QED  BY <1>3, <1>4, <1>5 DEF ReadsSuback

\* The read is over when the task is stuck with the text it brought.
LEMMA ReadsPublishKeeps ==
  ASSUME IInv, ReadsPublish
  PROVE  IInv'
<1> DEFINE p == ReadPublish(Got, PKT_BUF)
<1>1. session = "steady" /\ wire # <<>> /\ Up /\ AtSocket /\ hand["Mqtt"] = Nothing
  BY DEF ReadsPublish, AtSocket, Up
<1>2. Buffer = PKT_BUF  BY <1>1 DEF Buffer
<1>3. CASE p = Pending /\ Waits
  BY <1>1, <1>2, <1>3, WaitsKeeps, WaitingReadIsPending
<1>4. CASE Fails
  BY <1>1, <1>4, SessionEndsClean DEF Fails, bridgeVars
<1>5. ASSUME Consumes, session' = session, HandsInv'
      PROVE  IInv'
  <2>1. rx' = <<>> /\ session' = "steady" /\ Up'
    BY <1>1, <1>5 DEF Consumes, Up
  <2>2. SessionInv'
    BY <2>1 DEF SessionInv
  <2> QED  BY <1>5, <2>2 DEF IInv
<1>6. CASE Consumes /\ Uplink(p.text) /\ session' = session
  <2>1. HandsInv'
    BY <1>6, MqttIsTransport DEF Uplink, Delivers, IInv, HandsInv
  <2> QED  BY <1>5, <1>6, <2>1
<1>7. CASE Consumes /\ session' = session /\ UNCHANGED bridgeVars
  <2>1. HandsInv'
    BY <1>7 DEF bridgeVars, IInv, HandsInv
  <2> QED  BY <1>5, <1>7, <2>1
<1> QED  BY <1>3, <1>4, <1>6, <1>7 DEF ReadsPublish

\* A frame to publish drops the read in progress, or ends the session.
LEMMA PublishesKeeps ==
  ASSUME IInv, Publishes
  PROVE  IInv'
<1>1. AtSocket /\ session = "steady" /\ hand' = hand
  BY DEF Publishes, TakesFromQueue
<1>2. CASE DropsRead /\ UNCHANGED <<session, wire, owed, subscribed, faults, given, taken>>
  <2>1. rx' = <<>> /\ session' = "steady" /\ Up' /\ hand'["Mqtt"] = Nothing
    BY <1>1, <1>2 DEF DropsRead, AtSocket, Up
  <2>2. SessionInv'
    BY <2>1 DEF SessionInv
  <2> QED  BY <1>1, <2>2 DEF IInv, HandsInv
<1>3. CASE SessionEnds
  BY <1>1, <1>3, SessionEndsClean
<1> QED  BY <1>2, <1>3 DEF Publishes

\* So does the keepalive timer drop it.
LEMMA PingsKeeps ==
  ASSUME IInv, Pings
  PROVE  IInv'
<1>1. rx' = <<>> /\ session' = "steady" /\ Up' /\ hand' = hand /\ hand'["Mqtt"] = Nothing
  BY DEF Pings, DropsRead, AtSocket, Up, bridgeVars
<1>2. SessionInv'
  BY <1>1 DEF SessionInv
<1> QED  BY <1>1, <1>2 DEF IInv, HandsInv

\* A connection is made from nothing.
LEMMA TcpConnectsKeeps ==
  ASSUME IInv, TcpConnects
  PROVE  IInv'
<1>1. ~Up /\ session # "steady"
  BY DEF TcpConnects, Up
<1>2. wire = <<>> /\ rx = <<>> /\ ~subscribed
  BY <1>1 DEF IInv, SessionInv
<1>3. session' = "connecting" /\ owed' = <<"CONNECT">> /\ wire' = <<>> /\ rx' = <<>> /\ ~subscribed' /\ hand' = hand
  BY <1>2 DEF TcpConnects, bridgeVars
<1>4. SessionInv'
  BY <1>1, <1>3, IdleHand DEF SessionInv, Up
<1> QED  BY <1>3, <1>4 DEF IInv, HandsInv

\* The broker writes to a connection that is up; before it has accepted the client it
\* writes one answer, to CONNECT, and nothing else.
LEMMA BrokerAnswersKeeps ==
  ASSUME IInv, BrokerAnswers
  PROVE  IInv'
<1>1. owed # <<>> /\ owed' = Tail(owed) /\ UNCHANGED <<session, rx, given, taken, hand>>
  BY DEF BrokerAnswers, bridgeVars
<1>2. Up /\ Up' /\ Buffer' = Buffer
  BY <1>1 DEF IInv, SessionInv, Up, Buffer
<1>3. subscribed' => subscribed \/ Head(owed) = "SUBSCRIBE"
  BY DEF BrokerAnswers, Accepts, Refuses
<1>4. CASE session = "connecting"
  <2>1. owed = <<"CONNECT">> /\ ~subscribed
    BY <1>1, <1>4 DEF IInv, SessionInv
  <2>2. owed' = <<>> /\ ~subscribed'
    BY <1>1, <1>3, <2>1
  <2>3. SessionInv'
    BY <1>1, <1>2, <1>4, <2>2 DEF IInv, SessionInv
  <2> QED  BY <1>1, <2>3 DEF IInv, HandsInv
<1>5. CASE session # "connecting"
  <2>1. SessionInv'
    BY <1>1, <1>2, <1>5 DEF IInv, SessionInv
  <2> QED  BY <1>1, <2>1 DEF IInv, HandsInv
<1> QED  BY <1>4, <1>5

\* It publishes to a client that has at least asked for the topic.
LEMMA BrokerPublishesKeeps ==
  ASSUME IInv, BrokerPublishes
  PROVE  IInv'
<1>1. UNCHANGED <<session, rx, owed, subscribed, taken, hand>>
  BY DEF BrokerPublishes, bridgeVars
<1>2. Up /\ session # "connecting"
  BY DEF BrokerPublishes, IInv, SessionInv
<1>3. Up' /\ Buffer' = Buffer
  BY <1>1, <1>2 DEF Up, Buffer
<1>4. SessionInv'
  BY <1>1, <1>2, <1>3 DEF IInv, SessionInv
<1> QED  BY <1>1, <1>4 DEF IInv, HandsInv

\* The terminal boots into it, and every step keeps it.
LEMMA SessionsInit ==
  ASSUME Init
  PROVE  IInv
<1>1. PICK s \in Scenario : BridgeInit(s.heard, s.typed, s.echoes) /\ LinkInit(s.online, s.texts, s.pings, s.faults)
  BY DEF Init
<1>2. HandsInv /\ hand["Mqtt"] = Nothing
  BY <1>1, MqttIsTransport DEF BridgeInit, HandsInv
<1>3. session # "connecting" /\ wire = <<>> /\ rx = <<>> /\ owed = <<>> /\ ~subscribed /\ given = <<>> /\ taken = <<>>
  BY <1>1 DEF LinkInit
<1> QED  BY <1>2, <1>3 DEF IInv, SessionInv

LEMMA SessionsNext ==
  ASSUME IInv, [Next]_vars
  PROVE  IInv'
<1>1. CASE BridgeStep /\ UNCHANGED linkVars
  <2>1. HandsInv' /\ hand'["Mqtt"] \in {hand["Mqtt"], Nothing}
    BY <1>1, BridgeKeepsHand
  <2>2. UNCHANGED Link /\ Up' = Up /\ Buffer' = Buffer
    BY <1>1 DEF linkVars, Link, Up, Buffer
  <2>3. SessionInv'
    BY <2>1, <2>2 DEF IInv, SessionInv, Link
  <2> QED  BY <2>1, <2>3 DEF IInv
<1>2. CASE TcpConnects
  BY <1>2, TcpConnectsKeeps
<1>3. CASE SocketFails
  BY <1>3, SessionEndsClean DEF SocketFails, bridgeVars
<1>4. CASE Reads
  BY <1>4, ReadsConnackKeeps, ReadsSubackKeeps, ReadsPublishKeeps DEF Reads
<1>5. CASE Publishes
  BY <1>5, PublishesKeeps
<1>6. CASE Pings
  BY <1>6, PingsKeeps
<1>7. CASE BrokerAnswers
  BY <1>7, BrokerAnswersKeeps
<1>8. CASE BrokerPublishes
  BY <1>8, BrokerPublishesKeeps
<1>9. CASE UNCHANGED vars
  <2>1. UNCHANGED <<Link, hand>> /\ Up' = Up /\ Buffer' = Buffer
    BY <1>9 DEF vars, linkVars, bridgeVars, Link, Up, Buffer
  <2>2. SessionInv'
    BY <2>1 DEF IInv, SessionInv, Link
  <2> QED  BY <2>1, <2>2 DEF IInv, HandsInv
<1> QED  BY <1>1, <1>2, <1>3, <1>4, <1>5, <1>6, <1>7, <1>8, <1>9 DEF Next, LinkStep

LEMMA SessionsInvariant == Spec => []IInv
<1>1. Init => IInv
  BY SessionsInit
<1>2. IInv /\ [Next]_vars => IInv'
  BY SessionsNext
<1> QED  BY <1>1, <1>2, PTL DEF Spec

\* A new connection starts clean, no answer is read before its request was answered, no
\* packet that has come in completely is left unread, and nothing is read while a text
\* waits for room in INBOUND_RAW: in every reachable state of the terminal.
THEOREM SessionsStayApart == Spec => []SessionInv
<1>1. IInv => SessionInv
  BY DEF IInv
<1> QED  BY <1>1, SessionsInvariant, PTL

-----------------------------------------------------------------------------
(* The handshake.                                                           *)

\* f writes lengths up to n.
LengthsTo(f, n) ==
  f = [len \in 0 .. n |-> IF len < 128 THEN <<len>> ELSE <<128 + (len % 128)>> \o f[len \div 128]]

LEMMA Shorter ==
  ASSUME NEW len \in Nat, ~(len < 128)
  PROVE  len \div 128 \in Nat /\ len \div 128 < len
  OBVIOUS

LEMMA LengthsToExists ==
  ASSUME NEW n \in Nat
  PROVE  \E f : LengthsTo(f, n)
<1> DEFINE S == {i \in Nat : ~\E f : LengthsTo(f, i)}
<1>1. S = {}
  <2> SUFFICES ASSUME S # {} PROVE FALSE
    OBVIOUS
  <2>1. S \subseteq Nat
    OBVIOUS
  <2>2. PICK i \in S : \A j \in S : i <= j
    <3> HIDE DEF S
    <3> QED  BY <2>1, LeastExists
  <2>3. i \in Nat /\ ~\E f : LengthsTo(f, i)
    BY <2>2
  <2>4. CASE i = 0
    <3>1. LengthsTo([len \in 0 .. i |-> <<len>>], i)
      BY <2>4 DEF LengthsTo
    <3> QED  BY <2>3, <3>1
  <2>5. CASE i # 0
    <3>1. i - 1 \in Nat /\ ~(i <= i - 1)
      BY <2>3, <2>5
    <3>2. PICK f : LengthsTo(f, i - 1)
      BY <2>2, <3>1
    <3> DEFINE last == IF i < 128 THEN <<i>> ELSE <<128 + (i % 128)>> \o f[i \div 128]
               g == [len \in 0 .. i |-> IF len = i THEN last ELSE f[len]]
    <3>3. ASSUME NEW len \in 0 .. i
          PROVE  g[len] = IF len < 128 THEN <<len>> ELSE <<128 + (len % 128)>> \o g[len \div 128]
      <4>1. len \in Nat /\ i \in 0 .. i
        BY <2>3
      <4>2. ~(len < 128) => g[len \div 128] = f[len \div 128]
        <5>1. ~(len < 128) => len \div 128 \in 0 .. i /\ len \div 128 # i
          <6>1. len <= i  OBVIOUS
          <6> QED  BY <2>3, <4>1, <6>1, Shorter
        <5> QED  BY <5>1
      <4>3. CASE len = i
        <5>1. g[len] = last  BY <4>1, <4>3
        <5> QED  BY <4>2, <4>3, <5>1
      <4>4. CASE len # i
        <5>1. len \in 0 .. i - 1 /\ g[len] = f[len]
          BY <2>3, <4>4
        <5>2. f[len] = IF len < 128 THEN <<len>> ELSE <<128 + (len % 128)>> \o f[len \div 128]
          BY <3>2, <5>1, Zenon DEF LengthsTo
        <5> QED  BY <4>2, <5>1, <5>2
      <4> QED  BY <4>3, <4>4
    <3>4. LengthsTo(g, i)
      <4>1. g = [len \in 0 .. i |-> g[len]]
        OBVIOUS
      <4> HIDE DEF g
      <4> QED  BY <3>3, <4>1, Zenon DEF LengthsTo
    <3> QED  BY <2>3, <3>4
  <2> QED  BY <2>4, <2>5
<1> QED  BY <1>1

LEMMA LengthsAgree ==
  ASSUME NEW n \in Nat, NEW m \in Nat, NEW f, NEW g, LengthsTo(f, n), LengthsTo(g, m),
         NEW k \in Nat, k <= n, k <= m
  PROVE  f[k] = g[k]
<1> DEFINE D == {j \in 0 .. k : f[j] # g[j]}
<1>1. D = {}
  <2> SUFFICES ASSUME D # {} PROVE FALSE
    OBVIOUS
  <2>1. D \subseteq Nat
    OBVIOUS
  <2>2. PICK i \in D : \A j \in D : i <= j
    <3> HIDE DEF D
    <3> QED  BY <2>1, LeastExists
  <2>3. i \in 0 .. k /\ i \in 0 .. n /\ i \in 0 .. m /\ i \in Nat
    BY <2>2
  <2>4. /\ f[i] = IF i < 128 THEN <<i>> ELSE <<128 + (i % 128)>> \o f[i \div 128]
        /\ g[i] = IF i < 128 THEN <<i>> ELSE <<128 + (i % 128)>> \o g[i \div 128]
    BY <2>3, Zenon DEF LengthsTo
  <2>5. ~(i < 128) => f[i \div 128] = g[i \div 128]
    <3>1. ~(i < 128) => i \div 128 \in 0 .. k /\ ~(i <= i \div 128)
      <4>1. i <= k  BY <2>3
      <4> QED  BY <2>3, <4>1, Shorter
    <3> QED  BY <2>2, <3>1
  <2> QED  BY <2>2, <2>4, <2>5
<1> QED  BY <1>1

\* The recursive equation of the length field has a solution.
LEMMA LengthsDefined ==
  ASSUME NEW len \in Nat
  PROVE  RemainingLength[len] =
           IF len < 128 THEN <<len>> ELSE <<128 + (len % 128)>> \o RemainingLength[len \div 128]
<1> DEFINE F(n) == CHOOSE f : LengthsTo(f, n)
           h == [n \in Nat |-> F(n)[n]]
<1>1. \A n \in Nat : LengthsTo(F(n), n)
  BY LengthsToExists
<1>2. ASSUME NEW n \in Nat
      PROVE  h[n] = IF n < 128 THEN <<n>> ELSE <<128 + (n % 128)>> \o h[n \div 128]
  <2>1. LengthsTo(F(n), n) /\ h[n] = F(n)[n] /\ n \in 0 .. n
    BY <1>1
  <2>2. F(n)[n] = IF n < 128 THEN <<n>> ELSE <<128 + (n % 128)>> \o F(n)[n \div 128]
    <3> HIDE DEF F
    <3> QED  BY <2>1, Zenon DEF LengthsTo
  <2>3. ~(n < 128) => F(n)[n \div 128] = h[n \div 128]
    <3> SUFFICES ASSUME ~(n < 128) PROVE F(n)[n \div 128] = h[n \div 128]
      OBVIOUS
    <3> DEFINE q == n \div 128
    <3>1. q \in Nat /\ q < n
      BY Shorter
    <3> HIDE DEF q
    <3>2. LengthsTo(F(q), q) /\ h[q] = F(q)[q]
      BY <1>1, <3>1
    <3>3. F(n)[q] = F(q)[q]
      <4> HIDE DEF F
      <4> QED  BY <2>1, <3>1, <3>2, LengthsAgree
    <3> QED  BY <3>2, <3>3 DEF q
  <2> HIDE DEF F, h
  <2> QED  BY <2>1, <2>2, <2>3
<1>3. h = [n \in Nat |-> IF n < 128 THEN <<n>> ELSE <<128 + (n % 128)>> \o h[n \div 128]]
  <2>1. h = [n \in Nat |-> h[n]]
    OBVIOUS
  <2> HIDE DEF h
  <2> QED  BY <1>2, <2>1, Zenon
<1>4. \E f : f = [n \in Nat |-> IF n < 128 THEN <<n>> ELSE <<128 + (n % 128)>> \o f[n \div 128]]
  <2> HIDE DEF h
  <2> QED  BY <1>3, Zenon
<1>5. RemainingLength =
        [n \in Nat |-> IF n < 128 THEN <<n>> ELSE <<128 + (n % 128)>> \o RemainingLength[n \div 128]]
  BY <1>4, Zenon DEF RemainingLength
<1> QED  BY <1>5, Zenon

\* A length is written as bytes, a small one as one byte.
LEMMA LengthsAreBytes ==
  ASSUME NEW len \in Nat
  PROVE  RemainingLength[len] \in Seq(Nat) /\ (len < 128 => RemainingLength[len] = <<len>>)
<1> DEFINE S == {n \in Nat : RemainingLength[n] \notin Seq(Nat)}
<1>1. S = {}
  <2> SUFFICES ASSUME S # {} PROVE FALSE
    OBVIOUS
  <2>1. S \subseteq Nat
    OBVIOUS
  <2>2. PICK i \in S : \A j \in S : i <= j
    <3> HIDE DEF S
    <3> QED  BY <2>1, LeastExists
  <2>3. i \in Nat /\ RemainingLength[i] \notin Seq(Nat)
    BY <2>2
  <2>4. CASE i < 128
    <3>1. RemainingLength[i] = <<i>>
      BY <2>3, <2>4, LengthsDefined
    <3> QED  BY <2>3, <3>1
  <2>5. CASE ~(i < 128)
    <3>1. i \div 128 \in Nat /\ ~(i <= i \div 128)
      BY <2>3, <2>5, Shorter
    <3>2. RemainingLength[i \div 128] \in Seq(Nat)
      BY <2>2, <3>1
    <3>3. 128 + (i % 128) \in Nat
      BY <2>3
    <3>4. <<128 + (i % 128)>> \in Seq(Nat)
      BY <3>3
    <3>5. RemainingLength[i] = <<128 + (i % 128)>> \o RemainingLength[i \div 128]
      BY <2>3, <2>5, LengthsDefined
    <3> QED  BY <2>3, <3>2, <3>4, <3>5, ConcatProperties
  <2> QED  BY <2>4, <2>5
<1> QED  BY <1>1, LengthsDefined

\* A bounded set of numbers that is not empty has a greatest.
LEMMA GreatestExists ==
  ASSUME NEW n \in Nat, NEW S, S \subseteq 0 .. n, S # {}
  PROVE  Seqs!Max(S) \in S /\ \A y \in S : Seqs!Max(S) >= y
<1> DEFINE D == {n - x : x \in S}
<1>1. D \subseteq Nat /\ D # {}
  OBVIOUS
<1>2. PICK i \in D : \A j \in D : i <= j
  <2> HIDE DEF D
  <2> QED  BY <1>1, LeastExists
<1>3. PICK x \in S : i = n - x
  OBVIOUS
<1>4. ASSUME NEW y \in S PROVE x >= y
  <2>1. n - y \in D  OBVIOUS
  <2>2. n - x <= n - y  BY <1>2, <1>3, <2>1
  <2>3. x \in 0 .. n /\ y \in 0 .. n  OBVIOUS
  <2> QED  BY <2>2, <2>3
<1>5. \E z \in S : \A y \in S : z >= y
  BY <1>4
<1> QED  BY <1>5 DEF Seqs!Max

LEMMA LengthBytesAreBytes ==
  ASSUME NEW bytes \in Seq(Nat)
  PROVE  LengthBytes(bytes) \in Seq(Nat)
<1> DEFINE S == {1} \cup {k \in 2 .. 5 : k <= Len(bytes) /\ \A j \in 2 .. k - 1 : More(bytes[j])}
           top == Seqs!Max(S)
<1>1. Len(bytes) + 1 \in Nat /\ S \subseteq 0 .. Len(bytes) + 1 /\ S # {}
  OBVIOUS
<1>2. top \in S
  <2> HIDE DEF S
  <2> QED  BY <1>1, GreatestExists
<1>3. top = 1 \/ top \in 2 .. Len(bytes)
  BY <1>2
<1> HIDE DEF top
<1>4. \A k \in 2 .. top : bytes[k] \in Nat
  BY <1>3, ElementOfSeq
<1>5. SubSeq(bytes, 2, top) \in Seq(Nat)
  BY <1>3, <1>4, SubSeqProperties
<1> QED  BY <1>5 DEF LengthBytes, top

\* What a read returns as a packet: its first byte, and a body behind at least one
\* byte of length.
LEMMA PacketRead ==
  ASSUME NEW bytes \in Seq(Nat), NEW cap, ReadPacket(bytes, cap).tag = "Packet"
  PROVE  /\ ReadPacket(bytes, cap).first = bytes[1]
         /\ Len(ReadPacket(bytes, cap).body) >= 2 => Len(bytes) >= 4
<1> DEFINE lb == LengthBytes(bytes)
           body == SubSeq(bytes, 1 + Len(lb) + 1, Len(bytes))
<1>1. lb \in Seq(Nat)
  BY LengthBytesAreBytes
<1>2. /\ Closed(lb)
      /\ ReadPacket(bytes, cap) = [tag |-> "Packet", first |-> bytes[1], body |-> body]
  <2> HIDE DEF lb
  <2>1. Error.tag # "Packet" /\ Pending.tag # "Packet"
    BY DEF Error, Pending
  <2> QED  BY <2>1, Zenon DEF ReadPacket, lb
<1>3. Len(lb) \in Nat \ {0}
  BY <1>1, <1>2 DEF Closed
<1> HIDE DEF lb
<1>4. Len(body) >= 2 => Len(bytes) >= 4
  BY <1>3
<1> QED  BY <1>2, <1>4

\* A byte that comes in moves from the wire to the read.
LEMMA ByteMoves ==
  ASSUME rx \in Seq(Nat), wire \in Seq(Nat), wire # <<>>
  PROVE  /\ Got \in Seq(Nat) /\ Tail(wire) \in Seq(Nat)
         /\ Len(Got) = Len(rx) + 1 /\ Len(Tail(wire)) = Len(wire) - 1
         /\ Got \o Tail(wire) = rx \o wire
         /\ Got[1] = (rx \o wire)[1]
<1>1. Head(wire) \in Nat /\ Tail(wire) \in Seq(Nat) /\ Len(wire) \in Nat \ {0}
  OBVIOUS
<1>2. Got \in Seq(Nat) /\ Len(Got) = Len(rx) + 1 /\ Len(Tail(wire)) = Len(wire) - 1
  BY <1>1 DEF Got
<1>3. Got \o Tail(wire) \in Seq(Nat) /\ rx \o wire \in Seq(Nat)
  BY <1>1, <1>2
<1>4. \A k \in 1 .. Len(rx) + Len(wire) : (Got \o Tail(wire))[k] = (rx \o wire)[k]
  BY <1>1, <1>2 DEF Got
<1>5. Got \o Tail(wire) = rx \o wire
  <2>1. /\ Len(Got \o Tail(wire)) = Len(rx) + Len(wire)
        /\ Len(rx \o wire) = Len(rx) + Len(wire)
    <3>1. Len(rx \o wire) = Len(rx) + Len(wire)
      BY ConcatProperties
    <3>2. Len(Got \o Tail(wire)) = Len(Got) + Len(Tail(wire))
      BY <1>1, <1>2, ConcatProperties
    <3>3. Len(rx) \in Nat
      BY LenProperties
    <3> QED  BY <1>1, <1>2, <3>1, <3>2, <3>3
  <2>2. /\ Got \o Tail(wire) = [k \in 1 .. Len(rx) + Len(wire) |-> (Got \o Tail(wire))[k]]
        /\ rx \o wire = [k \in 1 .. Len(rx) + Len(wire) |-> (rx \o wire)[k]]
    BY <1>3, <2>1, LenProperties
  <2> QED  BY <1>4, <2>2, Zenon
<1>6. Got[1] = (rx \o wire)[1]
  BY <1>1, <1>2 DEF Got
<1> QED  BY <1>1, <1>2, <1>5, <1>6

\* Until the broker has accepted the client there is the request, or one answer of four
\* bytes; until it has taken the subscription, what comes in first is a message.
HandshakeInv ==
  /\ session \in {"offline", "down", "connecting", "subscribing", "steady"}
  /\ wire \in Seq(Nat) /\ rx \in Seq(Nat) /\ texts \in Seq(Seq(Nat))
  /\ session = "connecting" =>
       owed = <<"CONNECT">> \/ (owed = <<>> /\ Len(rx) + Len(wire) <= 4)
  /\ session = "subscribing" =>
       owed = <<>> \/ (owed = <<"SUBSCRIBE">> /\ (rx \o wire = <<>> \/ (rx \o wire)[1] = PUBLISH))
  /\ session = "steady" => owed \in Seq({"PINGREQ"})

LEMMA PacketsAreBytes ==
  ASSUME NEW first \in Nat, NEW variable \in Seq(Nat)
  PROVE  /\ Packet(first, variable) \in Seq(Nat) /\ Packet(first, variable) # <<>>
         /\ Packet(first, variable)[1] = first
         /\ Len(variable) < 128 => Len(Packet(first, variable)) = 2 + Len(variable)
<1> DEFINE lb == RemainingLength[Len(variable)]
<1>1. lb \in Seq(Nat) /\ (Len(variable) < 128 => lb = <<Len(variable)>>)
  BY LengthsAreBytes
<1>2. Packet(first, variable) = <<first>> \o lb \o variable
  BY DEF Packet
<1> HIDE DEF lb
<1>3. <<first>> \o lb \in Seq(Nat) /\ Len(<<first>> \o lb) = 1 + Len(lb) /\ (<<first>> \o lb)[1] = first
  BY <1>1
<1>4. /\ Packet(first, variable) \in Seq(Nat)
      /\ Len(Packet(first, variable)) = 1 + Len(lb) + Len(variable)
      /\ Packet(first, variable)[1] = first
  <2>1. Len(lb) \in Nat /\ Len(variable) \in Nat  BY <1>1, LenProperties
  <2> QED  BY <1>2, <1>3, <2>1, ConcatProperties
<1>5. Len(lb) \in Nat /\ Len(variable) \in Nat /\ (Len(variable) < 128 => Len(lb) = 1)
  BY <1>1
<1>6. Len(variable) < 128 => Len(Packet(first, variable)) = 2 + Len(variable)
  <2>1. \A a, b, c : a = 1 + b + c /\ b = 1 /\ c \in Nat => a = 2 + c
    OBVIOUS
  <2> QED  BY <1>4, <1>5, <2>1, Zenon
<1>7. Len(Packet(first, variable)) # 0
  BY <1>4, <1>5
<1>8. Packet(first, variable) # <<>>
  BY <1>7
<1> QED  BY <1>4, <1>6, <1>8

\* A session's end leaves nothing of the handshake.
LEMMA EndsHandshake ==
  ASSUME HandshakeInv, SessionEnds, texts' = texts
  PROVE  HandshakeInv'
  BY DEF HandshakeInv, SessionEnds

LEMMA WaitsHandshake ==
  ASSUME HandshakeInv, Waits, wire # <<>>
  PROVE  HandshakeInv'
<1>1. /\ rx' = Got /\ wire' = Tail(wire) /\ UNCHANGED <<session, owed, texts>>
      /\ rx \in Seq(Nat) /\ wire \in Seq(Nat)
  BY DEF Waits, HandshakeInv
<1>2. /\ rx' \in Seq(Nat) /\ wire' \in Seq(Nat)
      /\ Len(rx') = Len(rx) + 1 /\ Len(wire') = Len(wire) - 1
      /\ rx' \o wire' = rx \o wire
  BY <1>1, ByteMoves
<1>3. Len(rx) \in Nat /\ Len(wire) \in Nat  BY <1>1
<1>4. Len(rx') + Len(wire') = Len(rx) + Len(wire)
  BY <1>2, <1>3
<1> QED  BY <1>1, <1>2, <1>4 DEF HandshakeInv

\* The answer to CONNECT is read to its last byte, and only then SUBSCRIBE is sent.
LEMMA ConnackHandshake ==
  ASSUME IInv, HandshakeInv, ReadsConnack
  PROVE  HandshakeInv'
<1>1. session = "connecting" /\ wire # <<>>
  BY DEF ReadsConnack
<1>2. owed = <<>> /\ Len(rx) + Len(wire) <= 4 /\ rx \in Seq(Nat) /\ wire \in Seq(Nat)
  <2>1. owed = <<>>
    BY <1>1 DEF IInv, SessionInv
  <2>2. owed # <<"CONNECT">>
    BY <2>1
  <2>3. Len(rx) + Len(wire) <= 4 /\ rx \in Seq(Nat) /\ wire \in Seq(Nat)
    BY <1>1, <2>2, Zenon DEF HandshakeInv
  <2> QED  BY <2>1, <2>3
<1>3. CASE Waits
  BY <1>1, <1>3, WaitsHandshake
<1>4. CASE Fails
  BY <1>4, EndsHandshake DEF Fails
<1>5. CASE Connected(ReadPacket(Got, CONNACK_BUF)) /\ Consumes /\ session' = "subscribing"
           /\ owed' = Append(owed, "SUBSCRIBE")
  <2>1. Len(Got) >= 4
    BY <1>1, <1>2, <1>5, ByteMoves, PacketRead DEF Connected
  <2>2. Len(Tail(wire)) = 0
    <3>1. Len(Got) = Len(rx) + 1 /\ Len(Tail(wire)) = Len(wire) - 1
      BY <1>1, <1>2, ByteMoves
    <3>2. Len(rx) \in Nat /\ Len(wire) \in Nat \ {0}
      BY <1>1, <1>2
    <3>3. \A a, b, c, d : /\ a \in Nat /\ b \in Nat \ {0} /\ a + b <= 4
                          /\ c = a + 1 /\ c >= 4 /\ d = b - 1
                          => d = 0
      OBVIOUS
    <3> HIDE DEF Got
    <3> QED  BY <1>2, <2>1, <3>1, <3>2, <3>3, Zenon
  <2>3. Tail(wire) = <<>>
    BY <1>1, <1>2, <2>2, ByteMoves, EmptySeq
  <2>4. rx' = <<>> /\ wire' = <<>> /\ texts' = texts /\ owed' = <<"SUBSCRIBE">>
    BY <1>2, <1>5, <2>3 DEF Consumes
  <2>5. rx' \o wire' = <<>> /\ wire' \in Seq(Nat) /\ rx' \in Seq(Nat)
    BY <2>4
  <2>6. texts' \in Seq(Seq(Nat)) /\ session' = "subscribing"
    BY <1>5, <2>4 DEF HandshakeInv
  <2> QED  BY <2>4, <2>5, <2>6, Zenon DEF HandshakeInv
<1> QED  BY <1>3, <1>4, <1>5 DEF ReadsConnack

\* No message is taken for the answer to SUBSCRIBE.
LEMMA SubackHandshake ==
  ASSUME IInv, HandshakeInv, ReadsSuback
  PROVE  HandshakeInv'
<1>1. session = "subscribing" /\ wire # <<>> /\ rx \in Seq(Nat) /\ wire \in Seq(Nat)
  BY DEF ReadsSuback, HandshakeInv
<1>2. CASE Waits
  BY <1>1, <1>2, WaitsHandshake
<1>3. CASE Fails
  BY <1>3, EndsHandshake DEF Fails
<1>4. CASE Subscribed(ReadPacket(Got, SUBACK_BUF)) /\ Consumes /\ session' = "steady" /\ owed' = owed
  <2>1. rx \o wire # <<>>
    BY <1>1, ConcatEqualIffEmpty
  <2>2. Got[1] = (rx \o wire)[1] /\ Got \in Seq(Nat) /\ Tail(wire) \in Seq(Nat)
    BY <1>1, ByteMoves
  <2>3. Got[1] # PUBLISH
    BY <1>4, <2>2, PacketRead DEF Subscribed, Type, PUBLISH
  <2>4. owed = <<>>
    BY <1>1, <2>1, <2>2, <2>3 DEF HandshakeInv
  <2> QED  BY <1>4, <2>2, <2>4 DEF HandshakeInv, Consumes
<1> QED  BY <1>2, <1>3, <1>4 DEF ReadsSuback

LEMMA PublishHandshake ==
  ASSUME HandshakeInv, ReadsPublish
  PROVE  HandshakeInv'
<1>1. session = "steady" /\ wire # <<>> /\ rx \in Seq(Nat) /\ wire \in Seq(Nat)
  BY DEF ReadsPublish, HandshakeInv
<1>2. CASE Waits
  BY <1>1, <1>2, WaitsHandshake
<1>3. CASE Fails
  BY <1>3, EndsHandshake DEF Fails
<1>4. CASE Consumes /\ session' = session /\ owed' = owed
  <2>1. Tail(wire) \in Seq(Nat)
    BY <1>1, ByteMoves
  <2> QED  BY <1>1, <1>4, <2>1 DEF HandshakeInv, Consumes
<1> QED  BY <1>2, <1>3, <1>4 DEF ReadsPublish, bridgeVars

\* What the broker owes an answer to.
LEMMA OwedIsKnown ==
  ASSUME IInv, HandshakeInv, owed # <<>>
  PROVE  Head(owed) \in {"CONNECT", "SUBSCRIBE", "PINGREQ"}
<1>1. session \in {"connecting", "subscribing", "steady"}
  BY DEF IInv, SessionInv, Up, HandshakeInv
<1>2. CASE session = "connecting"
  <2>1. owed = <<"CONNECT">>
    BY <1>2 DEF HandshakeInv
  <2> QED  BY <2>1
<1>3. CASE session = "subscribing"
  <2>1. owed = <<"SUBSCRIBE">>
    BY <1>3 DEF HandshakeInv
  <2> QED  BY <2>1
<1>4. CASE session = "steady"
  <2>1. owed \in Seq({"PINGREQ"})
    BY <1>4 DEF HandshakeInv
  <2> QED  BY <2>1
<1> QED  BY <1>1, <1>2, <1>3, <1>4

\* The answer to CONNECT is four bytes, and the one to SUBSCRIBE is the last thing owed
\* before the steady state.
LEMMA BrokerAnswersHandshake ==
  ASSUME IInv, HandshakeInv, BrokerAnswers
  PROVE  HandshakeInv'
<1>1. owed # <<>> /\ owed' = Tail(owed) /\ UNCHANGED <<session, rx, texts>>
  BY DEF BrokerAnswers
<1>2. PICK first \in Nat, body \in Seq(Nat) :
        /\ wire' = wire \o Packet(first, body)
        /\ Head(owed) = "CONNECT" => Len(body) = 2
  <2>1. CASE Accepts
    <3>1. CASE Head(owed) = "CONNECT"
      <4>1. wire' = wire \o Packet(CONNACK, <<0, 0>>)
        BY <2>1, <3>1 DEF Accepts, Sends
      <4> QED  BY <4>1, CONNACK \in Nat /\ <<0, 0>> \in Seq(Nat) /\ Len(<<0, 0>>) = 2 DEF CONNACK
    <3>2. CASE Head(owed) = "SUBSCRIBE"
      <4>1. wire' = wire \o Packet(SUBACK, <<0, 1, 0>>)
        BY <2>1, <3>2 DEF Accepts, Sends
      <4> QED  BY <3>2, <4>1, SUBACK \in Nat /\ <<0, 1, 0>> \in Seq(Nat) DEF SUBACK
    <3>3. CASE Head(owed) = "PINGREQ"
      <4>1. wire' = wire \o Packet(PINGRESP, <<>>)
        BY <2>1, <3>3 DEF Accepts, Sends
      <4> QED  BY <3>3, <4>1, PINGRESP \in Nat /\ <<>> \in Seq(Nat) DEF PINGRESP
    <3> QED  BY <3>1, <3>2, <3>3, OwedIsKnown, <1>1
  <2>2. CASE Refuses
    <3>1. CASE Head(owed) = "CONNECT" /\ Sends(Packet(CONNACK, <<0, 5>>))
      BY <3>1, CONNACK \in Nat /\ <<0, 5>> \in Seq(Nat) /\ Len(<<0, 5>>) = 2 DEF CONNACK, Sends
    <3>2. CASE Head(owed) = "SUBSCRIBE" /\ Sends(Packet(SUBACK, <<0, 1, 128>>))
      BY <3>2, SUBACK \in Nat /\ <<0, 1, 128>> \in Seq(Nat) DEF SUBACK, Sends
    <3> QED  BY <2>2, <3>1, <3>2 DEF Refuses
  <2> QED  BY <2>1, <2>2 DEF BrokerAnswers
<1> DEFINE pkt == Packet(first, body)
<1>3. pkt \in Seq(Nat) /\ (Len(body) = 2 => Len(pkt) = 4)
  <2>1. pkt \in Seq(Nat) /\ (Len(body) < 128 => Len(pkt) = 2 + Len(body))
    BY PacketsAreBytes
  <2>2. 2 < 128 /\ 2 + 2 = 4
    OBVIOUS
  <2> HIDE DEF pkt
  <2>3. ASSUME Len(body) = 2 PROVE Len(pkt) = 4
    <3>1. Len(pkt) = 2 + 2
      BY <2>1, <2>2, <2>3, Zenon
    <3> QED  BY <2>2, <3>1, Zenon
  <2> QED  BY <2>1, <2>3, Zenon
<1> HIDE DEF pkt
<1>4. wire' = wire \o pkt /\ wire \in Seq(Nat) /\ rx \in Seq(Nat)
  BY <1>2 DEF pkt, HandshakeInv
<1>5. wire' \in Seq(Nat) /\ rx' \in Seq(Nat) /\ texts' \in Seq(Seq(Nat))
  BY <1>1, <1>3, <1>4, ConcatProperties DEF HandshakeInv
<1>6. CASE session = "connecting"
  <2>1. owed = <<"CONNECT">> /\ wire = <<>> /\ rx = <<>>
    BY <1>1, <1>6 DEF IInv, SessionInv
  <2>2. owed' = <<>> /\ wire' = pkt /\ Len(pkt) = 4 /\ rx' = <<>>
    <3>1. Head(owed) = "CONNECT" /\ Tail(owed) = <<>>  BY <2>1
    <3>2. <<>> \o pkt = pkt  BY <1>3, ConcatEmptySeq
    <3> QED  BY <1>1, <1>2, <1>3, <1>4, <2>1, <3>1, <3>2
  <2>3. Len(rx') + Len(wire') <= 4
    BY <2>2
  <2> QED  BY <1>1, <1>5, <1>6, <2>2, <2>3 DEF HandshakeInv
<1>7. CASE session = "subscribing"
  <2>1. owed = <<"SUBSCRIBE">>
    BY <1>1, <1>7 DEF HandshakeInv
  <2>2. owed' = <<>>
    BY <1>1, <2>1
  <2> QED  BY <1>1, <1>5, <1>7, <2>2 DEF HandshakeInv
<1>8. CASE session = "steady"
  <2>1. owed' \in Seq({"PINGREQ"})
    BY <1>1, <1>8 DEF HandshakeInv
  <2> QED  BY <1>1, <1>5, <1>8, <2>1 DEF HandshakeInv
<1>9. session \in {"connecting", "subscribing", "steady"}
  BY <1>1 DEF IInv, SessionInv, Up, HandshakeInv
<1> QED  BY <1>6, <1>7, <1>8, <1>9

\* A message may come in while the answer to SUBSCRIBE is still owed.
LEMMA BrokerPublishesHandshake ==
  ASSUME IInv, HandshakeInv, BrokerPublishes
  PROVE  HandshakeInv'
<1> DEFINE body == PublishBody(TOPIC_UPLINK, Head(texts))
           pkt == Packet(PUBLISH, body)
<1>1. /\ texts # <<>> /\ texts' = Tail(texts) /\ wire' = wire \o pkt
      /\ UNCHANGED <<session, rx, owed>>
      /\ texts \in Seq(Seq(Nat)) /\ wire \in Seq(Nat) /\ rx \in Seq(Nat)
  BY DEF BrokerPublishes, Sends, HandshakeInv
<1>2. session # "connecting"
  BY DEF BrokerPublishes, IInv, SessionInv
<1>3. Head(texts) \in Seq(Nat) /\ texts' \in Seq(Seq(Nat))
  BY <1>1, HeadTailProperties
<1>4. body \in Seq(Nat)
  <2>1. TOPIC_UPLINK \in Seq(Nat) /\ Len(TOPIC_UPLINK) \in Nat
    BY TopicAssumption DEF TopicAssumption
  <2>2. Len(TOPIC_UPLINK) \div 256 \in Nat /\ Len(TOPIC_UPLINK) % 256 \in Nat
    BY <2>1
  <2>3. <<Len(TOPIC_UPLINK) \div 256, Len(TOPIC_UPLINK) % 256>> \in Seq(Nat)
    BY <2>2
  <2> QED  BY <1>3, <2>1, <2>3, ConcatProperties DEF PublishBody
<1> HIDE DEF body
<1>5. pkt \in Seq(Nat) /\ pkt # <<>> /\ pkt[1] = PUBLISH
  BY <1>4, PacketsAreBytes DEF PUBLISH
<1> HIDE DEF pkt
<1>6. wire' \in Seq(Nat) /\ rx' = rx
  BY <1>1, <1>5, ConcatProperties
<1>7. rx \o wire = <<>> \/ (rx \o wire)[1] = PUBLISH => (rx' \o wire')[1] = PUBLISH
  <2>1. rx \o wire \in Seq(Nat) /\ rx' \o wire' = (rx \o wire) \o pkt
    <3>1. rx \o wire \in Seq(Nat)
      BY <1>1, ConcatProperties
    <3>2. (rx \o wire) \o pkt = rx \o (wire \o pkt)
      <4>1. \A a, b, c \in Seq(Nat) : (a \o b) \o c = a \o (b \o c)
        BY ConcatAssociative
      <4> QED  BY <1>1, <1>5, <4>1, Zenon
    <3> QED  BY <1>1, <1>6, <3>1, <3>2, Zenon
  <2>2. CASE rx \o wire = <<>>
    BY <1>5, <2>1, <2>2, ConcatEmptySeq
  <2>3. CASE rx \o wire # <<>>
    <3>1. Len(rx \o wire) \in Nat \ {0} /\ Len(pkt) \in Nat
      BY <1>5, <2>1, <2>3
    <3>2. 1 \in 1 .. Len(rx \o wire) + Len(pkt) /\ 1 <= Len(rx \o wire)
      BY <3>1
    <3>3. ((rx \o wire) \o pkt)[1] = (rx \o wire)[1]
      BY <1>5, <2>1, <3>2, ConcatProperties
    <3> QED  BY <2>1, <2>3, <3>3
  <2> QED  BY <2>2, <2>3
<1> QED  BY <1>1, <1>2, <1>3, <1>6, <1>7 DEF HandshakeInv

LEMMA HandshakeInvariant == Spec => []HandshakeInv
<1>1. Init => HandshakeInv
  <2> SUFFICES ASSUME Init PROVE HandshakeInv
    OBVIOUS
  <2>1. PICK s \in Scenario : LinkInit(s.online, s.texts, s.pings, s.faults)
    BY DEF Init
  <2>2. s.texts \in Seq(Seq(Nat))
    BY ScenarioAssumption DEF ScenarioAssumption
  <2>3. wire = <<>> /\ rx = <<>> /\ texts = s.texts /\ session \in {"down", "offline"}
    BY <2>1 DEF LinkInit
  <2> QED  BY <2>2, <2>3 DEF HandshakeInv
<1>2. IInv /\ HandshakeInv /\ [Next]_vars => HandshakeInv'
  <2> SUFFICES ASSUME IInv, HandshakeInv, [Next]_vars PROVE HandshakeInv'
    OBVIOUS
  <2>1. CASE UNCHANGED linkVars
    BY <2>1 DEF linkVars, HandshakeInv
  <2>2. CASE TcpConnects
    BY <2>2 DEF TcpConnects, HandshakeInv
  <2>3. CASE SocketFails
    BY <2>3, EndsHandshake DEF SocketFails
  <2>4. CASE Reads
    BY <2>4, ConnackHandshake, SubackHandshake, PublishHandshake DEF Reads
  <2>5. CASE Publishes
    <3>1. CASE DropsRead /\ UNCHANGED <<session, wire, owed>> /\ session = "steady" /\ texts' = texts
      BY <3>1 DEF DropsRead, HandshakeInv
    <3>2. CASE SessionEnds /\ texts' = texts
      BY <3>2, EndsHandshake
    <3> QED  BY <2>5, <3>1, <3>2 DEF Publishes
  <2>6. CASE Pings
    <3>1. session = "steady" /\ owed \in Seq({"PINGREQ"}) /\ owed' = Append(owed, "PINGREQ")
      BY <2>6 DEF Pings, HandshakeInv
    <3>2. owed' \in Seq({"PINGREQ"})
      BY <3>1
    <3> QED  BY <2>6, <3>1, <3>2 DEF Pings, DropsRead, HandshakeInv
  <2>7. CASE BrokerAnswers
    BY <2>7, BrokerAnswersHandshake
  <2>8. CASE BrokerPublishes
    BY <2>8, BrokerPublishesHandshake
  <2> QED  BY <2>1, <2>2, <2>3, <2>4, <2>5, <2>6, <2>7, <2>8 DEF Next, LinkStep, vars
<1> QED  BY <1>1, <1>2, SessionsInvariant, PTL DEF Spec

\* The task begins its event loop with every answer but those to its pings behind it,
\* so that no late CONNACK or SUBACK is read as the answer to something else, and no
\* message that overtakes the SUBACK can be taken for it: in every reachable state.
THEOREM HandshakeIsFirst == Spec => []HandshakeFirst
<1>1. HandshakeInv => HandshakeFirst
  <2> SUFFICES ASSUME HandshakeInv, session = "steady" PROVE Ext!ToSet(owed) \subseteq {"PINGREQ"}
    BY DEF HandshakeFirst
  <2>1. owed \in Seq({"PINGREQ"})
    BY DEF HandshakeInv
  <2> QED  BY <2>1, ElementOfSeq DEF Ext!ToSet
<1> QED  BY <1>1, HandshakeInvariant, PTL

-----------------------------------------------------------------------------
(* Messages stay messages, whole or cut, wherever the tasks pass them on.   *)

\* A message is a record of its eight fields.
LEMMA MessageFields ==
  ASSUME NEW m
  PROVE  IsMessage(m) <=>
           /\ m = [id |-> m.id, ttl |-> m.ttl, origin |-> m.origin, from |-> m.from, to |-> m.to,
                   kind |-> m.kind, payload |-> m.payload, frag |-> m.frag]
           /\ m.payload \in Seq(Nat)
           /\ m.frag # NoFrag => m.frag.seq \in Nat /\ m.frag.total \in Nat
<1>1. [Prepare(m.id, m.ttl, m.origin, m.from, m.to, m.kind, m.payload) EXCEPT !.frag = m.frag]
        = [id |-> m.id, ttl |-> m.ttl, origin |-> m.origin, from |-> m.from, to |-> m.to,
           kind |-> m.kind, payload |-> m.payload, frag |-> m.frag]
  BY DEF Prepare
<1> QED  BY <1>1, Zenon DEF IsMessage

LEMMA MessageLiteral ==
  ASSUME NEW id, NEW ttl, NEW origin, NEW from, NEW to, NEW kind, NEW payload \in Seq(Nat), NEW frag,
         frag # NoFrag => frag.seq \in Nat /\ frag.total \in Nat
  PROVE  IsMessage([id |-> id, ttl |-> ttl, origin |-> origin, from |-> from, to |-> to,
                    kind |-> kind, payload |-> payload, frag |-> frag])
<1> DEFINE m == [id |-> id, ttl |-> ttl, origin |-> origin, from |-> from, to |-> to,
                 kind |-> kind, payload |-> payload, frag |-> frag]
<1>1. /\ m.id = id /\ m.ttl = ttl /\ m.origin = origin /\ m.from = from /\ m.to = to
      /\ m.kind = kind /\ m.payload = payload /\ m.frag = frag
  OBVIOUS
<1>2. m = [id |-> m.id, ttl |-> m.ttl, origin |-> m.origin, from |-> m.from, to |-> m.to,
           kind |-> m.kind, payload |-> m.payload, frag |-> m.frag]
  BY <1>1
<1> HIDE DEF m
<1>3. IsMessage(m)
  BY <1>1, <1>2, MessageFields
<1> QED  BY <1>3 DEF m

LEMMA PreparedIsMessage ==
  ASSUME NEW id, NEW ttl, NEW origin, NEW from, NEW to, NEW kind, NEW payload \in Seq(Nat)
  PROVE  LET m == Prepare(id, ttl, origin, from, to, kind, payload)
         IN  IsMessage(m) /\ m.frag = NoFrag
<1>1. Prepare(id, ttl, origin, from, to, kind, payload).frag = NoFrag
  BY DEF Prepare
<1> QED  BY <1>1, MessageLiteral DEF Prepare

\* The updates the code makes to a message.
LEMMA MessageUpdates ==
  ASSUME NEW m, IsMessage(m), NEW source, NEW text \in Seq(Nat)
  PROVE  /\ IsMessage(Received(m, source)) /\ Received(m, source).frag = m.frag
         /\ Received(m, source).payload = m.payload
         /\ IsMessage(PreparedForRelay(m)) /\ PreparedForRelay(m).frag = m.frag
         /\ IsMessage([m EXCEPT !.payload = text]) /\ [m EXCEPT !.payload = text].frag = m.frag
         /\ IsMessage([m EXCEPT !.payload = <<>>, !.frag = NoFrag])
         /\ [m EXCEPT !.payload = <<>>, !.frag = NoFrag].frag = NoFrag
<1> DEFINE lit(ttl, origin, payload, frag) ==
             [id |-> m.id, ttl |-> ttl, origin |-> origin, from |-> m.from, to |-> m.to,
              kind |-> m.kind, payload |-> payload, frag |-> frag]
           l == lit(m.ttl, m.origin, m.payload, m.frag)
<1>1. m = l /\ m.payload \in Seq(Nat) /\ (m.frag # NoFrag => m.frag.seq \in Nat /\ m.frag.total \in Nat)
  BY MessageFields
<1>2. /\ [l EXCEPT !.origin = source] = lit(m.ttl, source, m.payload, m.frag)
      /\ [l EXCEPT !.ttl = @ - 1] = lit(m.ttl - 1, m.origin, m.payload, m.frag)
      /\ [l EXCEPT !.payload = text] = lit(m.ttl, m.origin, text, m.frag)
  OBVIOUS
<1>3. [l EXCEPT !.payload = <<>>, !.frag = NoFrag] = lit(m.ttl, m.origin, <<>>, NoFrag)
  <2> DEFINE e == lit(m.ttl, m.origin, <<>>, m.frag)
  <2>1. [l EXCEPT !.payload = <<>>] = e
    OBVIOUS
  <2>2. [e EXCEPT !.frag = NoFrag] = lit(m.ttl, m.origin, <<>>, NoFrag)
    OBVIOUS
  <2> QED  BY <2>1, <2>2
<1>4. /\ lit(m.ttl, source, m.payload, m.frag).frag = m.frag
      /\ lit(m.ttl, source, m.payload, m.frag).payload = m.payload
      /\ lit(m.ttl - 1, m.origin, m.payload, m.frag).frag = m.frag
      /\ lit(m.ttl, m.origin, text, m.frag).frag = m.frag
      /\ lit(m.ttl, m.origin, <<>>, NoFrag).frag = NoFrag
  OBVIOUS
<1>5. /\ IsMessage(lit(m.ttl, source, m.payload, m.frag))
      /\ IsMessage(lit(m.ttl - 1, m.origin, m.payload, m.frag))
      /\ IsMessage(lit(m.ttl, m.origin, text, m.frag))
      /\ IsMessage(lit(m.ttl, m.origin, <<>>, NoFrag))
  <2>1. <<>> \in Seq(Nat)  OBVIOUS
  <2> QED  BY <1>1, <2>1, MessageLiteral
<1> HIDE DEF lit, l
<1>6. /\ Received(m, source) = lit(m.ttl, source, m.payload, m.frag)
      /\ PreparedForRelay(m) = lit(m.ttl - 1, m.origin, m.payload, m.frag)
      /\ [m EXCEPT !.payload = text] = lit(m.ttl, m.origin, text, m.frag)
      /\ [m EXCEPT !.payload = <<>>, !.frag = NoFrag] = lit(m.ttl, m.origin, <<>>, NoFrag)
  BY <1>1, <1>2, <1>3, Zenon DEF Received, PreparedForRelay
<1>7. /\ IsMessage(Received(m, source)) /\ IsMessage(PreparedForRelay(m))
      /\ IsMessage([m EXCEPT !.payload = text])
      /\ IsMessage([m EXCEPT !.payload = <<>>, !.frag = NoFrag])
  BY <1>5, <1>6, Zenon
<1>8. /\ Received(m, source).frag = m.frag /\ Received(m, source).payload = m.payload
      /\ PreparedForRelay(m).frag = m.frag /\ [m EXCEPT !.payload = text].frag = m.frag
      /\ [m EXCEPT !.payload = <<>>, !.frag = NoFrag].frag = NoFrag
  <2>1. Received(m, source).frag = m.frag /\ Received(m, source).payload = m.payload
    BY <1>4, <1>6, Zenon
  <2>2. PreparedForRelay(m).frag = m.frag
    BY <1>4, <1>6, Zenon
  <2>3. [m EXCEPT !.payload = text].frag = m.frag
    BY <1>4, <1>6, Zenon
  <2>4. [m EXCEPT !.payload = <<>>, !.frag = NoFrag].frag = NoFrag
    BY <1>4, <1>6, Zenon
  <2> QED  BY <2>1, <2>2, <2>3, <2>4
<1> QED  BY <1>7, <1>8, Zenon

\* A slice that is not the first follows its predecessor of the same split.
Starts(m) == m.frag = NoFrag \/ m.frag.seq = 0
Before(p, m) == p = [m EXCEPT !.payload = p.payload, !.frag.seq = @ - 1]

LEMMA SlicesFollow ==
  ASSUME NEW msg, NEW t, NEW g, NEW q \in Nat
  PROVE  Before(SliceOf(msg, t, g, q), SliceOf(msg, t, g, q + 1)) /\ Starts(SliceOf(msg, t, g, 0))
<1>1. (q + 1) - 1 = q
  OBVIOUS
<1> DEFINE n == SliceCount(msg, t)
           c == CutSlice(msg, t, q)
           d == CutSlice(msg, t, q + 1)
           lit(seq, cut) == [id |-> msg.id, ttl |-> msg.ttl, origin |-> msg.origin, from |-> msg.from,
                             to |-> msg.to, kind |-> msg.kind, payload |-> cut,
                             frag |-> [group_id |-> g, seq |-> seq, total |-> n]]
<1>2. SliceOf(msg, t, g, q) = lit(q, c) /\ SliceOf(msg, t, g, q + 1) = lit(q + 1, d)
  BY DEF SliceOf
<1>3. Starts(SliceOf(msg, t, g, 0))
  BY DEF SliceOf, Starts
<1> HIDE DEF n, c, d
<1>4. lit(q, c).payload = c
  OBVIOUS
<1>5. [lit(q + 1, d) EXCEPT !.payload = c, !.frag.seq = @ - 1] = lit((q + 1) - 1, c)
  <2>1. [lit(q + 1, d) EXCEPT !.payload = c] = lit(q + 1, c)
    OBVIOUS
  <2>2. [lit(q + 1, c) EXCEPT !.frag.seq = @ - 1] = lit((q + 1) - 1, c)
    OBVIOUS
  <2>3. lit(q + 1, d).frag.seq = q + 1 /\ lit(q + 1, c).frag.seq = q + 1
    OBVIOUS
  <2> HIDE DEF lit
  <2> QED  BY <2>1, <2>2, <2>3
<1> HIDE DEF lit
<1> QED  BY <1>1, <1>2, <1>3, <1>4, <1>5, Zenon DEF Before

LEMMA SliceIsMessage ==
  ASSUME NEW t \in Transport, NEW msg, IsMessage(msg), NEW g,
         Mtu(t) # 0, Len(msg.payload) > Mtu(t), NEW n \in 1 .. SliceCount(msg, t)
  PROVE  IsMessage(SliceOf(msg, t, g, n - 1))
<1>1. msg.payload \in Seq(Nat)  BY MessageFields
<1>2. SliceCount(msg, t) \in Nat /\ Len(msg.payload) # 0
  BY <1>1, SlicesAreSeveral
<1>3. CutSlice(msg, t, n - 1) \in Seq(Nat)
  BY <1>1, <1>2, SliceFits
<1> DEFINE f == [group_id |-> g, seq |-> n - 1, total |-> SliceCount(msg, t)]
<1>4. f.seq \in Nat /\ f.total \in Nat
  BY <1>2
<1> HIDE DEF f
<1>5. SliceOf(msg, t, g, n - 1) =
        [id |-> msg.id, ttl |-> msg.ttl, origin |-> msg.origin, from |-> msg.from, to |-> msg.to,
         kind |-> msg.kind, payload |-> CutSlice(msg, t, n - 1), frag |-> f]
  BY DEF SliceOf, f
<1> QED  BY <1>3, <1>4, <1>5, MessageLiteral

-----------------------------------------------------------------------------
(* Plans: what the engine gives to the queues.                              *)

IsSequence(s) == \E S : s \in Seq(S)

LEMMA SequenceFacts ==
  ASSUME NEW s, IsSequence(s)
  PROVE  Len(s) \in Nat /\ DOMAIN s = 1 .. Len(s) /\ s = [k \in 1 .. Len(s) |-> s[k]]
<1>1. PICK S : s \in Seq(S)
  BY DEF IsSequence
<1> QED  BY <1>1

LEMMA SequencesJoin ==
  ASSUME NEW s, NEW u, IsSequence(s), IsSequence(u)
  PROVE  /\ IsSequence(s \o u) /\ Len(s \o u) = Len(s) + Len(u)
         /\ \A k \in 1 .. Len(s) : (s \o u)[k] = s[k]
         /\ \A k \in 1 .. Len(u) : (s \o u)[Len(s) + k] = u[k]
         /\ \A k \in 1 .. Len(s) + Len(u) :
              k \in 1 .. Len(s) \/ (k - Len(s) \in 1 .. Len(u) /\ k = Len(s) + (k - Len(s)))
<1>1. PICK S : s \in Seq(S)
  BY DEF IsSequence
<1>2. PICK U : u \in Seq(U)
  BY DEF IsSequence
<1>3. s \in Seq(S \cup U) /\ u \in Seq(S \cup U)
  BY <1>1, <1>2, SeqMonotonic
<1>4. Len(s) \in Nat /\ Len(u) \in Nat
  BY <1>1, <1>2
<1>5. /\ s \o u \in Seq(S \cup U) /\ Len(s \o u) = Len(s) + Len(u)
      /\ \A k \in 1 .. Len(s) + Len(u) : (s \o u)[k] = IF k <= Len(s) THEN s[k] ELSE u[k - Len(s)]
  BY <1>3, ConcatProperties
<1>6. ASSUME NEW k \in 1 .. Len(s) PROVE (s \o u)[k] = s[k]
  BY <1>4, <1>5
<1>7. ASSUME NEW k \in 1 .. Len(u) PROVE (s \o u)[Len(s) + k] = u[k]
  <2>1. /\ Len(s) + k \in 1 .. Len(s) + Len(u) /\ ~(Len(s) + k <= Len(s))
        /\ (Len(s) + k) - Len(s) = k
    BY <1>4
  <2> QED  BY <1>5, <2>1
<1>8. IsSequence(s \o u)
  BY <1>5 DEF IsSequence
<1>9. \A k \in 1 .. Len(s) + Len(u) :
        k \in 1 .. Len(s) \/ (k - Len(s) \in 1 .. Len(u) /\ k = Len(s) + (k - Len(s)))
  BY <1>4
<1> QED  BY <1>5, <1>6, <1>7, <1>8, <1>9

LEMMA SequenceMade ==
  ASSUME NEW n \in Nat, NEW s, s = [k \in 1 .. n |-> s[k]]
  PROVE  IsSequence(s) /\ Len(s) = n
<1> DEFINE S == {s[k] : k \in 1 .. n}
<1>1. s \in Seq(S) /\ Len(s) = n
  <2>1. \A k \in 1 .. n : s[k] \in S
    OBVIOUS
  <2> HIDE DEF S
  <2> QED  BY <2>1
<1> QED  BY <1>1 DEF IsSequence

\* Frames with messages in them, and no slice without its predecessor.
InPlace(fs, k) ==
  \/ Starts(fs[k].message)
  \/ /\ k > 1 /\ fs[k - 1].transport = fs[k].transport
     /\ Before(fs[k - 1].message, fs[k].message)
Orderly(fs) ==
  IsSequence(fs) /\ \A k \in 1 .. Len(fs) : IsMessage(fs[k].message) /\ InPlace(fs, k)

LEMMA OrderlyEmpty == Orderly(<<>>)
<1>1. <<>> \in Seq({}) /\ Len(<<>>) = 0
  OBVIOUS
<1> QED  BY <1>1 DEF Orderly, IsSequence

LEMMA OrderlyJoin ==
  ASSUME NEW s, NEW u, Orderly(s), Orderly(u)
  PROVE  Orderly(s \o u)
<1>1. IsSequence(s) /\ IsSequence(u)
  BY DEF Orderly
<1>2. Len(s) \in Nat /\ Len(u) \in Nat
  BY <1>1, SequenceFacts
<1>3. /\ IsSequence(s \o u) /\ Len(s \o u) = Len(s) + Len(u)
      /\ \A k \in 1 .. Len(s) : (s \o u)[k] = s[k]
      /\ \A k \in 1 .. Len(u) : (s \o u)[Len(s) + k] = u[k]
      /\ \A k \in 1 .. Len(s) + Len(u) :
              k \in 1 .. Len(s) \/ (k - Len(s) \in 1 .. Len(u) /\ k = Len(s) + (k - Len(s)))
  BY <1>1, SequencesJoin
<1> DEFINE c == s \o u
<1> HIDE DEF c
<1>4. ASSUME NEW k \in 1 .. Len(s) PROVE IsMessage(c[k].message) /\ InPlace(c, k)
  <2>1. c[k] = s[k] /\ IsMessage(s[k].message) /\ InPlace(s, k)
    BY <1>3 DEF c, Orderly
  <2>2. k > 1 => c[k - 1] = s[k - 1]
    <3>1. k > 1 => k - 1 \in 1 .. Len(s)
      BY <1>2
    <3> QED  BY <1>3, <3>1 DEF c
  <2> QED  BY <2>1, <2>2 DEF InPlace
<1>5. ASSUME NEW j \in 1 .. Len(u)
      PROVE  IsMessage(c[Len(s) + j].message) /\ InPlace(c, Len(s) + j)
  <2>1. c[Len(s) + j] = u[j] /\ IsMessage(u[j].message) /\ InPlace(u, j)
    BY <1>3 DEF c, Orderly
  <2>2. j > 1 => c[(Len(s) + j) - 1] = u[j - 1] /\ Len(s) + j > 1
    <3>1. j > 1 => j - 1 \in 1 .. Len(u) /\ (Len(s) + j) - 1 = Len(s) + (j - 1) /\ Len(s) + j > 1
      BY <1>2
    <3> QED  BY <1>3, <3>1 DEF c
  <2> QED  BY <2>1, <2>2 DEF InPlace
<1>6. \A k \in 1 .. Len(s) + Len(u) : IsMessage(c[k].message) /\ InPlace(c, k)
  <2> TAKE k \in 1 .. Len(s) + Len(u)
  <2> HIDE DEF InPlace
  <2> QED  BY <1>3, <1>4, <1>5
<1> QED  BY <1>3, <1>6 DEF c, Orderly

\* The frames of one message on one transport.
LEMMA PlannedIsOrderly ==
  ASSUME NEW t \in Transport, NEW msg, IsMessage(msg), msg.frag = NoFrag, NEW g, NEW addr
  PROVE  Orderly(Planned(t, addr, Split(msg, t, g)))
<1> DEFINE s == Split(msg, t, g)
           fs == Planned(t, addr, s)
<1>1. ASSUME NEW n \in Nat, s = [k \in 1 .. n |-> s[k]],
             \A k \in 1 .. n : IsMessage(s[k]) /\ (Starts(s[k]) \/ (k > 1 /\ Before(s[k - 1], s[k])))
      PROVE  Orderly(fs)
  <2>1. DOMAIN s = 1 .. n
    BY <1>1
  <2>2. fs = [k \in 1 .. n |-> [transport |-> t, addr |-> addr, message |-> s[k]]]
    BY <2>1 DEF Planned
  <2>3. \A k \in 1 .. n : fs[k].transport = t /\ fs[k].message = s[k]
    BY <2>2
  <2>4. fs = [k \in 1 .. n |-> fs[k]]
    BY <2>2
  <2>5. IsSequence(fs) /\ Len(fs) = n
    BY <2>4, SequenceMade
  <2> HIDE DEF fs, s
  <2>6. ASSUME NEW k \in 1 .. n PROVE IsMessage(fs[k].message) /\ InPlace(fs, k)
    <3>1. k > 1 => k - 1 \in 1 .. n
      OBVIOUS
    <3> QED  BY <1>1, <2>3, <3>1 DEF InPlace
  <2> QED  BY <2>5, <2>6 DEF Orderly
<1>2. msg.payload \in Seq(Nat) /\ Mtu(t) \in Nat /\ Len(msg.payload) \in Nat
  BY MessageFields, MtuIsNat
<1>3. CASE Unfragmentable(msg, t)
  <2>1. s = <<>>
    BY <1>3 DEF Split
  <2>2. s = [k \in 1 .. 0 |-> s[k]]
    BY <2>1
  <2> HIDE DEF s, fs
  <2>3. Orderly(fs)
    BY <1>1, <2>2
  <2> QED  BY <2>3 DEF fs, s
<1>4. CASE ~Unfragmentable(msg, t) /\ Len(msg.payload) <= Mtu(t)
  <2>1. s = <<msg>>
    BY <1>4 DEF Split
  <2>2. s = [k \in 1 .. 1 |-> s[k]] /\ \A k \in 1 .. 1 : s[k] = msg
    BY <2>1
  <2>3. Starts(msg)
    BY DEF Starts
  <2> HIDE DEF s, fs
  <2>4. Orderly(fs)
    BY <1>1, <2>2, <2>3
  <2> QED  BY <2>4 DEF fs, s
<1>5. CASE ~Unfragmentable(msg, t) /\ ~(Len(msg.payload) <= Mtu(t))
  <2> DEFINE n == SliceCount(msg, t)
  <2>1. Mtu(t) # 0 /\ Len(msg.payload) > Mtu(t)
    BY <1>2, <1>5 DEF Unfragmentable
  <2>2. n \in Nat
    BY <1>2, <2>1, SlicesAreSeveral
  <2>3. s = [k \in 1 .. n |-> SliceOf(msg, t, g, k - 1)]
    BY <1>5 DEF Split
  <2>4. \A k \in 1 .. n : s[k] = SliceOf(msg, t, g, k - 1) /\ IsMessage(s[k])
    BY <2>1, <2>3, SliceIsMessage
  <2>5. s = [k \in 1 .. n |-> s[k]]
    BY <2>3
  <2> HIDE DEF s, n
  <2>6. ASSUME NEW k \in 1 .. n PROVE Starts(s[k]) \/ (k > 1 /\ Before(s[k - 1], s[k]))
    <3>1. CASE k = 1
      <4>1. s[k] = SliceOf(msg, t, g, 0)
        BY <2>4, <3>1
      <4> QED  BY <4>1, SlicesFollow
    <3>2. CASE k # 1
      <4> DEFINE q == k - 2
      <4>1. q \in Nat /\ q + 1 = k - 1 /\ k - 1 \in 1 .. n /\ (k - 1) - 1 = q /\ k > 1
        BY <2>2, <3>2
      <4> HIDE DEF q
      <4>2. s[k] = SliceOf(msg, t, g, q + 1) /\ s[k - 1] = SliceOf(msg, t, g, q)
        BY <2>4, <4>1
      <4> QED  BY <4>1, <4>2, SlicesFollow
    <3> QED  BY <3>1, <3>2
  <2> HIDE DEF fs
  <2>7. Orderly(fs)
    BY <1>1, <2>2, <2>4, <2>5, <2>6
  <2> QED  BY <2>7 DEF fs, s
<1> QED  BY <1>3, <1>4, <1>5

\* Plans one after the other, with or without some of them, are a plan.
LEMMA OrderlyFlatten ==
  ASSUME NEW ss, IsSequence(ss), \A j \in 1 .. Len(ss) : Orderly(ss[j])
  PROVE  Orderly(Ext!FlattenSeq(ss))
<1> DEFINE n == Len(ss)
<1>1. n \in Nat
  BY SequenceFacts
<1>2. CASE n = 0
  <2>1. ss = <<>>
    <3>1. PICK S : ss \in Seq(S)
      BY DEF IsSequence
    <3> QED  BY <1>2, <3>1, EmptySeq
  <2>2. Ext!FlattenSeq(ss) = ss
    BY <1>2 DEF Ext!FlattenSeq
  <2> QED  BY <2>1, <2>2, OrderlyEmpty
<1>3. CASE n # 0
  <2>1. PICK g : JoinsTo(g, ss, n)
    BY <1>1, JoinExists
  <2>2. \A i \in 1 .. n : g[i] = IF i = 1 THEN ss[i] ELSE g[i - 1] \o ss[i]
    BY <2>1, Zenon DEF JoinsTo
  <2>3. Ext!FlattenSeq(ss) = g[n]
    <3>1. Joins(g, ss)
      BY <2>1 DEF Joins, JoinsTo
    <3> QED  BY <1>1, <1>3, <3>1, ConcatIsJoin DEF Concat
  <2> HIDE DEF n
  <2> DEFINE D == {i \in 1 .. n : ~Orderly(g[i])}
  <2>4. D = {}
    <3> SUFFICES ASSUME D # {} PROVE FALSE
      OBVIOUS
    <3>1. D \subseteq Nat
      OBVIOUS
    <3>2. PICK i \in D : \A j \in D : i <= j
      <4> HIDE DEF D
      <4> QED  BY <3>1, LeastExists
    <3>3. i \in 1 .. n /\ ~Orderly(g[i]) /\ Orderly(ss[i])
      BY <3>2 DEF n
    <3>4. CASE i = 1
      BY <2>2, <3>3, <3>4
    <3>5. CASE i # 1
      <4>1. i - 1 \in 1 .. n /\ ~(i <= i - 1)
        BY <1>1, <3>3, <3>5
      <4>2. Orderly(g[i - 1])
        BY <3>2, <4>1
      <4>3. g[i] = g[i - 1] \o ss[i]
        BY <2>2, <3>3, <3>5
      <4> QED  BY <3>3, <4>2, <4>3, OrderlyJoin
    <3> QED  BY <3>4, <3>5
  <2>5. n \in 1 .. n
    BY <1>1, <1>3
  <2> QED  BY <2>3, <2>4, <2>5
<1> QED  BY <1>2, <1>3

\* plan_send: whatever it answers, the frames are a plan, and of the engine it changes
\* the id counter only.
LEMMA PlanSendIsOrderly ==
  ASSUME NEW r, IsEngine(r), NEW payload \in Seq(Nat), NEW dest
  PROVE  LET plan == PlanSend(r, "Text", payload, dest)
         IN  Orderly(plan.frames) /\ SameBuffers(r, plan.relay)
<1> DEFINE ts == ResolveTargets(r, dest)
           plan == PlanSend(r, "Text", payload, dest)
           split(k) == Split(Made(r, ts[k], payload, dest), ts[k], GroupFor(r, k))
           failing == {k \in DOMAIN ts : split(k) = <<>>}
           part(k) == Planned(ts[k], dest, split(k))
           ss == [k \in DOMAIN ts |-> part(k)]
<1>1. plan = IF r.registered = {} THEN Refused(r, "NoPortsRegistered")
             ELSE IF ts = <<>> THEN Refused(r, "UnknownReceiver")
             ELSE IF ~FitsMessage(payload) THEN Refused(TakeIds(r, 1), "PayloadTooLarge")
             ELSE IF failing # {} THEN Refused(TakeIds(r, 1 + First(failing)), "PayloadUnfragmentable")
             ELSE [relay |-> TakeIds(r, 1 + Len(ts)), frames |-> Ext!FlattenSeq(ss), err |-> "Ok"]
  BY Zenon DEF PlanSend, Made
<1>2. Len(ts) \in Nat /\ DOMAIN ts = 1 .. Len(ts) /\ \A k \in 1 .. Len(ts) : ts[k] \in Transport
  <2>1. ts \in Seq(Transport)
    BY OrderedTransports DEF ResolveTargets
  <2> HIDE DEF ts
  <2> QED  BY <2>1, ElementOfSeq
<1> HIDE DEF ts
<1>3. ASSUME NEW k \in 1 .. Len(ts) PROVE Orderly(part(k))
  <2>1. IsMessage(Made(r, ts[k], payload, dest)) /\ Made(r, ts[k], payload, dest).frag = NoFrag
    BY PreparedIsMessage DEF Made
  <2>2. ts[k] \in Transport
    BY <1>2
  <2> QED  BY <2>1, <2>2, PlannedIsOrderly
<1> HIDE DEF part
<1>4. Orderly(Ext!FlattenSeq(ss))
  <2>1. ss = [k \in 1 .. Len(ts) |-> ss[k]] /\ \A k \in 1 .. Len(ts) : ss[k] = part(k)
    BY <1>2
  <2> HIDE DEF ss
  <2>2. IsSequence(ss) /\ Len(ss) = Len(ts)
    BY <1>2, <2>1, SequenceMade
  <2> QED  BY <1>3, <2>1, <2>2, OrderlyFlatten
<1>5. SameBuffers(r, r) /\ \A n : SameBuffers(r, TakeIds(r, n))
  BY EngineUpdates DEF TakeIds, SameBuffers
<1> HIDE DEF plan, ss, failing
<1>6. \/ plan.frames = <<>> \/ plan.frames = Ext!FlattenSeq(ss)
  BY <1>1 DEF Refused
<1>7. plan.relay = r \/ \E n : plan.relay = TakeIds(r, n)
  BY <1>1 DEF Refused
<1> QED  BY <1>4, <1>5, <1>6, <1>7, OrderlyEmpty DEF plan

LEMMA PlanForwardIsOrderly ==
  ASSUME NEW r, IsEngine(r), NEW msg, IsMessage(msg), msg.frag = NoFrag, NEW t \in Transport
  PROVE  LET plan == PlanForward(r, msg, t)
         IN  Orderly(plan.frames) /\ SameBuffers(r, plan.relay)
<1> DEFINE plan == PlanForward(r, msg, t)
           copy == PreparedForRelay(msg)
<1>1. SameBuffers(r, r) /\ SameBuffers(r, TakeIds(r, 1))
  BY EngineUpdates DEF TakeIds, SameBuffers
<1>2. CASE ~MayBeRelayed(msg)
  <2>1. plan.frames = <<>> /\ plan.relay = r
    BY <1>2 DEF PlanForward, Refused
  <2> QED  BY <1>1, <2>1, OrderlyEmpty
<1>3. CASE MayBeRelayed(msg)
  <2>1. IsMessage(copy) /\ copy.frag = NoFrag
    <3>1. <<>> \in Seq(Nat)
      OBVIOUS
    <3> QED  BY <3>1, MessageUpdates
  <2> HIDE DEF copy
  <2>2. plan.relay = TakeIds(r, 1) /\ plan.frames = Planned(t, copy.to, Split(copy, t, NextId(r)))
    BY <1>3 DEF PlanForward, EmitOn, copy
  <2> QED  BY <1>1, <2>1, <2>2, PlannedIsOrderly
<1> QED  BY <1>2, <1>3

\* One plan_forward more.
Onward(sofar, msg, t) ==
  [relay  |-> PlanForward(sofar.relay, msg, t).relay,
   frames |-> sofar.frames \o PlanForward(sofar.relay, msg, t).frames]
ForwardsTo(f, r, msg, targets, n) ==
  f = [k \in 0 .. n |-> IF k = 0 THEN [relay |-> r, frames |-> <<>>]
                        ELSE Onward(f[k - 1], msg, targets[k])]

LEMMA ForwardsExist ==
  ASSUME NEW r, NEW msg, NEW targets, NEW n \in Nat
  PROVE  \E f : ForwardsTo(f, r, msg, targets, n)
<1> DEFINE S == {i \in Nat : ~\E f : ForwardsTo(f, r, msg, targets, i)}
           start == [relay |-> r, frames |-> <<>>]
<1>1. S = {}
  <2> SUFFICES ASSUME S # {} PROVE FALSE
    OBVIOUS
  <2>1. S \subseteq Nat
    OBVIOUS
  <2>2. PICK i \in S : \A j \in S : i <= j
    <3> HIDE DEF S
    <3> QED  BY <2>1, LeastExists
  <2>3. i \in Nat /\ ~\E f : ForwardsTo(f, r, msg, targets, i)
    BY <2>2
  <2> HIDE DEF start
  <2>4. CASE i = 0
    <3>1. ForwardsTo([k \in 0 .. i |-> start], r, msg, targets, i)
      BY <2>4 DEF ForwardsTo, start
    <3> QED  BY <2>3, <3>1
  <2>5. CASE i # 0
    <3>1. i - 1 \in Nat /\ ~(i <= i - 1)
      BY <2>3, <2>5
    <3>2. PICK f : ForwardsTo(f, r, msg, targets, i - 1)
      BY <2>2, <3>1
    <3> DEFINE last == Onward(f[i - 1], msg, targets[i])
               g == [k \in 0 .. i |-> IF k = i THEN last ELSE f[k]]
    <3>3. ASSUME NEW k \in 0 .. i PROVE g[k] = IF k = 0 THEN start ELSE Onward(g[k - 1], msg, targets[k])
      <4>1. CASE k = i
        <5>1. g[k] = last /\ g[k - 1] = f[i - 1]
          BY <3>1, <4>1
        <5> QED  BY <2>5, <4>1, <5>1
      <4>2. CASE k # i
        <5>1. k \in 0 .. i - 1 /\ g[k] = f[k]
          BY <2>3, <4>2
        <5>2. f[k] = IF k = 0 THEN start ELSE Onward(f[k - 1], msg, targets[k])
          BY <3>2, <5>1, Zenon DEF ForwardsTo, start
        <5>3. k # 0 => g[k - 1] = f[k - 1]
          BY <2>3, <5>1
        <5> QED  BY <5>1, <5>2, <5>3
      <4> QED  BY <4>1, <4>2
    <3>4. ForwardsTo(g, r, msg, targets, i)
      <4>1. g = [k \in 0 .. i |-> g[k]]
        OBVIOUS
      <4> HIDE DEF g
      <4> QED  BY <3>3, <4>1, Zenon DEF ForwardsTo, start
    <3> QED  BY <2>3, <3>4
  <2> QED  BY <2>4, <2>5
<1> QED  BY <1>1

\* fanout_forward: the same of one plan after the other.
LEMMA ForwardOntoIsOrderly ==
  ASSUME NEW r, IsEngine(r), NEW msg, IsMessage(msg), msg.frag = NoFrag, NEW targets \in Seq(Transport)
  PROVE  LET plan == ForwardOnto(r, msg, targets)
         IN  Orderly(plan.frames) /\ SameBuffers(r, plan.relay)
<1> DEFINE n == Len(targets)
           after == CHOOSE f : ForwardsTo(f, r, msg, targets, n)
<1>1. n \in Nat /\ \A k \in 1 .. n : targets[k] \in Transport
  BY ElementOfSeq
<1>2. ForwardsTo(after, r, msg, targets, n)
  <2> HIDE DEF n
  <2> QED  BY <1>1, ForwardsExist
<1>3. ForwardOnto(r, msg, targets) = after[n]
  BY Zenon DEF ForwardOnto, ForwardsTo, Onward
<1> HIDE DEF n, after
<1>4. \A k \in 0 .. n : after[k] = IF k = 0 THEN [relay |-> r, frames |-> <<>>]
                                  ELSE Onward(after[k - 1], msg, targets[k])
  BY <1>2, Zenon DEF ForwardsTo
<1> DEFINE Good(k) == Orderly(after[k].frames) /\ SameBuffers(r, after[k].relay)
           D == {k \in 0 .. n : ~Good(k)}
<1>5. D = {}
  <2> SUFFICES ASSUME D # {} PROVE FALSE
    OBVIOUS
  <2>1. D \subseteq Nat
    OBVIOUS
  <2>2. PICK i \in D : \A j \in D : i <= j
    <3> HIDE DEF D
    <3> QED  BY <2>1, LeastExists
  <2>3. i \in 0 .. n /\ ~Good(i)
    BY <2>2
  <2>4. CASE i = 0
    <3>1. after[i].frames = <<>> /\ after[i].relay = r
      BY <1>4, <2>3, <2>4
    <3>2. SameBuffers(r, r)
      BY DEF SameBuffers
    <3> QED  BY <2>3, <3>1, <3>2, OrderlyEmpty
  <2>5. CASE i # 0
    <3>1. i - 1 \in 0 .. n /\ ~(i <= i - 1) /\ i \in 1 .. n
      BY <1>1, <2>3, <2>5
    <3>2. Good(i - 1)
      BY <2>2, <3>1
    <3> DEFINE prev == after[i - 1]
               plan == PlanForward(prev.relay, msg, targets[i])
    <3>3. after[i].relay = plan.relay /\ after[i].frames = prev.frames \o plan.frames
      <4>1. after[i] = Onward(prev, msg, targets[i])
        BY <1>4, <2>3, <2>5, Zenon
      <4> HIDE DEF prev
      <4>2. /\ Onward(prev, msg, targets[i]).relay = plan.relay
            /\ Onward(prev, msg, targets[i]).frames = prev.frames \o plan.frames
        BY DEF Onward
      <4> QED  BY <4>1, <4>2, Zenon
    <3> HIDE DEF prev
    <3>4. Orderly(prev.frames) /\ SameBuffers(r, prev.relay)
      BY <3>2 DEF prev
    <3>5. Orderly(plan.frames) /\ SameBuffers(prev.relay, plan.relay)
      <4>1. IsEngine(prev.relay) /\ targets[i] \in Transport
        BY <1>1, <3>1, <3>4 DEF SameBuffers
      <4> QED  BY <4>1, PlanForwardIsOrderly
    <3> HIDE DEF plan
    <3>6. Orderly(after[i].frames)
      BY <3>3, <3>4, <3>5, OrderlyJoin
    <3>7. SameBuffers(r, after[i].relay)
      BY <3>3, <3>4, <3>5 DEF SameBuffers
    <3> QED  BY <2>3, <3>6, <3>7
  <2> QED  BY <2>4, <2>5
<1>6. n \in 0 .. n
  BY <1>1
<1>7. Good(n)
  <2> HIDE DEF Good
  <2> QED  BY <1>5, <1>6
<1> QED  BY <1>3, <1>7

LEMMA OrderlyAppend ==
  ASSUME NEW s, Orderly(s), NEW f, IsMessage(f.message),
         \/ Starts(f.message)
         \/ /\ Len(s) > 0 /\ s[Len(s)].transport = f.transport
            /\ Before(s[Len(s)].message, f.message)
  PROVE  LET c == s \o <<f>>
         IN  Orderly(c) /\ Len(c) = Len(s) + 1 /\ c[Len(s) + 1] = f
<1> DEFINE u == <<f>>
           c == s \o u
<1>1. IsSequence(s) /\ IsSequence(u) /\ Len(u) = 1 /\ u[1] = f /\ 1 \in 1 .. Len(u)
  <2>1. u \in Seq({f}) /\ Len(u) = 1 /\ u[1] = f
    OBVIOUS
  <2> HIDE DEF u
  <2>2. IsSequence(s) /\ IsSequence(u)
    BY <2>1 DEF Orderly, IsSequence
  <2> QED  BY <2>1, <2>2
<1> HIDE DEF u
<1>2. Len(s) \in Nat
  BY <1>1, SequenceFacts
<1>3. /\ IsSequence(c) /\ Len(c) = Len(s) + 1
      /\ \A k \in 1 .. Len(s) : c[k] = s[k]
      /\ \A k \in 1 .. Len(u) : c[Len(s) + k] = u[k]
  <2>1. /\ IsSequence(c) /\ Len(c) = Len(s) + Len(u)
        /\ \A k \in 1 .. Len(s) : c[k] = s[k]
        /\ \A k \in 1 .. Len(u) : c[Len(s) + k] = u[k]
    <3>1. IsSequence(s) /\ IsSequence(u)
      BY <1>1
    <3> QED  BY <3>1, SequencesJoin
  <2> QED  BY <1>1, <2>1, Zenon
<1> HIDE DEF c
<1>4. c[Len(s) + 1] = f
  BY <1>1, <1>3
<1>5. ASSUME NEW k \in 1 .. Len(s) PROVE IsMessage(c[k].message) /\ InPlace(c, k)
  <2>1. c[k] = s[k] /\ IsMessage(s[k].message) /\ InPlace(s, k)
    BY <1>3 DEF Orderly
  <2>2. k > 1 => c[k - 1] = s[k - 1]
    <3>1. k > 1 => k - 1 \in 1 .. Len(s)
      BY <1>2
    <3> QED  BY <1>3, <3>1
  <2> QED  BY <2>1, <2>2 DEF InPlace
<1>6. IsMessage(c[Len(s) + 1].message) /\ InPlace(c, Len(s) + 1)
  <2>1. Len(s) > 0 => c[(Len(s) + 1) - 1] = s[Len(s)] /\ Len(s) + 1 > 1
    <3>1. Len(s) > 0 => Len(s) \in 1 .. Len(s) /\ (Len(s) + 1) - 1 = Len(s) /\ Len(s) + 1 > 1
      BY <1>2
    <3> QED  BY <1>3, <3>1
  <2> QED  BY <1>4, <2>1 DEF InPlace
<1>7. \A k \in 1 .. Len(s) + 1 : k \in 1 .. Len(s) \/ k = Len(s) + 1
  BY <1>2
<1>8. \A k \in 1 .. Len(s) + 1 : IsMessage(c[k].message) /\ InPlace(c, k)
  BY <1>5, <1>6, <1>7, Zenon
<1>9. Orderly(c)
  BY <1>3, <1>8, Zenon DEF Orderly
<1> QED  BY <1>3, <1>4, <1>9 DEF c, u

\* Neither does the share of one transport leave a slice without its predecessor.
LEMMA ForIsOrderly ==
  ASSUME NEW t, NEW fs, Orderly(fs)
  PROVE  Orderly(For(t, fs))
<1> DEFINE n == Len(fs)
           pick(k) == IF fs[k].transport = t THEN <<fs[k]>> ELSE <<>>
           ss == [k \in DOMAIN fs |-> pick(k)]
<1>1. n \in Nat /\ DOMAIN fs = 1 .. n
  BY SequenceFacts DEF Orderly
<1> HIDE DEF n
<1>2. DOMAIN ss = 1 .. n /\ ss = [k \in 1 .. n |-> ss[k]]
      /\ \A k \in 1 .. n : ss[k] = IF fs[k].transport = t THEN <<fs[k]>> ELSE <<>>
  BY <1>1
<1>3. For(t, fs) = Ext!FlattenSeq(ss)
  BY DEF For
<1> HIDE DEF ss
<1>4. IsSequence(ss) /\ Len(ss) = n
  BY <1>1, <1>2, SequenceMade
<1>5. CASE n = 0
  <2>1. Orderly(Ext!FlattenSeq(ss))
    <3>1. \A j \in 1 .. Len(ss) : Orderly(ss[j])
      BY <1>4, <1>5
    <3> QED  BY <1>4, <3>1, OrderlyFlatten
  <2> QED  BY <1>3, <2>1
<1>6. CASE n # 0
  <2>1. PICK g : JoinsTo(g, ss, n)
    BY <1>1, JoinExists
  <2>2. \A i \in 1 .. n : g[i] = IF i = 1 THEN ss[i] ELSE g[i - 1] \o ss[i]
    BY <2>1, Zenon DEF JoinsTo
  <2>3. Ext!FlattenSeq(ss) = g[n]
    <3>1. Joins(g, ss)
      BY <1>4, <2>1 DEF Joins, JoinsTo
    <3> QED  BY <1>1, <1>4, <1>6, <3>1, ConcatIsJoin DEF Concat
  <2> DEFINE Right(i) == /\ Orderly(g[i])
                         /\ fs[i].transport = t => Len(g[i]) > 0 /\ g[i][Len(g[i])] = fs[i]
             D == {i \in 1 .. n : ~Right(i)}
  \* One frame more, after a plan that holds its predecessor if it needs one.
  <2>4. ASSUME NEW i \in 1 .. n, NEW s, Orderly(s), g[i] = s \o ss[i],
               i = 1 \/ (fs[i - 1].transport = t => Len(s) > 0 /\ s[Len(s)] = fs[i - 1])
        PROVE  Right(i)
    <3>1. IsMessage(fs[i].message) /\ InPlace(fs, i)
      BY DEF Orderly, n
    <3>2. CASE fs[i].transport # t
      <4>1. ss[i] = <<>>
        BY <1>2, <3>2
      <4>2. s \o <<>> = s
        <5>1. PICK S : s \in Seq(S)
          BY <2>4 DEF Orderly, IsSequence
        <5> QED  BY <5>1, ConcatEmptySeq
      <4>3. g[i] = s
        BY <2>4, <4>1, <4>2
      <4> QED  BY <2>4, <3>2, <4>3
    <3>3. CASE fs[i].transport = t
      <4>1. g[i] = s \o <<fs[i]>>
        BY <1>2, <2>4, <3>3
      <4>2. \/ Starts(fs[i].message)
            \/ /\ Len(s) > 0 /\ s[Len(s)].transport = fs[i].transport
               /\ Before(s[Len(s)].message, fs[i].message)
        <5>1. i > 1 => i # 1
          OBVIOUS
        <5> QED  BY <2>4, <3>1, <3>3, <5>1, Zenon DEF InPlace
      <4>3. Orderly(g[i]) /\ Len(g[i]) = Len(s) + 1 /\ g[i][Len(s) + 1] = fs[i]
        BY <2>4, <3>1, <4>1, <4>2, OrderlyAppend
      <4>4. Len(s) \in Nat
        BY <2>4, SequenceFacts DEF Orderly
      <4>5. Len(g[i]) > 0
        BY <4>3, <4>4
      <4> QED  BY <4>3, <4>5
    <3> QED  BY <3>2, <3>3
  <2>5. D = {}
    <3> SUFFICES ASSUME D # {} PROVE FALSE
      OBVIOUS
    <3>1. D \subseteq Nat
      OBVIOUS
    <3>2. PICK i \in D : \A j \in D : i <= j
      <4> HIDE DEF D
      <4> QED  BY <3>1, LeastExists
    <3>3. i \in 1 .. n /\ ~Right(i)
      <4> HIDE DEF Right
      <4> QED  BY <3>2
    <3>4. CASE i = 1
      <4>1. g[i] = ss[i] /\ (ss[i] = <<fs[i]>> \/ ss[i] = <<>>)
        BY <1>2, <2>2, <3>3, <3>4
      <4>2. <<>> \o ss[i] = ss[i]
        <5>1. PICK S : ss[i] \in Seq(S)
          <6>1. <<fs[i]>> \in Seq({fs[i]}) /\ <<>> \in Seq({fs[i]})
            OBVIOUS
          <6> QED  BY <4>1, <6>1
        <5> QED  BY <5>1, ConcatEmptySeq
      <4>3. g[i] = <<>> \o ss[i]
        BY <4>1, <4>2
      <4>4. Right(i)
        <5> HIDE DEF Right
        <5> QED  BY <2>4, <3>3, <3>4, <4>3, OrderlyEmpty
      <4> QED  BY <3>3, <4>4
    <3>5. CASE i # 1
      <4>1. i - 1 \in 1 .. n /\ ~(i <= i - 1)
        BY <1>1, <3>3, <3>5
      <4>2. Right(i - 1)
        <5> HIDE DEF Right
        <5> QED  BY <3>2, <4>1
      <4>3. g[i] = g[i - 1] \o ss[i]
        BY <2>2, <3>3, <3>5
      <4>4. Right(i)
        <5>1. Orderly(g[i - 1])
              /\ (fs[i - 1].transport = t => Len(g[i - 1]) > 0 /\ g[i - 1][Len(g[i - 1])] = fs[i - 1])
          BY <4>2
        <5> HIDE DEF Right
        <5> QED  BY <2>4, <3>3, <4>3, <5>1
      <4> QED  BY <3>3, <4>4
    <3> QED  BY <3>4, <3>5
  <2>6. n \in 1 .. n
    BY <1>1, <1>6
  <2>7. Right(n)
    <3> HIDE DEF Right
    <3> QED  BY <2>5, <2>6
  <2> QED  BY <1>3, <2>3, <2>7
<1> QED  BY <1>5, <1>6

-----------------------------------------------------------------------------
(* The engine hands up messages, and the bridge passes on what it hands up. *)

SlotOfMessages(slot) ==
  /\ slot.fragments \in [Bucket -> Seq(Nat)]
  /\ slot.in_use =>
       slot.total \in 1 .. PER_SLOT /\ IsMessage(slot.template) /\ slot.template.frag = NoFrag
SlotsOfMessages(slots) ==
  /\ slots = [i \in SlotIndex |-> slots[i]]
  /\ \A i \in SlotIndex : SlotOfMessages(slots[i])
EngineOfMessages(r) == IsEngine(r) /\ SlotsOfMessages(r.slots)

LEMMA EmptySlotOfMessages == SlotOfMessages(EmptySlot)
<1>1. [q \in Bucket |-> <<>>] \in [Bucket -> Seq(Nat)]
  OBVIOUS
<1>2. EmptySlot.fragments = [q \in Bucket |-> <<>>] /\ EmptySlot.in_use = FALSE
  BY DEF EmptySlot
<1> QED  BY <1>1, <1>2, Zenon DEF SlotOfMessages

LEMMA SlotPut ==
  ASSUME NEW slots, SlotsOfMessages(slots), NEW i \in SlotIndex, NEW s, SlotOfMessages(s)
  PROVE  SlotsOfMessages([slots EXCEPT ![i] = s])
<1> DEFINE g == [slots EXCEPT ![i] = s]
<1>1. DOMAIN slots = SlotIndex
  BY Zenon DEF SlotsOfMessages
<1>2. g = [j \in SlotIndex |-> g[j]] /\ \A j \in SlotIndex : g[j] = IF j = i THEN s ELSE slots[j]
  BY <1>1
<1> HIDE DEF g
<1>3. \A j \in SlotIndex : SlotOfMessages(g[j])
  BY <1>2 DEF SlotsOfMessages
<1>4. SlotsOfMessages(g)
  BY <1>2, <1>3, Zenon DEF SlotsOfMessages
<1> QED  BY <1>4 DEF g

\* What the slots of a full group give, joined, is a text.
LEMMA AssembledIsText ==
  ASSUME NEW s, SlotOfMessages(s), s.total \in 1 .. PER_SLOT
  PROVE  Assembled(s) \in Seq(Nat)
<1> DEFINE n == s.total
           ss == [k \in 1 .. n |-> s.fragments[k - 1]]
<1>1. n \in Nat \ {0} /\ PER_SLOT \in Nat /\ n <= PER_SLOT
  BY ReassemblerAssumption DEF ReassemblerAssumption
<1>2. \A k \in 1 .. n : s.fragments[k - 1] \in Seq(Nat)
  <2> TAKE k \in 1 .. n
  <2>1. k - 1 \in Bucket
    BY <1>1 DEF Bucket
  <2> QED  BY <2>1 DEF SlotOfMessages
<1>3. Assembled(s) = Ext!FlattenSeq(ss)
  BY DEF Assembled, Concat
<1> HIDE DEF n
<1>4. ss \in Seq(Seq(Nat)) /\ Len(ss) = n
  BY <1>1, <1>2
<1> HIDE DEF ss
<1>5. Len(ss) # 0
  BY <1>1, <1>4
<1> QED  BY <1>3, <1>4, <1>5, FlattenElements

LEMMA IngestKeepsMessages ==
  ASSUME NEW slots, SlotsOfMessages(slots), NEW msg, IsMessage(msg)
  PROVE  LET got == Ingest(slots, msg)
         IN  /\ SlotsOfMessages(got.slots)
             /\ got.out.tag \in {"Passthrough", "Complete"} =>
                  IsMessage(got.out.msg) /\ got.out.msg.frag = NoFrag
<1> DEFINE f == msg.frag
           i == SlotFor(slots, f)
           opened == FoundOrClaimed(slots, msg)
           stored == Stored(opened, msg)
           full == [stored.template EXCEPT !.payload = Assembled(stored)]
           got == Ingest(slots, msg)
<1>1. CASE f = NoFrag
  <2>1. got = [slots |-> slots, out |-> Passthrough(msg)]
    BY <1>1, Zenon DEF Ingest
  <2>2. got.slots = slots /\ got.out.msg = msg
    BY <2>1 DEF Passthrough
  <2> QED  BY <1>1, <2>2
<1>2. CASE f # NoFrag
             /\ (~ValidHeader(f) \/ (Existing(slots, f) = {} /\ FreeSlots(slots) = {}) \/ AlreadyHas(opened, f))
  <2>1. PICK reason : got = [slots |-> slots, out |-> Dropped(reason)]
    BY <1>2, Zenon DEF Ingest
  <2>2. got.slots = slots /\ got.out.tag = "Dropped"
    BY <2>1 DEF Dropped
  <2> QED  BY <2>2
<1>3. CASE f # NoFrag
             /\ ~(~ValidHeader(f) \/ (Existing(slots, f) = {} /\ FreeSlots(slots) = {}) \/ AlreadyHas(opened, f))
  <2>1. f.seq \in Nat /\ f.total \in Nat /\ f.total # 0 /\ f.seq < f.total /\ f.total <= PER_SLOT /\ PER_SLOT \in Nat
    <3>1. f.seq \in Nat /\ f.total \in Nat
      BY <1>3, MessageFields
    <3>2. PER_SLOT \in Nat
      BY ReassemblerAssumption DEF ReassemblerAssumption
    <3>3. ValidHeader(f)
      BY <1>3
    <3> QED  BY <3>1, <3>2, <3>3 DEF ValidHeader
  <2>2. f.total \in 1 .. PER_SLOT /\ f.seq \in Bucket
    BY <2>1 DEF Bucket
  <2>3. /\ i \in SlotIndex
        /\ Existing(slots, f) # {} => i \in Existing(slots, f)
    <3>1. Existing(slots, f) \subseteq SlotIndex /\ FreeSlots(slots) \subseteq SlotIndex
      BY DEF Existing, FreeSlots
    <3>2. CASE Existing(slots, f) # {}
      <4>1. i = First(Existing(slots, f))
        BY <3>2 DEF SlotFor
      <4> QED  BY <3>1, <3>2, <4>1, FirstIsIn
    <3>3. CASE Existing(slots, f) = {}
      <4>1. i = First(FreeSlots(slots)) /\ FreeSlots(slots) # {}
        BY <1>3, <3>3 DEF SlotFor
      <4> QED  BY <3>1, <3>3, <4>1, FirstIsIn
    <3> QED  BY <3>2, <3>3
  <2>4. SlotOfMessages(slots[i])
    BY <2>3 DEF SlotsOfMessages
  <2>5. /\ opened.fragments \in [Bucket -> Seq(Nat)] /\ opened.total \in 1 .. PER_SLOT
        /\ IsMessage(opened.template) /\ opened.template.frag = NoFrag
    <3>1. CASE Existing(slots, f) # {}
      <4>1. opened = slots[i]
        BY <3>1 DEF FoundOrClaimed
      <4>2. slots[i].in_use
        BY <2>3, <3>1 DEF Existing, Matches
      <4> QED  BY <2>4, <4>1, <4>2 DEF SlotOfMessages
    <3>2. CASE Existing(slots, f) = {}
      <4> DEFINE tpl == [msg EXCEPT !.payload = <<>>, !.frag = NoFrag]
      <4>1. opened = Claimed(slots[i], msg)
        BY <3>2 DEF FoundOrClaimed
      <4>2. IsMessage(tpl) /\ tpl.frag = NoFrag
        <5>1. <<>> \in Seq(Nat)
          OBVIOUS
        <5> HIDE DEF f, i, opened, stored, full, got
        <5> QED  BY <5>1, MessageUpdates
      <4>3. /\ Claimed(slots[i], msg).fragments = slots[i].fragments
            /\ Claimed(slots[i], msg).total = f.total
            /\ Claimed(slots[i], msg).template = tpl
        BY DEF Claimed
      <4> HIDE DEF tpl, opened, i, f
      <4>4. opened.fragments = slots[i].fragments /\ opened.total = f.total /\ opened.template = tpl
        BY <4>1, <4>3, Zenon
      <4> QED  BY <2>2, <2>4, <4>2, <4>4 DEF SlotOfMessages
    <3> QED  BY <3>1, <3>2
  <2> HIDE DEF opened, i
  <2>6. /\ stored.total = opened.total /\ stored.template = opened.template
        /\ stored.fragments = [opened.fragments EXCEPT ![f.seq] = msg.payload]
    BY DEF Stored
  <2> HIDE DEF stored
  <2>7. SlotOfMessages(stored)
    <3>1. msg.payload \in Seq(Nat)
      BY MessageFields
    <3>2. [opened.fragments EXCEPT ![f.seq] = msg.payload] \in [Bucket -> Seq(Nat)]
      BY <2>2, <2>5, <3>1
    <3> QED  BY <2>5, <2>6, <3>2 DEF SlotOfMessages
  <2>8. IsMessage(full) /\ full.frag = NoFrag
    <3>1. Assembled(stored) \in Seq(Nat)
      BY <2>5, <2>6, <2>7, AssembledIsText
    <3>2. IsMessage(stored.template) /\ stored.template.frag = NoFrag
      BY <2>5, <2>6
    <3> QED  BY <3>1, <3>2, MessageUpdates
  <2> HIDE DEF full
  <2>9. \/ got = [slots |-> [slots EXCEPT ![i] = stored], out |-> Buffered]
        \/ got = [slots |-> [slots EXCEPT ![i] = EmptySlot], out |-> Dropped("PayloadTooLarge")]
        \/ got = [slots |-> [slots EXCEPT ![i] = EmptySlot], out |-> Complete(full)]
    BY <1>3, Zenon DEF Ingest, opened, stored, i, full
  <2>10. /\ got.slots \in {[slots EXCEPT ![i] = stored], [slots EXCEPT ![i] = EmptySlot]}
         /\ got.out.tag \in {"Passthrough", "Complete"} => got.out.msg = full
    <3> HIDE DEF f
    <3> QED  BY <2>9 DEF Buffered, Dropped, Complete
  <2>11. SlotsOfMessages(got.slots)
    BY <2>3, <2>4, <2>7, <2>10, SlotPut, EmptySlotOfMessages
  <2> QED  BY <2>8, <2>10, <2>11
<1> QED  BY <1>1, <1>2, <1>3

\* ingest: the engine keeps holding messages only, and what the bridge may pass on is
\* a whole message.
LEMMA IngestFrameKeepsMessages ==
  ASSUME NEW r, EngineOfMessages(r), NEW source, NEW frame, IsMessage(frame)
  PROVE  LET got == IngestFrame(r, source, frame)
         IN  /\ EngineOfMessages(got.relay)
             /\ MustForward(got.out) => IsMessage(got.out.msg) /\ got.out.msg.frag = NoFrag
<1> DEFINE msg == Received(frame, source)
           key == DedupKey(msg)
           re == Ingest(r.slots, msg)
           learnt == [r EXCEPT !.receivers = Learnt(r, msg, source)]
           seen2 == CheckAndInsert(learnt.seen, key)
           got == IngestFrame(r, source, frame)
<1>1. IsMessage(msg)
  <2>1. <<>> \in Seq(Nat)  OBVIOUS
  <2> QED  BY <2>1, MessageUpdates
<1>2. SameBuffers(r, learnt)
  BY EngineUpdates DEF EngineOfMessages
<1>3. /\ SlotsOfMessages(re.slots)
      /\ re.out.tag \in {"Passthrough", "Complete"} => IsMessage(re.out.msg) /\ re.out.msg.frag = NoFrag
  BY <1>1, IngestKeepsMessages DEF EngineOfMessages
<1>4. re.out.tag \in {"Passthrough", "Buffered", "Complete", "Dropped"}
  BY IngestAnswers
<1>5. CASE Contains(r.seen, key)
  <2>1. got = [relay |-> learnt, out |-> [tag |-> "Duplicate"]]
    BY <1>5, Zenon DEF IngestFrame
  <2> HIDE DEF learnt
  <2>2. got.relay = learnt /\ got.out.tag = "Duplicate"
    BY <2>1
  <2> HIDE DEF got
  <2>3. ~MustForward(got.out)
    BY <2>2 DEF MustForward
  <2>4. EngineOfMessages(got.relay)
    BY <1>2, <2>2 DEF EngineOfMessages, SameBuffers
  <2> QED  BY <2>3, <2>4 DEF got
<1>6. CASE ~Contains(r.seen, key)
  <2>1. got = [relay |-> Rebuffered(learnt, seen2, re.slots), out |-> Directed(r, re.out)]
    BY <1>6, Zenon DEF IngestFrame, Rebuffered
  <2> HIDE DEF learnt, seen2, re
  <2>2. got.relay = Rebuffered(learnt, seen2, re.slots) /\ got.out = Directed(r, re.out)
    BY <2>1
  <2> HIDE DEF got
  <2>3. EngineOfMessages(got.relay)
    <3>1. IsEngine(got.relay) /\ got.relay.slots = re.slots
      BY <1>2, <2>2, BuffersUpdate DEF SameBuffers
    <3> QED  BY <1>3, <3>1 DEF EngineOfMessages
  <2>4. MustForward(got.out) => IsMessage(got.out.msg) /\ got.out.msg.frag = NoFrag
    <3>1. CASE re.out.tag \in {"Passthrough", "Complete"}
      <4>1. got.out = Direct(r, re.out.msg)
        BY <2>2, <3>1 DEF Directed
      <4>2. Direct(r, re.out.msg).msg = re.out.msg
        BY DEF Direct
      <4> QED  BY <1>3, <3>1, <4>1, <4>2
    <3>2. CASE re.out.tag \notin {"Passthrough", "Complete"}
      <4>1. got.out = re.out
        BY <2>2, <3>2 DEF Directed
      <4>2. ~MustForward(got.out)
        BY <1>4, <3>2, <4>1 DEF MustForward
      <4> QED  BY <4>2
    <3> QED  BY <3>1, <3>2
  <2> QED  BY <2>3, <2>4 DEF got
<1> QED  BY <1>5, <1>6

\* One turn of bridge_loop plans messages and whole runs of slices.
LEMMA BridgedIsOrderly ==
  ASSUME NEW r, EngineOfMessages(r), NEW source, NEW frame, IsMessage(frame)
  PROVE  LET turn == Bridged(r, source, frame)
         IN  EngineOfMessages(turn.relay) /\ Orderly(turn.frames)
<1> DEFINE got == IngestFrame(r, source, frame)
           fan == Fanout(got.relay, got.out.msg, source)
           turn == Bridged(r, source, frame)
<1>1. /\ EngineOfMessages(got.relay)
      /\ MustForward(got.out) => IsMessage(got.out.msg) /\ got.out.msg.frag = NoFrag
  BY IngestFrameKeepsMessages
<1>2. Others(source) \in Seq(Transport)
  BY OrderedTransports DEF Others
<1>3. CASE MustForward(got.out)
  <2>1. turn.relay = fan.relay /\ turn.frames = fan.frames
    BY <1>3 DEF Bridged
  <2>2. Orderly(fan.frames) /\ SameBuffers(got.relay, fan.relay)
    <3> HIDE DEF got
    <3>1. IsEngine(got.relay)
      BY <1>1 DEF EngineOfMessages
    <3> QED  BY <1>1, <1>2, <1>3, <3>1, ForwardOntoIsOrderly DEF Fanout
  <2> HIDE DEF fan, turn, got
  <2>3. EngineOfMessages(turn.relay) /\ Orderly(turn.frames)
    BY <1>1, <2>1, <2>2 DEF EngineOfMessages, SameBuffers
  <2> QED  BY <2>3 DEF turn
<1>4. CASE ~MustForward(got.out)
  <2>1. turn.relay = got.relay /\ turn.frames = <<>>
    BY <1>4 DEF Bridged
  <2> QED  BY <1>1, <2>1, OrderlyEmpty
<1> QED  BY <1>3, <1>4

-----------------------------------------------------------------------------
(* The queues out of the bridge.                                            *)

Messages(o) == [k \in DOMAIN o |-> o[k].message]
Sliced(s) == \A k \in 1 .. Len(s) : Starts(s[k]) \/ (k > 1 /\ Before(s[k - 1], s[k]))

\* What was taken from a queue so far, and what is in it.
QueueInv(l, o) ==
  /\ IsSequence(l) /\ IsSequence(o) /\ Len(o) <= QUEUE
  /\ \A k \in 1 .. Len(o) : IsMessage(o[k].message)
  /\ Sliced(l \o Messages(o))

\* s is l and then the messages of o.
Follow(s, l, o) ==
  /\ Len(s) = Len(l) + Len(o)
  /\ \A k \in 1 .. Len(l) : s[k] = l[k]
  /\ \A k \in 1 .. Len(o) : s[Len(l) + k] = o[k].message
  /\ \A k \in 1 .. Len(l) + Len(o) : k \in 1 .. Len(l) \/ \E j \in 1 .. Len(o) : k = Len(l) + j

LEMMA AcceptedAt ==
  ASSUME NEW l, NEW o, IsSequence(l), IsSequence(o)
  PROVE  IsSequence(l \o Messages(o)) /\ Follow(l \o Messages(o), l, o)
<1> DEFINE m == Messages(o)
<1>1. Len(l) \in Nat /\ Len(o) \in Nat /\ DOMAIN o = 1 .. Len(o)
  BY SequenceFacts
<1>2. m = [k \in 1 .. Len(o) |-> m[k]] /\ \A k \in 1 .. Len(o) : m[k] = o[k].message
  BY <1>1 DEF Messages
<1> HIDE DEF m
<1>3. IsSequence(m) /\ Len(m) = Len(o)
  BY <1>1, <1>2, SequenceMade
<1>4. /\ IsSequence(l \o m) /\ Len(l \o m) = Len(l) + Len(m)
      /\ \A k \in 1 .. Len(l) : (l \o m)[k] = l[k]
      /\ \A k \in 1 .. Len(m) : (l \o m)[Len(l) + k] = m[k]
      /\ \A k \in 1 .. Len(l) + Len(m) :
           k \in 1 .. Len(l) \/ (k - Len(l) \in 1 .. Len(m) /\ k = Len(l) + (k - Len(l)))
  BY <1>3, SequencesJoin
<1>5. \A k \in 1 .. Len(o) : (l \o m)[Len(l) + k] = o[k].message
  BY <1>2, <1>3, <1>4
<1>6. \A k \in 1 .. Len(l) + Len(o) : k \in 1 .. Len(l) \/ \E j \in 1 .. Len(o) : k = Len(l) + j
  BY <1>3, <1>4, Zenon
<1>7. IsSequence(l \o m) /\ Len(l \o m) = Len(l) + Len(o)
  BY <1>3, <1>4
<1>8. Follow(l \o m, l, o)
  BY <1>4, <1>5, <1>6, <1>7, Zenon DEF Follow
<1> QED  BY <1>7, <1>8 DEF m

LEMMA SlicedPrefix ==
  ASSUME NEW s, NEW u, Sliced(s), Len(s) \in Nat, Len(u) \in Nat, Len(u) <= Len(s),
         \A k \in 1 .. Len(u) : u[k] = s[k]
  PROVE  Sliced(u)
<1> SUFFICES ASSUME NEW k \in 1 .. Len(u) PROVE Starts(u[k]) \/ (k > 1 /\ Before(u[k - 1], u[k]))
  BY DEF Sliced
<1>1. k \in 1 .. Len(s) /\ u[k] = s[k]
  OBVIOUS
<1>2. k > 1 => u[k - 1] = s[k - 1]
  OBVIOUS
<1> QED  BY <1>1, <1>2 DEF Sliced

\* enqueue, also when it cuts a plan short.
LEMMA QueueTakes ==
  ASSUME NEW l, NEW o, NEW fs, QueueInv(l, o), Orderly(fs), NEW c, c = o \o fs,
         NEW n \in Nat, n <= QUEUE, n <= Len(c), NEW cut, cut = SubSeq(c, 1, n)
  PROVE  QueueInv(l, cut)
<1> DEFINE s == l \o Messages(c)
           u == l \o Messages(cut)
           s0 == l \o Messages(o)
<1>1. IsSequence(l) /\ IsSequence(o) /\ IsSequence(fs)
  BY DEF QueueInv, Orderly
<1>2. Len(l) \in Nat /\ Len(o) \in Nat /\ Len(fs) \in Nat
  BY <1>1, SequenceFacts
<1>3. /\ IsSequence(o \o fs) /\ Len(o \o fs) = Len(o) + Len(fs)
      /\ \A k \in 1 .. Len(o) : (o \o fs)[k] = o[k]
      /\ \A k \in 1 .. Len(fs) : (o \o fs)[Len(o) + k] = fs[k]
      /\ \A k \in 1 .. Len(o) + Len(fs) :
           k \in 1 .. Len(o) \/ (k - Len(o) \in 1 .. Len(fs) /\ k = Len(o) + (k - Len(o)))
  BY <1>1, SequencesJoin
<1>4. IsSequence(c) /\ n <= Len(c) /\ Len(c) \in Nat /\ Len(c) = Len(o) + Len(fs)
  BY <1>2, <1>3
<1>5. IsSequence(cut) /\ Len(cut) = n /\ \A k \in 1 .. n : cut[k] = c[k]
  <2>1. PICK S : c \in Seq(S)
    BY <1>4 DEF IsSequence
  <2>2. cut \in Seq(S) /\ Len(cut) = n /\ \A k \in 1 .. n : cut[k] = c[k]
    BY <1>4, <2>1
  <2> QED  BY <2>2 DEF IsSequence
<1>6. \A k \in 1 .. Len(c) : IsMessage(c[k].message)
  <2> TAKE k \in 1 .. Len(c)
  <2>1. CASE k \in 1 .. Len(o)
    BY <1>3, <2>1 DEF QueueInv
  <2>2. CASE k - Len(o) \in 1 .. Len(fs) /\ k = Len(o) + (k - Len(o))
    BY <1>3, <2>2 DEF Orderly
  <2> QED  BY <1>3, <1>4, <2>1, <2>2
<1>7. Follow(s0, l, o) /\ Sliced(s0)
  BY <1>1, AcceptedAt DEF QueueInv
<1>8. Follow(s, l, c)
  BY <1>1, <1>4, AcceptedAt
<1>9. Follow(u, l, cut)
  BY <1>1, <1>5, AcceptedAt
<1> HIDE DEF s0, s, u
<1>10. \A k \in 1 .. Len(l) + Len(o) : s[k] = s0[k]
  <2> TAKE k \in 1 .. Len(l) + Len(o)
  <2>1. CASE k \in 1 .. Len(l)
    BY <1>7, <1>8, <2>1 DEF Follow
  <2>2. ASSUME NEW j \in 1 .. Len(o), k = Len(l) + j
        PROVE  s[k] = s0[k]
    <3>1. j \in 1 .. Len(c) /\ c[j] = o[j]
      BY <1>2, <1>3, <1>4
    <3> QED  BY <1>7, <1>8, <2>2, <3>1 DEF Follow
  <2>3. k \in 1 .. Len(l) \/ \E j \in 1 .. Len(o) : k = Len(l) + j
    BY <1>7, Zenon DEF Follow
  <2> QED  BY <2>1, <2>2, <2>3
<1>11. ASSUME NEW j \in 1 .. Len(fs)
       PROVE  LET k == Len(l) + (Len(o) + j)
              IN  Starts(s[k]) \/ (k > 1 /\ Before(s[k - 1], s[k]))
  <2> DEFINE k == Len(l) + (Len(o) + j)
  <2>1. Len(o) + j \in 1 .. Len(c) /\ c[Len(o) + j] = fs[j]
    BY <1>2, <1>3, <1>4
  <2>2. s[k] = fs[j].message
    BY <1>8, <2>1 DEF Follow
  <2>3. InPlace(fs, j)
    BY DEF Orderly
  <2>4. CASE j > 1
    <3>1. /\ Len(o) + (j - 1) \in 1 .. Len(c) /\ j - 1 \in 1 .. Len(fs)
          /\ k - 1 = Len(l) + (Len(o) + (j - 1)) /\ k > 1
      BY <1>2, <1>4, <2>4
    <3>2. c[Len(o) + (j - 1)] = fs[j - 1]
      BY <1>3, <3>1
    <3>3. s[k - 1] = fs[j - 1].message
      BY <1>8, <3>1, <3>2 DEF Follow
    <3> HIDE DEF k
    <3>4. Starts(s[k]) \/ (k > 1 /\ Before(s[k - 1], s[k]))
      BY <2>2, <2>3, <3>1, <3>3, Zenon DEF InPlace
    <3> QED  BY <3>4 DEF k
  <2>5. CASE ~(j > 1)
    BY <2>2, <2>3, <2>5 DEF InPlace
  <2> QED  BY <2>4, <2>5
<1>12. Sliced(s)
  <2> SUFFICES ASSUME NEW k \in 1 .. Len(s) PROVE Starts(s[k]) \/ (k > 1 /\ Before(s[k - 1], s[k]))
    BY DEF Sliced
  <2>1. CASE k \in 1 .. Len(l) + Len(o)
    <3>1. k \in 1 .. Len(s0) /\ s[k] = s0[k]
      BY <1>7, <1>10, <2>1 DEF Follow
    <3>2. k > 1 => s[k - 1] = s0[k - 1]
      <4>1. k > 1 => k - 1 \in 1 .. Len(l) + Len(o)
        BY <1>2, <2>1
      <4> QED  BY <1>10, <4>1
    <3> QED  BY <1>7, <3>1, <3>2 DEF Sliced
  <2>2. CASE k \notin 1 .. Len(l) + Len(o)
    <3> DEFINE j == k - (Len(l) + Len(o))
    <3>1. j \in 1 .. Len(fs) /\ k = Len(l) + (Len(o) + j)
      BY <1>2, <1>4, <1>8, <2>2 DEF Follow
    <3> QED  BY <1>11, <3>1
  <2> QED  BY <2>1, <2>2
<1>13. Sliced(u)
  <2>1. Len(s) \in Nat /\ Len(u) \in Nat /\ Len(u) <= Len(s)
    <3>1. Len(s) = Len(l) + Len(c) /\ Len(u) = Len(l) + n
      BY <1>5, <1>8, <1>9, Zenon DEF Follow
    <3> QED  BY <1>2, <1>4, <3>1
  <2>2. ASSUME NEW k \in 1 .. Len(u) PROVE u[k] = s[k]
    <3>1. CASE k \in 1 .. Len(l)
      BY <1>8, <1>9, <3>1 DEF Follow
    <3>2. ASSUME NEW j \in 1 .. n, k = Len(l) + j
          PROVE  u[k] = s[k]
      <4>1. j \in 1 .. Len(c) /\ cut[j] = c[j]
        BY <1>4, <1>5
      <4>2. j \in 1 .. Len(cut)
        BY <1>5
      <4> QED  BY <1>8, <1>9, <3>2, <4>1, <4>2 DEF Follow
    <3>3. k \in 1 .. Len(l) \/ \E j \in 1 .. n : k = Len(l) + j
      BY <1>5, <1>9, Zenon DEF Follow
    <3> QED  BY <3>1, <3>2, <3>3
  <2> QED  BY <1>12, <2>1, <2>2, SlicedPrefix
<1>14. \A k \in 1 .. Len(cut) : IsMessage(cut[k].message)
  BY <1>4, <1>5, <1>6
<1> QED  BY <1>1, <1>5, <1>13, <1>14 DEF QueueInv, u

\* A task takes the frame at the head.
LEMMA QueueGives ==
  ASSUME NEW l, NEW o, QueueInv(l, o), o # <<>>, NEW m, m = Append(l, Head(o).message),
         NEW p, p = Tail(o)
  PROVE  QueueInv(m, p)
<1> DEFINE s == l \o Messages(o)
           u == m \o Messages(p)
<1>1. IsSequence(l) /\ IsSequence(o)
  BY DEF QueueInv
<1>2. Len(l) \in Nat /\ Len(o) \in Nat
  BY <1>1, SequenceFacts
<1>3. /\ IsSequence(p) /\ Len(p) = Len(o) - 1 /\ Len(o) # 0 /\ Head(o) = o[1]
      /\ \A k \in 1 .. Len(p) : p[k] = o[k + 1]
  <2>1. PICK S : o \in Seq(S)
    BY <1>1 DEF IsSequence
  <2>2. /\ p \in Seq(S) /\ Len(p) = Len(o) - 1 /\ Len(o) # 0 /\ Head(o) = o[1]
        /\ \A k \in 1 .. Len(p) : p[k] = o[k + 1]
    BY <2>1, HeadTailProperties
  <2> QED  BY <2>2 DEF IsSequence
<1>4. /\ IsSequence(m) /\ Len(m) = Len(l) + 1 /\ m[Len(l) + 1] = o[1].message
      /\ \A k \in 1 .. Len(l) : m[k] = l[k]
  <2>1. PICK S : l \in Seq(S)
    BY <1>1 DEF IsSequence
  <2> DEFINE e == o[1].message
             T == S \cup {e}
  <2>2. l \in Seq(T) /\ e \in T
    BY <2>1, SeqMonotonic
  <2>3. m = Append(l, e)
    BY <1>3
  <2> HIDE DEF e, T
  <2>4. m \in Seq(T) /\ Len(m) = Len(l) + 1 /\ m[Len(l) + 1] = e /\ \A k \in 1 .. Len(l) : m[k] = l[k]
    BY <2>2, <2>3
  <2> QED  BY <2>4 DEF IsSequence, e
<1>5. Follow(s, l, o) /\ Sliced(s)
  BY <1>1, AcceptedAt DEF QueueInv
<1>6. Follow(u, m, p)
  BY <1>3, <1>4, AcceptedAt
<1> HIDE DEF s, u
<1>7. Len(s) = Len(l) + Len(o) /\ Len(u) = Len(s)
  <2>1. Len(s) = Len(l) + Len(o) /\ Len(u) = Len(m) + Len(p)
    BY <1>5, <1>6, Zenon DEF Follow
  <2> QED  BY <1>2, <1>3, <1>4, <2>1
<1>8. ASSUME NEW k \in 1 .. Len(u) PROVE u[k] = s[k]
  <2>1. CASE k \in 1 .. Len(l)
    <3>1. k \in 1 .. Len(m)
      BY <1>2, <1>4, <2>1
    <3> QED  BY <1>4, <1>5, <1>6, <2>1, <3>1 DEF Follow
  <2>2. CASE k = Len(l) + 1
    <3>1. k \in 1 .. Len(m) /\ 1 \in 1 .. Len(o)
      BY <1>2, <1>3, <1>4, <2>2
    <3>2. s[k] = o[1].message
      BY <1>5, <2>2, <3>1 DEF Follow
    <3> QED  BY <1>4, <1>6, <2>2, <3>1, <3>2 DEF Follow
  <2>3. CASE k \notin 1 .. Len(l) + 1
    <3> DEFINE j == k - (Len(l) + 1)
    <3>1. /\ j \in 1 .. Len(p) /\ j + 1 \in 1 .. Len(o)
          /\ k = Len(m) + j /\ k = Len(l) + (j + 1)
      BY <1>2, <1>3, <1>4, <1>7, <2>3
    <3> HIDE DEF j
    <3>2. u[k] = p[j].message
      BY <1>6, <3>1 DEF Follow
    <3>3. s[k] = o[j + 1].message
      BY <1>5, <3>1 DEF Follow
    <3> QED  BY <1>3, <3>1, <3>2, <3>3
  <2> QED  BY <1>2, <2>1, <2>2, <2>3
<1>9. Sliced(u)
  <2>1. Len(s) \in Nat /\ Len(u) \in Nat /\ Len(u) <= Len(s)
    BY <1>2, <1>7
  <2> QED  BY <1>5, <1>7, <1>8, <2>1, SlicedPrefix
<1>10. Len(p) <= QUEUE
  <2>1. Len(o) <= QUEUE /\ QUEUE \in Nat
    BY QueueAssumption DEF QueueInv, QueueAssumption
  <2> QED  BY <1>2, <1>3, <2>1
<1>11. \A k \in 1 .. Len(p) : IsMessage(p[k].message)
  <2> TAKE k \in 1 .. Len(p)
  <2>1. k + 1 \in 1 .. Len(o)
    BY <1>2, <1>3
  <2> QED  BY <1>3, <2>1 DEF QueueInv
<1> QED  BY <1>3, <1>4, <1>9, <1>10, <1>11 DEF QueueInv, u

\* Every task and queue of the terminal holds messages only, within its capacity.
HandsHoldMessages == \A t \in Transport : hand[t] # Nothing => IsMessage(hand[t])
EtherHoldsMessages == \A x \in ether : x[1] \in Radio /\ IsMessage(x[2])
OutInv ==
  /\ out = [t \in Transport |-> out[t]] /\ left = [t \in Transport |-> left[t]]
  /\ \A t \in Transport : QueueInv(left[t], out[t])
InboundInv ==
  /\ IsSequence(inbound) /\ Len(inbound) <= QUEUE
  /\ \A k \in 1 .. Len(inbound) : IsMessage(inbound[k].frame)
HeldInv ==
  /\ HandsHoldMessages /\ EtherHoldsMessages
  /\ typed \in Seq(Seq(Nat)) /\ ui \in 0 .. QUEUE
FlowInv == EngineOfMessages(relay) /\ OutInv /\ InboundInv /\ HeldInv

LEMMA EnqueueKeeps ==
  ASSUME OutInv, NEW fs, Orderly(fs), Enqueues(fs), left' = left
  PROVE  OutInv'
<1>1. out' = [t \in Transport |-> Queued(t, fs)]
  BY DEF Enqueues
<1>2. ASSUME NEW t \in Transport PROVE QueueInv(left[t], Queued(t, fs))
  <2> DEFINE mine == For(t, fs)
             all == out[t] \o mine
             n == IF Len(all) > QUEUE THEN QUEUE ELSE Len(all)
  <2>1. QueueInv(left[t], out[t]) /\ Orderly(mine)
    BY ForIsOrderly DEF OutInv
  <2>2. Queued(t, fs) = SubSeq(all, 1, n)
    BY DEF Queued
  <2> HIDE DEF mine
  <2>3. Len(all) \in Nat
    <3>1. IsSequence(out[t]) /\ IsSequence(mine)
      BY <2>1 DEF QueueInv, Orderly
    <3>2. IsSequence(all)
      BY <3>1, SequencesJoin
    <3> QED  BY <3>2, SequenceFacts
  <2> HIDE DEF all
  <2>4. n \in Nat /\ n <= QUEUE /\ n <= Len(all)
    BY <2>3, QueueAssumption DEF QueueAssumption
  <2> HIDE DEF n
  <2>5. QueueInv(left[t], SubSeq(all, 1, n))
    BY <2>1, <2>4, QueueTakes DEF all
  <2> QED  BY <2>2, <2>5
<1>3. out' = [t \in Transport |-> out'[t]] /\ \A t \in Transport : out'[t] = Queued(t, fs)
  BY <1>1
<1>4. \A t \in Transport : QueueInv(left'[t], out'[t])
  BY <1>2, <1>3
<1>5. left' = [t \in Transport |-> left'[t]]
  BY DEF OutInv
<1> QED  BY <1>3, <1>4, <1>5, Zenon DEF OutInv

LEMMA DequeueKeeps ==
  ASSUME OutInv, NEW t \in Transport, out[t] # <<>>,
         out' = [out EXCEPT ![t] = Tail(@)],
         left' = [left EXCEPT ![t] = Append(@, Head(out[t]).message)]
  PROVE  OutInv'
<1>1. DOMAIN out = Transport /\ DOMAIN left = Transport
  BY Zenon DEF OutInv
<1>2. /\ out' = [u \in Transport |-> out'[u]] /\ left' = [u \in Transport |-> left'[u]]
      /\ out'[t] = Tail(out[t]) /\ left'[t] = Append(left[t], Head(out[t]).message)
      /\ \A u \in Transport \ {t} : out'[u] = out[u] /\ left'[u] = left[u]
  BY <1>1
<1>3. QueueInv(left'[t], out'[t])
  BY <1>2, QueueGives DEF OutInv
<1>4. \A u \in Transport : QueueInv(left'[u], out'[u])
  BY <1>2, <1>3 DEF OutInv
<1> QED  BY <1>2, <1>4, Zenon DEF OutInv

\* What INBOUND_RAW gives is a message, and what is left in it.
LEMMA InboundGives ==
  ASSUME InboundInv, inbound # <<>>, inbound' = Tail(inbound)
  PROVE  InboundInv' /\ IsMessage(Head(inbound).frame)
<1>1. PICK S : inbound \in Seq(S)
  BY DEF InboundInv, IsSequence
<1>2. /\ inbound' \in Seq(S) /\ Len(inbound') = Len(inbound) - 1 /\ Len(inbound) \in Nat \ {0}
      /\ Head(inbound) = inbound[1] /\ \A k \in 1 .. Len(inbound') : inbound'[k] = inbound[k + 1]
  BY <1>1, HeadTailProperties
<1>3. Len(inbound') <= QUEUE
  <2>1. Len(inbound) <= QUEUE /\ QUEUE \in Nat
    BY QueueAssumption DEF InboundInv, QueueAssumption
  <2> QED  BY <1>2, <2>1
<1>4. \A k \in 1 .. Len(inbound') : IsMessage(inbound'[k].frame)
  <2> TAKE k \in 1 .. Len(inbound')
  <2>1. k + 1 \in 1 .. Len(inbound)
    BY <1>2
  <2> QED  BY <1>2, <2>1 DEF InboundInv
<1>5. IsMessage(Head(inbound).frame)
  <2>1. 1 \in 1 .. Len(inbound)
    BY <1>2
  <2> QED  BY <1>2, <2>1 DEF InboundInv
<1> QED  BY <1>2, <1>3, <1>4, <1>5 DEF InboundInv, IsSequence

LEMMA InboundTakes ==
  ASSUME InboundInv, NEW x, IsMessage(x.frame), Len(inbound) < QUEUE, inbound' = Append(inbound, x)
  PROVE  InboundInv'
<1>1. PICK S : inbound \in Seq(S)
  BY DEF InboundInv, IsSequence
<1> DEFINE T == S \cup {x}
<1>2. inbound \in Seq(T) /\ x \in T
  BY <1>1, SeqMonotonic
<1> HIDE DEF T
<1>3. /\ inbound' \in Seq(T) /\ Len(inbound') = Len(inbound) + 1 /\ Len(inbound) \in Nat
      /\ inbound'[Len(inbound) + 1] = x /\ \A k \in 1 .. Len(inbound) : inbound'[k] = inbound[k]
  BY <1>2
<1>4. Len(inbound') <= QUEUE
  BY <1>3, QueueAssumption DEF QueueAssumption
<1>5. \A k \in 1 .. Len(inbound') : IsMessage(inbound'[k].frame)
  <2> TAKE k \in 1 .. Len(inbound')
  <2>1. k \in 1 .. Len(inbound) \/ k = Len(inbound) + 1
    BY <1>3
  <2> QED  BY <1>3, <2>1 DEF InboundInv
<1> QED  BY <1>3, <1>4, <1>5 DEF InboundInv, IsSequence

\* INBOUND_RAW.send puts a message into the queue or leaves the task with it.
LEMMA DeliversKeeps ==
  ASSUME HandsInv, InboundInv, HandsHoldMessages, NEW t \in Transport, NEW frame, IsMessage(frame),
         Delivers(t, frame)
  PROVE  InboundInv' /\ HandsHoldMessages'
<1>1. CASE Len(inbound) < QUEUE
  <2> DEFINE x == [source |-> t, frame |-> frame]
  <2>1. inbound' = Append(inbound, x) /\ hand' = hand
    BY <1>1 DEF Delivers
  <2>2. x.frame = frame
    OBVIOUS
  <2> HIDE DEF x
  <2>3. InboundInv'
    BY <1>1, <2>1, <2>2, InboundTakes
  <2> QED  BY <2>1, <2>3 DEF HandsHoldMessages
<1>2. CASE ~(Len(inbound) < QUEUE)
  <2>1. inbound' = inbound /\ hand' = [hand EXCEPT ![t] = frame]
    BY <1>2 DEF Delivers
  <2>2. \A u \in Transport : hand'[u] = frame \/ hand'[u] = hand[u]
    BY <2>1 DEF HandsInv
  <2> QED  BY <2>1, <2>2 DEF InboundInv, HandsHoldMessages
<1> QED  BY <1>1, <1>2

\* The text of a PUBLISH is a text.
LEMMA TextRead ==
  ASSUME NEW bytes \in Seq(Nat), NEW cap, ReadPublish(bytes, cap).tag = "Publish"
  PROVE  ReadPublish(bytes, cap).text \in Seq(Nat)
<1> DEFINE lb == LengthBytes(bytes)
           body == SubSeq(bytes, 1 + Len(lb) + 1, Len(bytes))
           p == ReadPacket(bytes, cap)
<1>1. lb \in Seq(Nat) /\ Len(bytes) \in Nat
  BY LengthBytesAreBytes
<1>2. p.tag = "Packet"
  <2>1. CASE p.tag # "Packet"
    <3>1. ReadPublish(bytes, cap) = p
      BY <2>1, Zenon DEF ReadPublish
    <3>2. p \in {Error, Pending}
      BY <2>1, Zenon DEF ReadPacket
    <3> HIDE DEF p
    <3>3. p.tag # "Publish"
      BY <3>2 DEF Error, Pending
    <3> QED  BY <3>1, <3>3
  <2> QED  BY <2>1
<1>3. p = [tag |-> "Packet", first |-> bytes[1], body |-> body]
  <2> HIDE DEF lb
  <2>1. Error.tag # "Packet" /\ Pending.tag # "Packet"
    BY DEF Error, Pending
  <2> QED  BY <1>2, <2>1, Zenon DEF ReadPacket, lb
<1> HIDE DEF lb
<1>4. body \in Seq(Nat)
  <2>1. Len(lb) \in Nat
    BY <1>1
  <2>2. \A k \in 1 + Len(lb) + 1 .. Len(bytes) : bytes[k] \in Nat
    BY <1>1, <2>1, ElementOfSeq
  <2> QED  BY <1>1, <2>1, <2>2, SubSeqProperties
<1>5. p.body = body
  BY <1>3
<1> HIDE DEF body, p
<1>6. /\ ReadPublish(bytes, cap) = [tag |-> "Publish", topic |-> TopicOf(body), text |-> TextOf(body)]
      /\ ~(Len(body) < 2)
  <2>1. Error.tag # "Publish" /\ [tag |-> "Ignored"].tag # "Publish"
    BY DEF Error
  <2> QED  BY <1>2, <1>5, <2>1, Zenon DEF ReadPublish, p
<1>7. TextOf(body) \in Seq(Nat)
  <2>1. Len(body) \in Nat /\ body[1] \in Nat /\ body[2] \in Nat
    <3>1. Len(body) \in Nat
      BY <1>4
    <3>2. 1 \in 1 .. Len(body) /\ 2 \in 1 .. Len(body)
      BY <1>6, <3>1
    <3> QED  BY <1>4, <3>1, <3>2, ElementOfSeq
  <2> DEFINE from == 3 + body[1] * 256 + body[2]
  <2>2. from \in Nat /\ from >= 3
    BY <2>1
  <2>3. TextOf(body) = SubSeq(body, from, Len(body))
    BY DEF TextOf
  <2> HIDE DEF from
  <2>4. \A k \in from .. Len(body) : body[k] \in Nat
    BY <1>4, <2>1, <2>2, ElementOfSeq
  <2> QED  BY <2>1, <2>2, <2>3, <2>4, SubSeqProperties
<1> QED  BY <1>6, <1>7

-----------------------------------------------------------------------------
(* Every step keeps the queues in order and within their capacity.          *)

\* The steps of the session and the broker that leave the bridge alone.
LEMMA BridgeUnchanged ==
  ASSUME FlowInv, UNCHANGED bridgeVars
  PROVE  FlowInv'
<1>1. /\ relay' = relay /\ out' = out /\ left' = left /\ inbound' = inbound /\ hand' = hand
      /\ ether' = ether /\ typed' = typed /\ ui' = ui
  BY DEF bridgeVars
<1>2. OutInv'
  BY <1>1 DEF FlowInv, OutInv
<1>3. InboundInv'
  BY <1>1 DEF FlowInv, InboundInv
<1>4. HeldInv'
  BY <1>1 DEF FlowInv, HeldInv, HandsHoldMessages, EtherHoldsMessages
<1> QED  BY <1>1, <1>2, <1>3, <1>4 DEF FlowInv

\* A line the user interface has no room for is dropped.
LEMMA ShowsFits ==
  ASSUME ui \in 0 .. QUEUE, NEW line, Shows(line)
  PROVE  ui' \in 0 .. QUEUE
  BY QueueAssumption DEF Shows, QueueAssumption

\* What a task does not touch stays held.
LEMMA HeldKeeps ==
  ASSUME HeldInv, HandsHoldMessages', EtherHoldsMessages', typed' \in Seq(Seq(Nat)), ui' \in 0 .. QUEUE
  PROVE  HeldInv'
  BY DEF HeldInv

\* bridge_loop.
LEMMA TurnFlows ==
  ASSUME FlowInv, BridgeTurn
  PROVE  FlowInv'
<1> DEFINE turn == Bridged(relay, Head(inbound).source, Head(inbound).frame)
<1>1. /\ inbound # <<>> /\ inbound' = Tail(inbound)
      /\ relay' = turn.relay /\ Enqueues(turn.frames) /\ Shows(turn.out.tag = "Complete")
      /\ hand' = hand /\ ether' = ether /\ typed' = typed /\ left' = left
  BY DEF BridgeTurn, TakesInbound, CanTurn
<1>2. EngineOfMessages(relay) /\ OutInv /\ InboundInv /\ HeldInv
  BY DEF FlowInv
<1>3. InboundInv' /\ IsMessage(Head(inbound).frame)
  BY <1>1, <1>2, InboundGives
<1>4. EngineOfMessages(turn.relay) /\ Orderly(turn.frames)
  BY <1>2, <1>3, BridgedIsOrderly
<1> HIDE DEF turn
<1>5. OutInv'
  BY <1>1, <1>2, <1>4, EnqueueKeeps
<1>6. ui' \in 0 .. QUEUE
  BY <1>1, <1>2, ShowsFits DEF HeldInv
<1>7. HeldInv'
  BY <1>1, <1>2, <1>6 DEF HeldInv, HandsHoldMessages, EtherHoldsMessages
<1> QED  BY <1>1, <1>3, <1>4, <1>5, <1>7 DEF FlowInv

\* send_local_text.
LEMMA LocalFlows ==
  ASSUME FlowInv, SendsLocal
  PROVE  FlowInv'
<1> DEFINE plan == PlanSend(relay, "Text", Head(typed), BROADCAST_ADDR)
<1>1. /\ typed # <<>> /\ typed' = Tail(typed)
      /\ relay' = plan.relay /\ Enqueues(plan.frames) /\ Shows(plan.frames # <<>>)
      /\ inbound' = inbound /\ hand' = hand /\ ether' = ether /\ left' = left
  BY DEF SendsLocal
<1>2. EngineOfMessages(relay) /\ OutInv /\ InboundInv /\ HeldInv
  BY DEF FlowInv
<1>3. Head(typed) \in Seq(Nat) /\ Tail(typed) \in Seq(Seq(Nat))
  <2>1. typed \in Seq(Seq(Nat))
    BY <1>2 DEF HeldInv
  <2> QED  BY <1>1, <2>1
<1>4. Orderly(plan.frames) /\ SameBuffers(relay, plan.relay)
  <2>1. IsEngine(relay)
    BY <1>2 DEF EngineOfMessages
  <2> QED  BY <1>3, <2>1, PlanSendIsOrderly
<1> HIDE DEF plan
<1>5. EngineOfMessages(relay')
  BY <1>1, <1>2, <1>4 DEF EngineOfMessages, SameBuffers
<1>6. OutInv'
  BY <1>1, <1>2, <1>4, EnqueueKeeps
<1>7. ui' \in 0 .. QUEUE
  BY <1>1, <1>2, ShowsFits DEF HeldInv
<1>8. HeldInv'
  BY <1>1, <1>2, <1>3, <1>7 DEF HeldInv, HandsHoldMessages, EtherHoldsMessages
<1>9. InboundInv'
  BY <1>1, <1>2 DEF InboundInv
<1> QED  BY <1>5, <1>6, <1>8, <1>9 DEF FlowInv

\* The display takes a line.
LEMMA UiFlows ==
  ASSUME FlowInv, UiShows
  PROVE  FlowInv'
<1>1. /\ ui > 0 /\ ui' = ui - 1 /\ relay' = relay /\ out' = out /\ left' = left
      /\ inbound' = inbound /\ hand' = hand /\ ether' = ether /\ typed' = typed
  BY DEF UiShows
<1>2. ui' \in 0 .. QUEUE
  <2>1. ui \in 0 .. QUEUE
    BY DEF FlowInv, HeldInv
  <2> QED  BY <1>1, <2>1, QueueAssumption DEF QueueAssumption
<1>3. HeldInv'
  BY <1>1, <1>2 DEF FlowInv, HeldInv, HandsHoldMessages, EtherHoldsMessages
<1>4. OutInv' /\ InboundInv'
  BY <1>1 DEF FlowInv, OutInv, InboundInv
<1> QED  BY <1>1, <1>3, <1>4 DEF FlowInv

\* A radio task with a frame from the air.
LEMMA HearsFlows ==
  ASSUME HandsInv, FlowInv, NEW t \in Transport, Hears(t)
  PROVE  FlowInv'
<1>1. PICK x \in ether : ether' = ether \ {x} /\ Delivers(t, x[2])
  BY DEF Hears
<1>2. relay' = relay /\ out' = out /\ ui' = ui /\ typed' = typed /\ left' = left
  BY DEF Hears
<1>3. HandsHoldMessages /\ EtherHoldsMessages /\ InboundInv
  BY DEF FlowInv, HeldInv
<1>4. IsMessage(x[2])
  BY <1>3 DEF EtherHoldsMessages
<1>5. InboundInv' /\ HandsHoldMessages'
  BY <1>1, <1>3, <1>4, DeliversKeeps
<1>6. EtherHoldsMessages'
  BY <1>1, <1>3 DEF EtherHoldsMessages
<1>7. HeldInv'
  BY <1>2, <1>5, <1>6 DEF FlowInv, HeldInv
<1>8. OutInv'
  BY <1>2 DEF FlowInv, OutInv
<1> QED  BY <1>2, <1>5, <1>7, <1>8 DEF FlowInv

\* A task that was stuck with a frame.
LEMMA PushesFlows ==
  ASSUME HandsInv, FlowInv, NEW t \in Transport, Pushes(t)
  PROVE  FlowInv'
<1> DEFINE x == [source |-> t, frame |-> hand[t]]
<1>1. /\ hand[t] # Nothing /\ Len(inbound) < QUEUE /\ inbound' = Append(inbound, x)
      /\ hand' = [hand EXCEPT ![t] = Nothing] /\ relay' = relay /\ out' = out /\ ui' = ui
      /\ ether' = ether /\ typed' = typed /\ left' = left
  BY DEF Pushes
<1>2. HandsHoldMessages /\ EtherHoldsMessages /\ InboundInv
  BY DEF FlowInv, HeldInv
<1>3. x.frame = hand[t] /\ IsMessage(hand[t])
  BY <1>1, <1>2 DEF HandsHoldMessages
<1> HIDE DEF x
<1>4. InboundInv'
  BY <1>1, <1>2, <1>3, InboundTakes
<1>5. HandsHoldMessages'
  <2>1. \A u \in Transport : hand'[u] = Nothing \/ hand'[u] = hand[u]
    BY <1>1 DEF HandsInv
  <2> QED  BY <1>2, <2>1 DEF HandsHoldMessages
<1>6. HeldInv'
  BY <1>1, <1>5 DEF FlowInv, HeldInv, EtherHoldsMessages
<1>7. OutInv'
  BY <1>1 DEF FlowInv, OutInv
<1> QED  BY <1>1, <1>4, <1>6, <1>7 DEF FlowInv

\* What leaves a queue is a message.
LEMMA HeadIsMessage ==
  ASSUME NEW l, NEW o, QueueInv(l, o), o # <<>>
  PROVE  IsMessage(Head(o).message)
<1>1. PICK S : o \in Seq(S)
  BY DEF QueueInv, IsSequence
<1>2. Head(o) = o[1] /\ 1 \in 1 .. Len(o)
  BY <1>1, HeadTailProperties
<1> QED  BY <1>2 DEF QueueInv

\* A radio task with a frame from its queue, and a neighbour that heard it.
LEMMA TransmitsFlows ==
  ASSUME FlowInv, NEW t \in Transport, Transmits(t)
  PROVE  FlowInv'
<1> DEFINE msg == Head(out[t]).message
<1>1. /\ out[t] # <<>> /\ out' = [out EXCEPT ![t] = Tail(@)]
      /\ left' = [left EXCEPT ![t] = Append(@, msg)] /\ Echoed(t, msg)
      /\ relay' = relay /\ inbound' = inbound /\ ui' = ui /\ hand' = hand /\ typed' = typed
  BY DEF Transmits
<1>2. OutInv /\ InboundInv /\ HandsHoldMessages /\ EtherHoldsMessages
  BY DEF FlowInv, HeldInv
<1>3. OutInv'
  BY <1>1, <1>2, DequeueKeeps
<1>4. IsMessage(msg)
  <2>1. QueueInv(left[t], out[t])
    BY <1>2 DEF OutInv
  <2> QED  BY <1>1, <2>1, HeadIsMessage
<1> HIDE DEF msg
<1>5. IsMessage(PreparedForRelay(msg))
  <2>1. <<>> \in Seq(Nat)
    OBVIOUS
  <2> QED  BY <1>4, <2>1, MessageUpdates
<1>6. ASSUME NEW x \in Echo(t, msg) PROVE x[1] \in Radio /\ IsMessage(x[2])
  <2>1. PICK r \in Radio : x = <<r, PreparedForRelay(msg)>>
    BY <1>6 DEF Echo
  <2> HIDE DEF Radio
  <2> QED  BY <1>5, <2>1
<1>7. EtherHoldsMessages'
  <2>1. ether' = ether \/ ether' = ether \cup Echo(t, msg)
    BY <1>1 DEF Echoed
  <2> QED  BY <1>2, <1>6, <2>1, Zenon DEF EtherHoldsMessages
<1>8. HeldInv'
  BY <1>1, <1>2, <1>7 DEF FlowInv, HeldInv, HandsHoldMessages
<1>9. InboundInv'
  BY <1>1, <1>2 DEF InboundInv
<1> QED  BY <1>1, <1>3, <1>8, <1>9 DEF FlowInv

\* The bridge and the tasks around it.
LEMMA BridgeFlows ==
  ASSUME HandsInv, FlowInv, BridgeStep
  PROVE  FlowInv'
<1>1. "Lora" \in Transport /\ "EspNow" \in Transport /\ "Mqtt" \in Transport
  BY DEF Transport, ALL
<1>2. CASE BridgeTurn
  BY <1>2, TurnFlows
<1>3. CASE UiLoop
  BY <1>3, LocalFlows, UiFlows DEF UiLoop
<1>4. CASE LoraLoop \/ EspNowLoop
  BY <1>1, <1>4, HearsFlows, PushesFlows, TransmitsFlows DEF LoraLoop, EspNowLoop
<1>5. CASE Pushes("Mqtt")
  BY <1>1, <1>5, PushesFlows
<1> QED  BY <1>2, <1>3, <1>4, <1>5 DEF BridgeStep

\* A text from the broker becomes a message, or is dropped.
LEMMA UplinkFlows ==
  ASSUME HandsInv, FlowInv, NEW text \in Seq(Nat), Uplink(text),
         UNCHANGED <<out, ui, ether, typed, echoes, left>>
  PROVE  FlowInv'
<1> DEFINE msg == Prepare(NextId(relay), DEFAULT_TTL, "Mqtt", CARD_ADDR, BROADCAST_ADDR, "Text", text)
<1>1. /\ relay' = TakeIds(relay, 1)
      /\ IF FitsMessage(text) THEN Delivers("Mqtt", msg) ELSE UNCHANGED <<inbound, hand>>
  BY DEF Uplink
<1>2. EngineOfMessages(relay) /\ InboundInv /\ HandsHoldMessages
  BY DEF FlowInv, HeldInv
<1>3. IsMessage(msg)
  BY PreparedIsMessage
<1> HIDE DEF msg
<1>4. EngineOfMessages(relay')
  <2>1. IsEngine(relay)
    BY <1>2 DEF EngineOfMessages
  <2>2. SameBuffers(relay, TakeIds(relay, 1))
    BY <2>1, EngineUpdates DEF TakeIds
  <2> QED  BY <1>1, <1>2, <2>2 DEF EngineOfMessages, SameBuffers
<1>5. InboundInv' /\ HandsHoldMessages'
  <2>1. CASE FitsMessage(text)
    BY <1>1, <1>2, <1>3, <2>1, DeliversKeeps, MqttIsTransport
  <2>2. CASE ~FitsMessage(text)
    BY <1>1, <1>2, <2>2 DEF InboundInv, HandsHoldMessages
  <2> QED  BY <2>1, <2>2
<1>6. HeldInv'
  BY <1>5 DEF FlowInv, HeldInv, EtherHoldsMessages
<1>7. OutInv'
  BY DEF FlowInv, OutInv
<1> QED  BY <1>4, <1>5, <1>6, <1>7 DEF FlowInv

\* read_publish.
LEMMA ReadFlows ==
  ASSUME HandsInv, HandshakeInv, FlowInv, ReadsPublish
  PROVE  FlowInv'
<1> DEFINE p == ReadPublish(Got, PKT_BUF)
<1>1. \/ UNCHANGED bridgeVars
      \/ p.tag = "Publish" /\ wire # <<>> /\ Uplink(p.text) /\ UNCHANGED <<out, ui, ether, typed, echoes, left>>
  BY DEF ReadsPublish, Waits, Fails
<1>2. CASE UNCHANGED bridgeVars
  BY <1>2, BridgeUnchanged
<1>3. CASE p.tag = "Publish" /\ wire # <<>> /\ Uplink(p.text) /\ UNCHANGED <<out, ui, ether, typed, echoes, left>>
  <2>1. Got \in Seq(Nat)
    BY <1>3, ByteMoves DEF HandshakeInv
  <2>2. p.text \in Seq(Nat)
    BY <1>3, <2>1, TextRead
  <2> HIDE DEF p
  <2> QED  BY <1>3, <2>2, UplinkFlows
<1> QED  BY <1>1, <1>2, <1>3

\* The MQTT task with a frame from its queue.
LEMMA TakesFlows ==
  ASSUME FlowInv, TakesFromQueue
  PROVE  FlowInv'
<1>1. OutInv'
  BY DequeueKeeps, MqttIsTransport DEF TakesFromQueue, FlowInv
<1>2. HeldInv' /\ InboundInv'
  BY DEF TakesFromQueue, FlowInv, HeldInv, HandsHoldMessages, EtherHoldsMessages, InboundInv
<1>3. EngineOfMessages(relay')
  BY DEF TakesFromQueue, FlowInv
<1> QED  BY <1>1, <1>2, <1>3 DEF FlowInv

LEMMA FlowNext ==
  ASSUME IInv, HandshakeInv, FlowInv, [Next]_vars
  PROVE  FlowInv'
<1>1. HandsInv
  BY DEF IInv
<1>2. CASE BridgeStep
  BY <1>1, <1>2, BridgeFlows
<1>3. CASE UNCHANGED bridgeVars
  BY <1>3, BridgeUnchanged
<1>4. CASE ReadsPublish
  BY <1>1, <1>4, ReadFlows
<1>5. CASE Publishes
  BY <1>5, TakesFlows DEF Publishes
<1>6. TcpConnects \/ SocketFails \/ Pings \/ BrokerAnswers \/ BrokerPublishes => UNCHANGED bridgeVars
  BY DEF TcpConnects, SocketFails, Pings, BrokerAnswers, BrokerPublishes
<1>7. ReadsConnack \/ ReadsSuback => UNCHANGED bridgeVars
  BY DEF ReadsConnack, ReadsSuback, Waits, Fails
<1>8. UNCHANGED vars => UNCHANGED bridgeVars
  BY DEF vars
<1> QED  BY <1>2, <1>3, <1>4, <1>5, <1>6, <1>7, <1>8 DEF Next, LinkStep, Reads

\* At boot the queues and the slots are empty.
LEMMA FlowInit ==
  ASSUME Init
  PROVE  FlowInv
<1>1. PICK s \in Scenario : BridgeInit(s.heard, s.typed, s.echoes)
  BY DEF Init
<1>2. /\ s.typed \in Seq(Seq(Nat))
      /\ \A x \in s.heard : x[1] \in Radio /\ IsMessage(x[2])
  BY ScenarioAssumption DEF ScenarioAssumption
<1>3. /\ relay = Boot /\ inbound = <<>> /\ out = [t \in Transport |-> <<>>] /\ ui = 0
      /\ hand = [t \in Transport |-> Nothing] /\ ether = s.heard /\ typed = s.typed
      /\ left = [t \in Transport |-> <<>>]
  BY <1>1 DEF BridgeInit
<1>4. <<>> \in Seq({}) /\ Len(<<>>) = 0 /\ QUEUE \in Nat
  BY QueueAssumption DEF QueueAssumption
<1>5. EngineOfMessages(relay)
  <2> DEFINE r == NewRelay(CARD_ADDR, CARD_ID_BASE)
  <2>1. IsEngine(r) /\ r.slots = EmptySlots
    BY DEF NewRelay, IsEngine
  <2>2. SameBuffers(r, Boot)
    <3>1. SameBuffers(r, [r EXCEPT !.registered = Transport])
      <4> HIDE DEF r
      <4> QED  BY <2>1, EngineUpdates
    <3> QED  BY <3>1 DEF Boot
  <2>3. IsEngine(relay) /\ relay.slots = EmptySlots
    <3> HIDE DEF r
    <3> QED  BY <1>3, <2>1, <2>2 DEF SameBuffers
  <2>4. SlotsOfMessages(EmptySlots)
    BY EmptySlotOfMessages DEF SlotsOfMessages, EmptySlots
  <2> QED  BY <2>3, <2>4 DEF EngineOfMessages
<1>6. OutInv
  <2>1. QueueInv(<<>>, <<>>)
    <3>1. IsSequence(<<>>)
      BY <1>4 DEF IsSequence
    <3>2. IsSequence(<<>> \o Messages(<<>>)) /\ Follow(<<>> \o Messages(<<>>), <<>>, <<>>)
      BY <3>1, AcceptedAt
    <3> DEFINE e == <<>> \o Messages(<<>>)
    <3>3. Len(e) = 0
      <4> HIDE DEF e
      <4> SUFFICES Len(<<>>) + Len(<<>>) = 0 /\ Follow(e, <<>>, <<>>)
        BY DEF Follow
      <4> QED  BY <3>2 DEF e
    <3> HIDE DEF e
    <3>4. Sliced(e)
      BY <3>3 DEF Sliced
    <3> QED  BY <1>4, <3>1, <3>4 DEF QueueInv, e
  <2> QED  BY <1>3, <2>1 DEF OutInv
<1>7. InboundInv
  BY <1>3, <1>4 DEF InboundInv, IsSequence
<1>8. HeldInv
  BY <1>2, <1>3, <1>4 DEF HeldInv, HandsHoldMessages, EtherHoldsMessages
<1> QED  BY <1>5, <1>6, <1>7, <1>8 DEF FlowInv

LEMMA FlowInvariant == Spec => []FlowInv
<1>1. Init => FlowInv
  BY FlowInit
<1>2. IInv /\ HandshakeInv /\ FlowInv /\ [Next]_vars => FlowInv'
  BY FlowNext
<1> QED  BY <1>1, <1>2, SessionsInvariant, HandshakeInvariant, PTL DEF Spec

\* No queue ever grows past its capacity, although the fan-out puts whole plans into
\* three of them at once, two tasks wait to fill the fourth and any of them may stop
\* draining: in every reachable state.
THEOREM CapacitiesHold == Spec => []TerminalInv
<1>1. FlowInv /\ HandshakeInv => TerminalInv
  <2> SUFFICES ASSUME FlowInv, HandshakeInv PROVE TerminalInv
    OBVIOUS
  <2>1. Len(inbound) <= QUEUE
    BY DEF FlowInv, InboundInv
  <2>2. ui <= QUEUE
    BY QueueAssumption DEF FlowInv, HeldInv, QueueAssumption
  <2>3. \A t \in Transport : Len(out[t]) <= QUEUE
    BY DEF FlowInv, OutInv, QueueInv
  <2> QED  BY <2>1, <2>2, <2>3 DEF TerminalInv, HandshakeInv
<1> QED  BY <1>1, FlowInvariant, HandshakeInvariant, PTL

\* Whatever a full queue cuts off a plan, and whatever plans meet in one queue, a slice
\* never leaves without the slice before it, of the same split, right before it: in
\* every reachable state.
THEOREM SlicesStayInOrder == Spec => []SlicesLeaveInOrder
<1>1. FlowInv => SlicesLeaveInOrder
  <2> SUFFICES ASSUME FlowInv, NEW t \in Transport, NEW k \in DOMAIN Accepted(t),
                      Accepted(t)[k].frag # NoFrag, Accepted(t)[k].frag.seq # 0
               PROVE  k > 1 /\ Before(Accepted(t)[k - 1], Accepted(t)[k])
    BY DEF SlicesLeaveInOrder, Before
  <2> DEFINE s == left[t] \o Messages(out[t])
  <2>1. Accepted(t) = s
    BY DEF Accepted, Messages
  <2>2. QueueInv(left[t], out[t])
    BY DEF FlowInv, OutInv
  <2>3. IsSequence(s) /\ Sliced(s)
    BY <2>2, AcceptedAt DEF QueueInv
  <2> HIDE DEF s
  <2>4. k \in 1 .. Len(s)
    BY <2>1, <2>3, SequenceFacts
  <2> QED  BY <2>1, <2>3, <2>4 DEF Sliced, Starts
<1> QED  BY <1>1, FlowInvariant, PTL

-----------------------------------------------------------------------------
(* The texts of a connection, read byte by byte.                            *)

\* A byte before another field.
Longer(bs, byte, cs) ==
  /\ Len(bs) = 1 + Len(cs) /\ bs[1] = byte
  /\ 1 <= Len(cs) => bs[2] = cs[1]
  /\ 2 <= Len(cs) => bs[3] = cs[2]
  /\ 3 <= Len(cs) => bs[4] = cs[3]

\* A length below 128 is one byte; any other is its low seven bits and the rest.
LEMMA LengthStep ==
  ASSUME NEW len \in Nat, ~(len < 128)
  PROVE  Longer(RemainingLength[len], 128 + (len % 128), RemainingLength[len \div 128])
<1> DEFINE bs == RemainingLength[len \div 128]
<1>1. bs \in Seq(Nat)
  BY Shorter, LengthsAreBytes
<1>2. RemainingLength[len] = <<128 + (len % 128)>> \o bs
  BY LengthsDefined
<1>3. 128 + (len % 128) \in Nat
  OBVIOUS
<1> HIDE DEF bs
<1>4. Longer(RemainingLength[len], 128 + (len % 128), bs)
  BY <1>1, <1>2, <1>3 DEF Longer
<1> QED  BY <1>4 DEF bs

\* The bytes of a length field, up to the fourth, as read_packet takes them.
LengthForm(bs, len) ==
  /\ bs \in Seq(Nat) /\ Len(bs) >= 1
  /\ \A k \in 1 .. 4 : k < Len(bs) => More(bs[k])
  /\ Len(bs) <= 4 => ~More(bs[Len(bs)]) /\ LengthValue(bs) = len

LEMMA LengthsForm ==
  ASSUME NEW n \in Nat
  PROVE  LengthForm(RemainingLength[n], n)
<1> DEFINE lb(k) == RemainingLength[k]
           n1 == n \div 128
           n2 == n1 \div 128
           n3 == n2 \div 128
           n4 == n3 \div 128
           r0 == n % 128
           r1 == n1 % 128
           r2 == n2 % 128
           r3 == n3 % 128
<1>1. /\ n1 \in Nat /\ n = n1 * 128 + r0 /\ r0 \in 0 .. 127
      /\ n2 \in Nat /\ n1 = n2 * 128 + r1 /\ r1 \in 0 .. 127
      /\ n3 \in Nat /\ n2 = n3 * 128 + r2 /\ r2 \in 0 .. 127
      /\ n4 \in Nat
  <2>1. \A k \in Nat : k \div 128 \in Nat /\ k = (k \div 128) * 128 + (k % 128) /\ k % 128 \in 0 .. 127
    OBVIOUS
  <2> QED  BY <2>1
<1>2. \A k \in Nat : lb(k) \in Seq(Nat) /\ (k < 128 => lb(k) = <<k>>)
  BY LengthsAreBytes
<1>3. \A k \in Nat : Len(lb(k)) >= 1
  <2> SUFFICES ASSUME NEW k \in Nat PROVE Len(lb(k)) >= 1
    OBVIOUS
  <2>1. CASE k < 128
    BY <1>2, <2>1
  <2>2. CASE ~(k < 128)
    <3>1. k \div 128 \in Nat
      OBVIOUS
    <3>2. lb(k \div 128) \in Seq(Nat)
      BY <1>2, <3>1
    <3>3. Len(lb(k)) = 1 + Len(lb(k \div 128))
      BY <2>2, LengthStep DEF Longer
    <3> QED  BY <3>2, <3>3
  <2> QED  BY <2>1, <2>2
<1>4. \A k \in Nat : ~(k < 128) => Longer(lb(k), 128 + (k % 128), lb(k \div 128))
  BY LengthStep
<1> DEFINE v(k) == IF k <= Len(lb(n)) THEN lb(n)[k] % 128 ELSE 0
<1>5. LengthValue(lb(n)) = v(1) + 128 * (v(2) + 128 * (v(3) + 128 * v(4)))
  BY DEF LengthValue
<1>6. \A r \in 0 .. 127 : r % 128 = r /\ (128 + r) % 128 = r
  OBVIOUS
<1>7. /\ ~(n < 128) => Longer(lb(n), 128 + r0, lb(n1))
      /\ ~(n1 < 128) => Longer(lb(n1), 128 + r1, lb(n2))
      /\ ~(n2 < 128) => Longer(lb(n2), 128 + r2, lb(n3))
      /\ ~(n3 < 128) => Longer(lb(n3), 128 + r3, lb(n4))
  <2>1. n \in Nat /\ n1 \in Nat /\ n2 \in Nat /\ n3 \in Nat
    BY <1>1
  <2> HIDE DEF lb
  <2> QED  BY <1>4, <2>1
<1>12. /\ \A r \in {r0, r1, r2, r3} : More(128 + r)
       /\ \A k \in Nat : k < 128 => ~More(k)
       /\ lb(n) \in Seq(Nat)
  <2>1. r0 \in Nat /\ r1 \in Nat /\ r2 \in Nat /\ r3 \in Nat
    BY <1>1
  <2> HIDE DEF r0, r1, r2, r3, lb
  <2> QED  BY <1>2, <2>1 DEF More
<1> HIDE DEF lb, n1, n2, n3, n4, r0, r1, r2, r3
<1> DEFINE b == lb(n)
<1>8. CASE n < 128
  <2>1. b = <<n>>
    BY <1>2, <1>8
  <2>2. Len(b) = 1 /\ b[1] = n /\ n % 128 = n
    BY <1>8, <2>1
  <2>3. LengthValue(b) = n
    BY <1>5, <2>2
  <2> QED  BY <1>2, <1>8, <2>2, <2>3 DEF LengthForm, More, lb
<1>9. CASE ~(n < 128) /\ n1 < 128
  <2>1. lb(n1) = <<n1>>
    BY <1>1, <1>2, <1>9
  <2>2. Len(b) = 2 /\ b[1] = 128 + r0 /\ b[2] = n1
    <3>1. Len(lb(n1)) = 1 /\ lb(n1)[1] = n1
      BY <2>1
    <3>2. Len(b) = 1 + Len(lb(n1)) /\ b[1] = 128 + r0 /\ b[1 + 1] = lb(n1)[1]
      BY <1>1, <1>7, <1>9, <3>1 DEF Longer
    <3> QED  BY <3>1, <3>2
  <2>3. (128 + r0) % 128 = r0 /\ n1 % 128 = n1
    BY <1>1, <1>6, <1>9
  <2>4. LengthValue(b) = n
    BY <1>1, <1>5, <2>2, <2>3
  <2>5. Len(b) >= 1 /\ More(b[1]) /\ ~More(b[2])
    BY <1>1, <1>9, <1>12, <2>2
  <2> QED  BY <1>12, <2>2, <2>4, <2>5 DEF LengthForm, lb
<1>10. CASE ~(n < 128) /\ ~(n1 < 128) /\ n2 < 128
  <2>1. lb(n2) = <<n2>>
    BY <1>1, <1>2, <1>10
  <2>2. Len(b) = 3 /\ b[1] = 128 + r0 /\ b[2] = 128 + r1 /\ b[3] = n2
    <3>1. Len(lb(n2)) = 1 /\ lb(n2)[1] = n2
      BY <2>1
    <3>2. Len(lb(n1)) = 1 + Len(lb(n2)) /\ lb(n1)[1] = 128 + r1 /\ lb(n1)[1 + 1] = lb(n2)[1]
      BY <1>1, <1>7, <1>10, <3>1 DEF Longer
    <3>3. /\ Len(b) = 1 + Len(lb(n1)) /\ b[1] = 128 + r0
          /\ b[1 + 1] = lb(n1)[1] /\ b[1 + 2] = lb(n1)[2]
      BY <1>1, <1>7, <1>10, <3>1, <3>2 DEF Longer
    <3> QED  BY <3>1, <3>2, <3>3
  <2>3. (128 + r0) % 128 = r0 /\ (128 + r1) % 128 = r1 /\ n2 % 128 = n2
    BY <1>1, <1>6, <1>10
  <2>4. LengthValue(b) = n
    BY <1>1, <1>5, <2>2, <2>3
  <2>5. Len(b) >= 1 /\ More(b[1]) /\ More(b[2]) /\ ~More(b[3])
    BY <1>1, <1>10, <1>12, <2>2
  <2> QED  BY <1>12, <2>2, <2>4, <2>5 DEF LengthForm, lb
<1>11. CASE ~(n < 128) /\ ~(n1 < 128) /\ ~(n2 < 128)
  <2>1. /\ Len(lb(n3)) >= 1 /\ lb(n3) \in Seq(Nat)
    BY <1>1, <1>2, <1>3
  <2>2. Len(lb(n2)) = 1 + Len(lb(n3)) /\ lb(n2)[1] = 128 + r2 /\ lb(n2)[1 + 1] = lb(n3)[1]
    <3>1. 1 \in 1 .. Len(lb(n3))
      BY <2>1
    <3> QED  BY <1>1, <1>7, <1>11, <3>1 DEF Longer
  <2>3. /\ Len(lb(n1)) = 1 + Len(lb(n2)) /\ lb(n1)[1] = 128 + r1
        /\ lb(n1)[1 + 1] = lb(n2)[1] /\ lb(n1)[1 + 2] = lb(n2)[2]
    <3>1. 1 \in 1 .. Len(lb(n2)) /\ 2 \in 1 .. Len(lb(n2))
      BY <2>1, <2>2
    <3> QED  BY <1>1, <1>7, <1>11, <3>1 DEF Longer
  <2>4. /\ Len(b) = 1 + Len(lb(n1)) /\ b[1] = 128 + r0
        /\ b[1 + 1] = lb(n1)[1] /\ b[1 + 2] = lb(n1)[2] /\ b[1 + 3] = lb(n1)[3]
    <3>1. 1 \in 1 .. Len(lb(n1)) /\ 2 \in 1 .. Len(lb(n1)) /\ 3 \in 1 .. Len(lb(n1))
      BY <2>1, <2>2, <2>3
    <3> QED  BY <1>1, <1>7, <1>11, <3>1 DEF Longer
  <2>5. /\ Len(b) = 3 + Len(lb(n3)) /\ b[1] = 128 + r0 /\ b[2] = 128 + r1
        /\ b[3] = 128 + r2 /\ b[4] = lb(n3)[1]
    BY <2>1, <2>2, <2>3, <2>4
  <2>6. CASE n3 < 128
    <3>1. lb(n3) = <<n3>>
      BY <1>1, <1>2, <2>6
    <3>2. Len(b) = 4 /\ b[4] = n3
      BY <2>5, <3>1
    <3>3. /\ (128 + r0) % 128 = r0 /\ (128 + r1) % 128 = r1
          /\ (128 + r2) % 128 = r2 /\ n3 % 128 = n3
      BY <1>1, <1>6, <2>6
    <3>4. LengthValue(b) = n
      <4>1. LengthValue(b) = r0 + 128 * (r1 + 128 * (r2 + 128 * n3))
        <5>1. v(1) = r0 /\ v(2) = r1
          BY <2>5, <3>2, <3>3
        <5>2. v(3) = r2
          BY <2>5, <3>2, <3>3
        <5>3. v(4) = n3
          BY <3>2, <3>3
        <5> HIDE DEF v
        <5> QED  BY <1>5, <5>1, <5>2, <5>3
      <4> QED  BY <1>1, <4>1
    <3>5. Len(b) >= 1 /\ More(b[1]) /\ More(b[2]) /\ More(b[3]) /\ ~More(b[4])
      BY <1>1, <1>12, <2>5, <2>6, <3>2
    <3> QED  BY <1>12, <3>2, <3>4, <3>5 DEF LengthForm, lb
  <2>7. CASE ~(n3 < 128)
    <3>1. Len(lb(n4)) >= 1 /\ Len(lb(n4)) \in Nat
      BY <1>1, <1>2, <1>3
    <3>2. Len(lb(n3)) = 1 + Len(lb(n4)) /\ lb(n3)[1] = 128 + r3
      BY <1>1, <1>7, <2>7 DEF Longer
    <3>3. Len(b) > 4
      BY <2>5, <3>1, <3>2
    <3>4. Len(b) >= 1 /\ More(b[1]) /\ More(b[2]) /\ More(b[3]) /\ More(b[4])
      BY <1>12, <2>5, <3>2, <3>3
    <3> QED  BY <1>12, <3>3, <3>4 DEF LengthForm, lb
  <2> QED  BY <2>6, <2>7
<1> QED  BY <1>8, <1>9, <1>10, <1>11

\* A stretch of a sequence that reads as another is that sequence.
LEMMA StretchIs ==
  ASSUME NEW s \in Seq(Nat), NEW u \in Seq(Nat), NEW from \in Nat \ {0}, NEW to \in Nat,
         to + 1 = from + Len(u), to <= Len(s), \A k \in 1 .. Len(u) : s[from + k - 1] = u[k]
  PROVE  SubSeq(s, from, to) = u
<1> DEFINE v == SubSeq(s, from, to)
<1>1. Len(s) \in Nat /\ Len(u) \in Nat /\ to - from + 1 = Len(u) /\ from <= to + 1
  <2>1. Len(s) \in Nat /\ Len(u) \in Nat
    OBVIOUS
  <2> QED  BY <2>1
<1>2. \A k \in from .. to : s[k] \in Nat
  BY <1>1, ElementOfSeq
<1>3. v \in Seq(Nat)
  BY <1>1, <1>2, SubSeqProperties
<1>4. Len(v) = to - from + 1
  BY <1>1, <1>2, SubSeqProperties
<1>5. \A k \in 1 .. to - from + 1 : v[k] = s[from + k - 1]
  BY <1>1, <1>2, SubSeqProperties
<1> HIDE DEF v
<1>6. v = [k \in 1 .. Len(u) |-> v[k]] /\ u = [k \in 1 .. Len(u) |-> u[k]]
  BY <1>1, <1>3, <1>4
<1>7. v = u
  BY <1>1, <1>5, <1>6
<1> QED  BY <1>7 DEF v

\* What has come in of a length field is read as such, and as complete only if it is.
LEMMA LengthFieldRead ==
  ASSUME NEW lb, NEW len, LengthForm(lb, len), NEW bytes \in Seq(Nat), bytes # <<>>,
         \A k \in 1 .. Len(lb) : 1 + k <= Len(bytes) => bytes[1 + k] = lb[k]
  PROVE  /\ Len(lb) <= 4 /\ Len(bytes) > Len(lb) => LengthBytes(bytes) = lb
         /\ ~(Len(lb) <= 4 /\ Len(bytes) > Len(lb)) => ~Closed(LengthBytes(bytes))
         /\ Len(lb) > 4 /\ Len(bytes) >= 5 => Len(LengthBytes(bytes)) = 4
<1> DEFINE n == Len(lb)
           S == {1} \cup {k \in 2 .. 5 : k <= Len(bytes) /\ \A j \in 2 .. k - 1 : More(bytes[j])}
           top == Seqs!Max(S)
           c == Len(bytes)
           m == IF n > 4 THEN IF c > 5 THEN 5 ELSE c ELSE IF c > n THEN n + 1 ELSE c
<1>1. /\ lb \in Seq(Nat) /\ n \in Nat \ {0} /\ Len(bytes) \in Nat \ {0}
      /\ \A k \in 1 .. 4 : k < n => More(lb[k])
      /\ n <= 4 => ~More(lb[n])
  <2>1. lb \in Seq(Nat) /\ Len(lb) >= 1 /\ \A k \in 1 .. 4 : k < n => More(lb[k])
    BY DEF LengthForm
  <2>2. n <= 4 => ~More(lb[n])
    BY DEF LengthForm
  <2>3. n \in Nat /\ Len(bytes) \in Nat /\ Len(bytes) # 0
    BY <2>1
  <2> QED  BY <2>1, <2>2, <2>3
<1> HIDE DEF n
<1>2. m \in 1 .. 5 /\ m <= Len(bytes) /\ m <= n + 1
      /\ (n <= 4 /\ Len(bytes) > n => m = n + 1)
      /\ (m = n + 1 => n <= 4 /\ Len(bytes) > n)
      /\ (m < 5 /\ m < Len(bytes) => m = n + 1)
      /\ (n > 4 /\ Len(bytes) >= 5 => m = 5)
  <2>1. n \in Nat \ {0} /\ c \in Nat \ {0}
    BY <1>1
  <2> HIDE DEF c
  <2>2. /\ m \in 1 .. 5 /\ m <= c /\ m <= n + 1
        /\ (n <= 4 /\ c > n => m = n + 1) /\ (m = n + 1 => n <= 4 /\ c > n)
        /\ (m < 5 /\ m < c => m = n + 1) /\ (n > 4 /\ c >= 5 => m = 5)
    BY <2>1
  <2> HIDE DEF m
  <2> QED  BY <2>2 DEF c
<1> HIDE DEF m
<1>3. \A j \in 2 .. 5 : j <= Len(bytes) /\ j <= n + 1 => bytes[j] = lb[j - 1]
  <2> SUFFICES ASSUME NEW j \in 2 .. 5, j <= Len(bytes), j <= n + 1 PROVE bytes[j] = lb[j - 1]
    OBVIOUS
  <2>1. j - 1 \in 1 .. n /\ 1 + (j - 1) = j
    BY <1>1
  <2>2. bytes[1 + (j - 1)] = lb[j - 1]
    BY <2>1 DEF n
  <2> QED  BY <2>1, <2>2
<1>4. m \in S
  <2>1. \A j \in 2 .. m - 1 : More(bytes[j])
    <3> SUFFICES ASSUME NEW j \in 2 .. m - 1 PROVE More(bytes[j])
      OBVIOUS
    <3>1. j \in 2 .. 5 /\ j <= Len(bytes) /\ j <= n + 1 /\ j - 1 \in 1 .. 4 /\ j - 1 < n
      BY <1>1, <1>2
    <3> QED  BY <1>1, <1>3, <3>1
  <2>2. m = 1 \/ m \in 2 .. 5
    BY <1>2
  <2> QED  BY <1>2, <2>1, <2>2
<1>5. 5 \in Nat /\ S \subseteq 0 .. 5 /\ S # {}
  OBVIOUS
<1>6. top \in S /\ top >= m
  <2> HIDE DEF S
  <2> QED  BY <1>4, <1>5, GreatestExists
<1>7. top = m
  <2>1. top \in 1 .. 5
    BY <1>6
  <2> SUFFICES ASSUME top > m PROVE FALSE
    BY <1>2, <1>6, <2>1
  <2>2. top \in 2 .. 5 /\ top <= Len(bytes) /\ \A j \in 2 .. top - 1 : More(bytes[j])
    <3>1. top # 1
      BY <1>2, <2>1
    <3>2. top \in {k \in 2 .. 5 : k <= Len(bytes) /\ \A j \in 2 .. k - 1 : More(bytes[j])}
      <4> HIDE DEF top
      <4> QED  BY <1>6, <3>1
    <3> HIDE DEF top
    <3> QED  BY <3>2
  <2> HIDE DEF top
  <2>3. m < 5 /\ m < Len(bytes)
    BY <1>1, <1>2, <2>2
  <2>4. m = n + 1 /\ n <= 4 /\ m \in 2 .. top - 1
    BY <1>1, <1>2, <2>2, <2>3
  <2>5. bytes[m] = lb[n]
    <3>1. m \in 2 .. 5 /\ m <= Len(bytes) /\ m <= n + 1 /\ m - 1 = n
      BY <1>1, <1>2, <2>4
    <3> QED  BY <1>3, <3>1
  <2> QED  BY <1>1, <2>2, <2>4, <2>5
<1>8. LengthBytes(bytes) = SubSeq(bytes, 2, m)
  BY <1>7 DEF LengthBytes
<1> DEFINE got == SubSeq(bytes, 2, m)
<1>9. got \in Seq(Nat) /\ Len(got) = m - 1 /\ \A k \in 1 .. m - 1 : got[k] = lb[k]
  <2>1. \A k \in 2 .. m : bytes[k] \in Nat
    BY <1>1, <1>2, ElementOfSeq
  <2>2. got \in Seq(Nat) /\ Len(got) = m - 1 /\ \A k \in 1 .. m - 1 : got[k] = bytes[k + 1]
    BY <1>2, <2>1, SubSeqProperties
  <2>3. \A k \in 1 .. m - 1 : bytes[k + 1] = lb[k]
    <3> SUFFICES ASSUME NEW k \in 1 .. m - 1 PROVE bytes[k + 1] = lb[k]
      OBVIOUS
    <3>1. k + 1 \in 2 .. 5 /\ k + 1 <= Len(bytes) /\ k + 1 <= n + 1 /\ (k + 1) - 1 = k
      BY <1>1, <1>2
    <3> QED  BY <1>3, <3>1
  <2> HIDE DEF got
  <2> QED  BY <2>2, <2>3
<1> HIDE DEF got
<1>10. ASSUME n <= 4, Len(bytes) > n PROVE got = lb
  <2>1. Len(got) = n /\ \A k \in 1 .. n : got[k] = lb[k]
    BY <1>1, <1>2, <1>9, <1>10
  <2>2. got = [k \in 1 .. n |-> got[k]] /\ lb = [k \in 1 .. n |-> lb[k]]
    BY <1>1, <1>9, <2>1 DEF n
  <2> QED  BY <2>1, <2>2, Zenon
<1>11. ASSUME ~(n <= 4 /\ Len(bytes) > n) PROVE ~Closed(got)
  <2>1. CASE m = 1
    <3>1. got = <<>>
      BY <1>9, <2>1, EmptySeq
    <3> QED  BY <3>1 DEF Closed
  <2>2. CASE m # 1
    <3>1. m - 1 \in 1 .. 4 /\ m - 1 < n /\ m - 1 \in 1 .. m - 1
      BY <1>1, <1>2, <1>11, <2>2
    <3>2. got[m - 1] = lb[m - 1]
      BY <1>9, <3>1
    <3>3. More(lb[m - 1])
      BY <1>1, <3>1
    <3> QED  BY <1>9, <3>2, <3>3 DEF Closed
  <2> QED  BY <2>1, <2>2
<1>12. n > 4 /\ Len(bytes) >= 5 => Len(got) = 4
  BY <1>2, <1>9
<1> QED  BY <1>8, <1>10, <1>11, <1>12 DEF got, n

\* What a packet is made of.
Parts(b, first, lb, body) ==
  /\ b \in Seq(Nat) /\ lb \in Seq(Nat) /\ Len(b) = 1 + Len(lb) + Len(body) /\ b[1] = first
  /\ \A k \in 1 .. Len(lb) : b[1 + k] = lb[k]
  /\ \A k \in 1 .. Len(body) : b[1 + Len(lb) + k] = body[k]

LEMMA PacketParts ==
  ASSUME NEW first \in Nat, NEW body \in Seq(Nat)
  PROVE  Parts(Packet(first, body), first, RemainingLength[Len(body)], body)
<1> DEFINE lb == RemainingLength[Len(body)]
           b == Packet(first, body)
<1>1. lb \in Seq(Nat) /\ Len(lb) \in Nat /\ Len(body) \in Nat
  BY LengthsAreBytes
<1>2. b = <<first>> \o lb \o body
  BY DEF Packet, lb
<1> HIDE DEF lb, b
<1> DEFINE head == <<first>> \o lb
<1>3. head \in Seq(Nat) /\ Len(head) = 1 + Len(lb) /\ head[1] = first
      /\ \A k \in 1 .. Len(lb) : head[1 + k] = lb[k]
  BY <1>1
<1>4. b = head \o body
  BY <1>2
<1> HIDE DEF head
<1>5. /\ b \in Seq(Nat) /\ Len(b) = Len(head) + Len(body)
      /\ \A k \in 1 .. Len(head) : b[k] = head[k]
      /\ \A k \in 1 .. Len(body) : b[Len(head) + k] = body[k]
  <2>1. IsSequence(head) /\ IsSequence(body)
    BY <1>3 DEF IsSequence
  <2>2. b \in Seq(Nat)
    BY <1>3, <1>4, ConcatProperties
  <2> QED  BY <1>4, <2>1, <2>2, SequencesJoin
<1>6. \A k \in 1 .. Len(lb) : 1 + k \in 1 .. Len(head)
  BY <1>1, <1>3
<1>7. 1 \in 1 .. Len(head)
  BY <1>1, <1>3
<1>8. Parts(b, first, lb, body)
  BY <1>1, <1>3, <1>5, <1>6, <1>7 DEF Parts
<1> QED  BY <1>8 DEF lb, b

\* What read_packet returns of a packet.
Whole(first, body) == [tag |-> "Packet", first |-> first, body |-> body]

\* How a read of some bytes stands to the packet before it: it does not wait behind its
\* last byte, and what it completes is that packet.
Reading(bytes, cap, b, first, body) ==
  /\ ReadPacket(bytes, cap) = Pending => Len(bytes) < Len(b)
  /\ ReadPacket(bytes, cap).tag = "Packet" /\ Len(bytes) <= Len(b)
       => bytes = b /\ ReadPacket(bytes, cap) = Whole(first, body)

\* A read that runs through a packet returns it at its last byte, if it returns one at
\* all, and is not left waiting behind it.
LEMMA PacketIsRead ==
  ASSUME NEW first \in Nat, NEW body \in Seq(Nat), NEW b, b = Packet(first, body),
         NEW bytes \in Seq(Nat), bytes # <<>>,
         \A k \in 1 .. Len(bytes) : k <= Len(b) => bytes[k] = b[k],
         NEW cap
  PROVE  Reading(bytes, cap, b, first, body)
<1> DEFINE lb == RemainingLength[Len(body)]
           got == LengthBytes(bytes)
           rest == SubSeq(bytes, 1 + Len(lb) + 1, Len(bytes))
<1>1. /\ b \in Seq(Nat) /\ lb \in Seq(Nat) /\ Len(b) = 1 + Len(lb) + Len(body) /\ b[1] = first
      /\ \A k \in 1 .. Len(lb) : b[1 + k] = lb[k]
      /\ \A k \in 1 .. Len(body) : b[1 + Len(lb) + k] = body[k]
  <2>1. Parts(b, first, lb, body)
    BY PacketParts
  <2> HIDE DEF lb
  <2> QED  BY <2>1 DEF Parts
<1>2. Len(body) \in Nat /\ Len(bytes) \in Nat \ {0} /\ LengthForm(lb, Len(body))
  BY LengthsForm
<1> HIDE DEF lb
<1>3. Len(lb) \in Nat \ {0} /\ (Len(lb) <= 4 => ~More(lb[Len(lb)]) /\ LengthValue(lb) = Len(body))
  BY <1>2 DEF LengthForm
<1>4. \A k \in 1 .. Len(lb) : 1 + k <= Len(bytes) => bytes[1 + k] = lb[k]
  <2> SUFFICES ASSUME NEW k \in 1 .. Len(lb), 1 + k <= Len(bytes) PROVE bytes[1 + k] = lb[k]
    OBVIOUS
  <2>1. 1 + k \in 1 .. Len(bytes) /\ 1 + k <= Len(b)
    BY <1>1, <1>2, <1>3
  <2>2. bytes[1 + k] = b[1 + k]
    BY <2>1
  <2> QED  BY <1>1, <2>2
<1>5. /\ Len(lb) <= 4 /\ Len(bytes) > Len(lb) => got = lb
      /\ ~(Len(lb) <= 4 /\ Len(bytes) > Len(lb)) => ~Closed(got)
      /\ Len(lb) > 4 /\ Len(bytes) >= 5 => Len(got) = 4
  BY <1>2, <1>4, LengthFieldRead
<1> HIDE DEF got
<1>6. /\ ~Closed(got) => ReadPacket(bytes, cap) = IF Len(got) = 4 THEN Error ELSE Pending
      /\ Closed(got) /\ got = lb =>
           ReadPacket(bytes, cap) =
             IF LengthValue(lb) > cap THEN Error
             ELSE IF Len(bytes) < 1 + Len(lb) + LengthValue(lb) THEN Pending
             ELSE [tag |-> "Packet", first |-> bytes[1], body |-> rest]
  <2> HIDE DEF rest
  <2>1. got = LengthBytes(bytes) /\ rest = SubSeq(bytes, 1 + Len(lb) + 1, Len(bytes))
    BY DEF got, rest
  <2> QED  BY <2>1, Zenon DEF ReadPacket
<1>7. Pending.tag = "Pending" /\ Error.tag = "Error"
  BY DEF Pending, Error
<1>8. CASE ~(Len(lb) <= 4 /\ Len(bytes) > Len(lb))
  <2>1. ReadPacket(bytes, cap) = IF Len(got) = 4 THEN Error ELSE Pending
    BY <1>5, <1>6, <1>8
  <2>2. ReadPacket(bytes, cap) = Pending => Len(bytes) < Len(b)
    <3> SUFFICES ASSUME ReadPacket(bytes, cap) = Pending PROVE Len(bytes) < Len(b)
      OBVIOUS
    <3>1. Len(got) # 4
      BY <1>7, <2>1
    <3>2. Len(lb) > 4 => Len(bytes) < 5
      BY <1>2, <1>5, <3>1
    <3> DEFINE c == Len(bytes)
               l == Len(lb)
               d == Len(body)
    <3>3. c \in Nat /\ l \in Nat \ {0} /\ d \in Nat /\ Len(b) = 1 + l + d
          /\ ~(l <= 4 /\ c > l) /\ (l > 4 => c < 5)
      BY <1>1, <1>2, <1>3, <1>8, <3>2
    <3> HIDE DEF c, l, d
    <3>4. c < 1 + l + d
      BY <3>3
    <3> QED  BY <3>3, <3>4 DEF c
  <2>3. ReadPacket(bytes, cap).tag # "Packet"
    BY <1>7, <2>1
  <2> QED  BY <2>2, <2>3, Zenon DEF Reading
<1>9. CASE Len(lb) <= 4 /\ Len(bytes) > Len(lb)
  <2>1. Closed(lb)
    BY <1>1, <1>3, <1>9 DEF Closed
  <2>2. ReadPacket(bytes, cap) =
             IF Len(body) > cap THEN Error
             ELSE IF Len(bytes) < 1 + Len(lb) + Len(body) THEN Pending
             ELSE [tag |-> "Packet", first |-> bytes[1], body |-> rest]
    <3> HIDE DEF rest
    <3> QED  BY <1>3, <1>5, <1>6, <1>9, <2>1, Zenon
  <2> DEFINE whole == [tag |-> "Packet", first |-> bytes[1], body |-> rest]
  <2>3. whole.tag = "Packet"
    OBVIOUS
  <2> HIDE DEF whole
  <2>4. ReadPacket(bytes, cap) = Pending => Len(bytes) < Len(b)
    <3>1. ReadPacket(bytes, cap) = Pending => Len(bytes) < 1 + Len(lb) + Len(body)
      BY <1>7, <2>2, <2>3, Zenon DEF whole
    <3> QED  BY <1>1, <3>1
  <2>5. ASSUME ReadPacket(bytes, cap).tag = "Packet", Len(bytes) <= Len(b)
        PROVE  bytes = b /\ ReadPacket(bytes, cap) = Whole(first, body)
    <3>1. ~(Len(bytes) < 1 + Len(lb) + Len(body)) /\ ReadPacket(bytes, cap) = whole
      BY <1>7, <2>2, <2>3, <2>5, Zenon DEF whole
    <3>2. Len(bytes) = Len(b)
      BY <1>1, <1>2, <1>3, <2>5, <3>1
    <3>3. bytes = b
      <4>1. bytes = [k \in 1 .. Len(b) |-> bytes[k]] /\ b = [k \in 1 .. Len(b) |-> b[k]]
        BY <1>1, <3>2
      <4>2. \A k \in 1 .. Len(b) : bytes[k] = b[k]
        BY <1>1, <3>2
      <4> QED  BY <4>1, <4>2, Zenon
    <3>4. rest = body
      <4> DEFINE from == 1 + Len(lb) + 1
                 to == Len(b)
      <4>1. from \in Nat \ {0} /\ to \in Nat /\ to + 1 = from + Len(body) /\ to <= Len(b)
        BY <1>1, <1>2, <1>3
      <4>2. rest = SubSeq(b, from, to)
        BY <3>3
      <4>3. \A k \in 1 .. Len(body) : from + k - 1 = 1 + Len(lb) + k
        BY <1>3
      <4> HIDE DEF from, to, rest
      <4>4. \A k \in 1 .. Len(body) : b[from + k - 1] = body[k]
        BY <1>1, <4>3
      <4>5. SubSeq(b, from, to) = body
        BY <1>1, <4>1, <4>4, StretchIs
      <4> QED  BY <4>2, <4>5
    <3>5. bytes[1] = first
      BY <1>1, <3>3
    <3> QED  BY <3>1, <3>3, <3>4, <3>5 DEF whole, Whole
  <2> QED  BY <2>4, <2>5, Zenon DEF Reading
<1> QED  BY <1>8, <1>9

\* A PUBLISH on the uplink topic is taken apart into that topic and its text.
LEMMA UplinkIsRead ==
  ASSUME NEW bytes, NEW cap, NEW text \in Seq(Nat), NEW body, body = PublishBody(TOPIC_UPLINK, text),
         ReadPacket(bytes, cap) = [tag |-> "Packet", first |-> PUBLISH, body |-> body]
  PROVE  ReadPublish(bytes, cap) = [tag |-> "Publish", topic |-> TOPIC_UPLINK, text |-> text]
<1> DEFINE n == Len(TOPIC_UPLINK)
           size == <<n \div 256, n % 256>>
           p == ReadPacket(bytes, cap)
<1>1. TOPIC_UPLINK \in Seq(Nat) /\ n \in Nat /\ Len(text) \in Nat
  BY TopicAssumption DEF TopicAssumption
<1>2. n \div 256 \in Nat /\ n % 256 \in Nat /\ (n \div 256) * 256 + (n % 256) = n
  <2> HIDE DEF n
  <2>1. (n \div 256) * 256 + (n % 256) = n
    BY <1>1
  <2> QED  BY <1>1, <2>1
<1>3. body = (size \o TOPIC_UPLINK) \o text
  BY DEF PublishBody
<1>4. size \in Seq(Nat) /\ Len(size) = 2 /\ size[1] = n \div 256 /\ size[2] = n % 256
  <2> HIDE DEF n
  <2> QED  BY <1>2
<1> DEFINE head == size \o TOPIC_UPLINK
<1> HIDE DEF size, n
<1>5. IsSequence(size) /\ IsSequence(TOPIC_UPLINK) /\ IsSequence(text)
  BY <1>1, <1>4 DEF IsSequence
<1>6. /\ head \in Seq(Nat) /\ IsSequence(head) /\ Len(head) = 2 + n
      /\ head[1] = n \div 256 /\ head[2] = n % 256
      /\ \A k \in 1 .. n : head[2 + k] = TOPIC_UPLINK[k]
  <2>1. head \in Seq(Nat)
    BY <1>1, <1>4, ConcatProperties
  <2>2. /\ Len(head) = Len(size) + Len(TOPIC_UPLINK)
        /\ \A k \in 1 .. Len(size) : head[k] = size[k]
        /\ \A k \in 1 .. Len(TOPIC_UPLINK) : head[Len(size) + k] = TOPIC_UPLINK[k]
    BY <1>5, SequencesJoin
  <2> HIDE DEF head
  <2> QED  BY <1>4, <2>1, <2>2 DEF IsSequence, n
<1>7. body = head \o text
  BY <1>3
<1> HIDE DEF head
<1>8. /\ body \in Seq(Nat) /\ Len(body) = 2 + n + Len(text)
      /\ body[1] = n \div 256 /\ body[2] = n % 256
      /\ \A k \in 1 .. n : body[2 + k] = TOPIC_UPLINK[k]
      /\ \A k \in 1 .. Len(text) : body[2 + n + k] = text[k]
  <2>1. body \in Seq(Nat)
    BY <1>6, <1>7, ConcatProperties
  <2>2. /\ Len(body) = Len(head) + Len(text)
        /\ \A k \in 1 .. Len(head) : body[k] = head[k]
        /\ \A k \in 1 .. Len(text) : body[Len(head) + k] = text[k]
    <3>1. /\ Len(head \o text) = Len(head) + Len(text)
          /\ \A k \in 1 .. Len(head) : (head \o text)[k] = head[k]
          /\ \A k \in 1 .. Len(text) : (head \o text)[Len(head) + k] = text[k]
      <4>1. IsSequence(head) /\ IsSequence(text)
        BY <1>5, <1>6
      <4> QED  BY <4>1, SequencesJoin
    <3> QED  BY <1>7, <3>1
  <2>3. \A k \in 1 .. 2 + n : body[k] = head[k]
    BY <1>6, <2>2
  <2>4. 1 \in 1 .. 2 + n /\ 2 \in 1 .. 2 + n /\ \A k \in 1 .. n : 2 + k \in 1 .. 2 + n
    BY <1>1
  <2>5. \A k \in 1 .. n : body[2 + k] = TOPIC_UPLINK[k]
    BY <1>6, <2>3, <2>4
  <2>6. body[1] = n \div 256 /\ body[2] = n % 256
    BY <1>6, <2>3, <2>4
  <2> QED  BY <1>6, <2>1, <2>2, <2>5, <2>6
<1>9. body[1] * 256 + body[2] = n
  BY <1>2, <1>8
<1>10. TopicOf(body) = TOPIC_UPLINK
  <2> DEFINE to == 2 + body[1] * 256 + body[2]
  <2>1. to = 2 + n
    BY <1>2, <1>8
  <2>2. TopicOf(body) = SubSeq(body, 3, to)
    BY DEF TopicOf
  <2> HIDE DEF to
  <2>3. to \in Nat /\ to + 1 = 3 + Len(TOPIC_UPLINK) /\ to <= Len(body)
    BY <1>1, <1>8, <2>1 DEF n
  <2>4. \A k \in 1 .. Len(TOPIC_UPLINK) : body[3 + k - 1] = TOPIC_UPLINK[k]
    <3> SUFFICES ASSUME NEW k \in 1 .. Len(TOPIC_UPLINK) PROVE body[3 + k - 1] = TOPIC_UPLINK[k]
      OBVIOUS
    <3>1. 3 + k - 1 = 2 + k
      OBVIOUS
    <3> QED  BY <1>8, <3>1 DEF n
  <2>5. SubSeq(body, 3, to) = TOPIC_UPLINK
    BY <1>1, <1>8, <2>3, <2>4, StretchIs
  <2> QED  BY <2>2, <2>5
<1>11. TextOf(body) = text
  <2> DEFINE from == 3 + body[1] * 256 + body[2]
  <2>1. from = 3 + n
    BY <1>2, <1>8
  <2>2. TextOf(body) = SubSeq(body, from, Len(body))
    BY DEF TextOf
  <2> HIDE DEF from
  <2> DEFINE to == Len(body)
  <2>3. from \in Nat \ {0} /\ to \in Nat /\ to + 1 = from + Len(text) /\ to <= Len(body)
    BY <1>1, <1>8, <2>1
  <2> HIDE DEF to
  <2>4. \A k \in 1 .. Len(text) : body[from + k - 1] = text[k]
    <3> SUFFICES ASSUME NEW k \in 1 .. Len(text) PROVE body[from + k - 1] = text[k]
      OBVIOUS
    <3>1. from + k - 1 = 2 + n + k
      BY <1>1, <2>1
    <3> QED  BY <1>8, <3>1
  <2>5. body \in Seq(Nat)
    BY <1>8
  <2>6. SubSeq(body, from, to) = text
    BY <2>3, <2>4, <2>5, StretchIs
  <2> QED  BY <2>2, <2>6 DEF to
<1>12. /\ p.tag = "Packet" /\ Type(p.first) = 3 /\ p.body = body
       /\ ~(Len(p.body) < 2 \/ Len(p.body) < 2 + p.body[1] * 256 + p.body[2])
  <2>1. p.tag = "Packet" /\ p.first = PUBLISH /\ p.body = body
    OBVIOUS
  <2>2. Type(PUBLISH) = 3
    BY DEF Type, PUBLISH
  <2>3. ~(Len(body) < 2) /\ 2 + body[1] * 256 + body[2] = 2 + n /\ ~(Len(body) < 2 + n)
    BY <1>1, <1>2, <1>8
  <2> HIDE DEF p
  <2> QED  BY <2>1, <2>2, <2>3
<1> HIDE DEF p
<1>13. ReadPublish(bytes, cap) = [tag |-> "Publish", topic |-> TopicOf(p.body), text |-> TextOf(p.body)]
  BY <1>12, Zenon DEF ReadPublish, p
<1> QED  BY <1>10, <1>11, <1>12, <1>13

\* A packet of the broker's, and the texts it carries.
Carries(packet, due) ==
  \/ \E text \in Seq(Nat) : packet = Packet(PUBLISH, PublishBody(TOPIC_UPLINK, text)) /\ due = <<text>>
  \/ \E first \in Nat, body \in Seq(Nat) : Type(first) # 3 /\ packet = Packet(first, body) /\ due = <<>>

\* Bytes, and the texts they carry: nothing, or a packet and what follows it.
Streams(S) ==
  /\ S \subseteq Seq(Nat) \X Seq(Seq(Nat))
  /\ \A z \in S : z = <<<<>>, <<>>>> \/
       \E p, x, b, d : Carries(p, x) /\ <<b, d>> \in S /\ z = <<p \o b, x \o d>>

Stream(bytes, due) == \E S : Streams(S) /\ <<bytes, due>> \in S

LEMMA UplinkBodies ==
  ASSUME NEW text \in Seq(Nat)
  PROVE  PublishBody(TOPIC_UPLINK, text) \in Seq(Nat)
<1>1. TOPIC_UPLINK \in Seq(Nat) /\ Len(TOPIC_UPLINK) \in Nat
  BY TopicAssumption DEF TopicAssumption
<1>2. Len(TOPIC_UPLINK) \div 256 \in Nat /\ Len(TOPIC_UPLINK) % 256 \in Nat
  BY <1>1
<1>3. <<Len(TOPIC_UPLINK) \div 256, Len(TOPIC_UPLINK) % 256>> \in Seq(Nat)
  BY <1>2
<1> QED  BY <1>1, <1>3, ConcatProperties DEF PublishBody

LEMMA CarriesBytes ==
  ASSUME NEW p, NEW x, Carries(p, x)
  PROVE  p \in Seq(Nat) /\ p # <<>> /\ x \in Seq(Seq(Nat))
<1>1. CASE \E text \in Seq(Nat) : p = Packet(PUBLISH, PublishBody(TOPIC_UPLINK, text)) /\ x = <<text>>
  <2>1. PICK text \in Seq(Nat) : p = Packet(PUBLISH, PublishBody(TOPIC_UPLINK, text)) /\ x = <<text>>
    BY <1>1
  <2>2. PUBLISH \in Nat /\ PublishBody(TOPIC_UPLINK, text) \in Seq(Nat)
    BY UplinkBodies DEF PUBLISH
  <2>3. x \in Seq(Seq(Nat))
    BY <2>1
  <2> QED  BY <2>1, <2>2, <2>3, PacketsAreBytes
<1>2. CASE \E first \in Nat, body \in Seq(Nat) : p = Packet(first, body) /\ x = <<>>
  BY <1>2, PacketsAreBytes
<1> QED  BY <1>1, <1>2 DEF Carries

LEMMA StreamIsBytes ==
  ASSUME NEW b, NEW d, Stream(b, d)
  PROVE  b \in Seq(Nat) /\ d \in Seq(Seq(Nat))
  BY DEF Stream, Streams

LEMMA StreamEmpty == Stream(<<>>, <<>>)
<1> DEFINE S == {<<<<>>, <<>>>>}
<1>1. S \subseteq Seq(Nat) \X Seq(Seq(Nat))
  <2>1. <<>> \in Seq(Nat) /\ <<>> \in Seq(Seq(Nat))
    BY EmptySeq
  <2>2. <<<<>>, <<>>>> \in Seq(Nat) \X Seq(Seq(Nat))
    BY <2>1, Zenon
  <2> QED  BY <2>2
<1>2. Streams(S)
  BY <1>1 DEF Streams
<1> QED  BY <1>2 DEF Stream

\* What a stream begins with, unless it is empty.
LEMMA StreamStarts ==
  ASSUME NEW b, NEW d, Stream(b, d)
  PROVE  \/ b = <<>> /\ d = <<>>
         \/ /\ b # <<>>
            /\ \E p, x, r, y : Carries(p, x) /\ Stream(r, y) /\ b = p \o r /\ d = x \o y
<1>1. PICK S : Streams(S) /\ <<b, d>> \in S
  BY DEF Stream
<1>2. CASE <<b, d>> = <<<<>>, <<>>>>
  BY <1>2
<1>3. CASE \E p, x, r, y : Carries(p, x) /\ <<r, y>> \in S /\ <<b, d>> = <<p \o r, x \o y>>
  <2>1. PICK p, x, r, y : Carries(p, x) /\ <<r, y>> \in S /\ <<b, d>> = <<p \o r, x \o y>>
    BY <1>3
  <2>2. Stream(r, y) /\ b = p \o r /\ d = x \o y
    BY <1>1, <2>1 DEF Stream
  <2>3. p \in Seq(Nat) /\ p # <<>> /\ r \in Seq(Nat)
    BY <2>1, <2>2, CarriesBytes, StreamIsBytes
  <2>4. b # <<>>
    BY <2>2, <2>3, ConcatEqualIffEmpty
  <2> QED  BY <2>1, <2>2, <2>4
<1> QED  BY <1>1, <1>2, <1>3, Zenon DEF Streams

\* Whatever is sent goes behind it.
LEMMA StreamGrows ==
  ASSUME NEW b, NEW d, Stream(b, d), NEW p, NEW x, Carries(p, x)
  PROVE  Stream(b \o p, d \o x)
<1>1. PICK S : Streams(S) /\ <<b, d>> \in S
  BY DEF Stream
<1>2. p \in Seq(Nat) /\ x \in Seq(Seq(Nat))
  BY CarriesBytes
<1>3. S \subseteq Seq(Nat) \X Seq(Seq(Nat))
  BY <1>1 DEF Streams
<1> DEFINE U == Seq(Nat)
<1>9. \A a, c, e \in Seq(Nat) : (a \o c) \o e = a \o (c \o e)
  BY ConcatAssociative
<1>10. \A a, c, e \in Seq(U) : (a \o c) \o e = a \o (c \o e)
  <2> HIDE DEF U
  <2> QED  BY ConcatAssociative
<1> DEFINE nothing == <<<<>>, <<>>>>
           T == {<<z[1] \o p, z[2] \o x>> : z \in S} \cup {<<p, x>>, nothing}
<1>4. T \subseteq Seq(Nat) \X Seq(Seq(Nat))
  <2>1. \A z \in S : z[1] \o p \in Seq(Nat) /\ z[2] \o x \in Seq(Seq(Nat))
    BY <1>2, <1>3, ConcatProperties
  <2>2. <<p, x>> \in Seq(Nat) \X Seq(Seq(Nat))
    BY <1>2
  <2>3. nothing \in Seq(Nat) \X Seq(Seq(Nat))
    <3>1. <<>> \in Seq(Nat) /\ <<>> \in Seq(Seq(Nat))
      BY EmptySeq
    <3> QED  BY <3>1, Zenon
  <2>4. \A z \in S : <<z[1] \o p, z[2] \o x>> \in Seq(Nat) \X Seq(Seq(Nat))
    BY <2>1, Zenon
  <2> HIDE DEF nothing
  <2> QED  BY <2>2, <2>3, <2>4, Zenon
<1>5. ASSUME NEW z \in T
      PROVE  z = nothing \/ \E q, w, r, y : Carries(q, w) /\ <<r, y>> \in T /\ z = <<q \o r, w \o y>>
  <2>1. CASE z = nothing
    BY <2>1
  <2>2. CASE z = <<p, x>>
    <3>1. p \o <<>> = p /\ x \o <<>> = x
      BY <1>2, ConcatEmptySeq
    <3>2. <<<<>>, <<>>>> \in T
      OBVIOUS
    <3> HIDE DEF T
    <3> QED  BY <2>2, <3>1, <3>2
  <2>3. CASE \E o \in S : z = <<o[1] \o p, o[2] \o x>>
    <3>1. PICK o \in S : z = <<o[1] \o p, o[2] \o x>>
      BY <2>3
    <3>2. CASE o = nothing
      <4>1. z = <<p, x>>
        <5>1. <<>> \o p = p /\ <<>> \o x = x
          BY <1>2, ConcatEmptySeq
        <5>2. o[1] = <<>> /\ o[2] = <<>>
          BY <3>2
        <5> QED  BY <3>1, <5>1, <5>2
      <4> QED  BY <2>2, <4>1
    <3>3. CASE \E q, w, r, y : Carries(q, w) /\ <<r, y>> \in S /\ o = <<q \o r, w \o y>>
      <4>1. PICK q, w, r, y : Carries(q, w) /\ <<r, y>> \in S /\ o = <<q \o r, w \o y>>
        BY <3>3
      <4>2. q \in Seq(Nat) /\ w \in Seq(Seq(Nat)) /\ r \in Seq(Nat) /\ y \in Seq(Seq(Nat))
        BY <1>3, <4>1, CarriesBytes
      <4>3. z = <<(q \o r) \o p, (w \o y) \o x>>
        BY <3>1, <4>1
      <4>4. (q \o r) \o p = q \o (r \o p)
        BY <1>2, <1>9, <4>2, Zenon
      <4>5. (w \o y) \o x = w \o (y \o x)
        BY <1>2, <1>10, <4>2, Zenon
      <4>6. <<r \o p, y \o x>> \in T
        <5>1. <<r, y>>[1] = r /\ <<r, y>>[2] = y
          OBVIOUS
        <5> QED  BY <4>1, <5>1
      <4> HIDE DEF T
      <4> QED  BY <4>1, <4>3, <4>4, <4>5, <4>6
    <3> QED  BY <1>1, <3>2, <3>3, Zenon DEF Streams
  <2> QED  BY <2>1, <2>2, <2>3
<1>6. Streams(T)
  <2> HIDE DEF T
  <2> QED  BY <1>4, <1>5, Zenon DEF Streams
<1>7. <<b \o p, d \o x>> \in T
  <2>1. <<b, d>>[1] = b /\ <<b, d>>[2] = d
    OBVIOUS
  <2> QED  BY <1>1, <2>1
<1> QED  BY <1>6, <1>7, Zenon DEF Stream

LEMMA BytesJoinAgain == \A a, c, e \in Seq(Nat) : (a \o c) \o e = a \o (c \o e)
<1> DEFINE U == Nat
<1>1. \A a, c, e \in Seq(U) : (a \o c) \o e = a \o (c \o e)
  <2> HIDE DEF U
  <2> QED  BY ConcatAssociative
<1> QED  BY <1>1

LEMMA JoinsAgain == \A a, c, e \in Seq(Seq(Nat)) : (a \o c) \o e = a \o (c \o e)
<1> DEFINE U == Seq(Nat)
<1>1. \A a, c, e \in Seq(U) : (a \o c) \o e = a \o (c \o e)
  <2> HIDE DEF U
  <2> QED  BY ConcatAssociative
<1> QED  BY <1>1

\* The read of a session that has a packet before it: if the byte that comes in
\* completes a packet, it is that one, and what follows it remains to be read.
LEMMA PacketReached ==
  ASSUME HandshakeInv, wire # <<>>, NEW cap, rx # <<>> => ReadPacket(rx, cap) = Pending,
         ReadPacket(Got, cap).tag = "Packet",
         NEW first \in Nat, NEW body \in Seq(Nat), NEW p, p = Packet(first, body),
         NEW r \in Seq(Nat), rx \o wire = p \o r
  PROVE  ReadPacket(Got, cap) = Whole(first, body) /\ Tail(wire) = r
<1>1. rx \in Seq(Nat) /\ wire \in Seq(Nat) /\ p \in Seq(Nat) /\ p # <<>>
  BY PacketsAreBytes DEF HandshakeInv
<1>2. /\ Got \in Seq(Nat) /\ Tail(wire) \in Seq(Nat) /\ Len(Got) = Len(rx) + 1
      /\ Got \o Tail(wire) = p \o r
  BY <1>1, ByteMoves
<1>3. Len(rx) \in Nat /\ Len(Got) \in Nat /\ Len(p) \in Nat \ {0} /\ Got # <<>>
  <2>1. Len(rx) \in Nat /\ Len(Got) \in Nat
    BY <1>1, <1>2
  <2>2. Len(p) \in Nat \ {0}
    BY <1>1, EmptySeq
  <2>3. Len(Got) # 0
    BY <1>2, <2>1
  <2>4. Got # <<>>
    BY <2>3, EmptySeq
  <2> QED  BY <2>1, <2>2, <2>4
<1> DEFINE all == p \o r
<1>4. \A k \in 1 .. Len(p) : all[k] = p[k]
  <2>1. IsSequence(p) /\ IsSequence(r)
    BY <1>1 DEF IsSequence
  <2> QED  BY <2>1, SequencesJoin
<1>5. \A k \in 1 .. Len(rx) : k <= Len(p) => rx[k] = p[k]
  <2>1. IsSequence(rx) /\ IsSequence(wire)
    BY <1>1 DEF IsSequence
  <2>2. \A k \in 1 .. Len(rx) : (rx \o wire)[k] = rx[k]
    BY <2>1, SequencesJoin
  <2>3. \A k \in 1 .. Len(rx) : all[k] = rx[k]
    BY <2>2
  <2> HIDE DEF all
  <2> QED  BY <1>3, <1>4, <2>3
<1> HIDE DEF Got
<1>6. \A k \in 1 .. Len(Got) : k <= Len(p) => Got[k] = p[k]
  <2>1. IsSequence(Got) /\ IsSequence(Tail(wire))
    BY <1>2 DEF IsSequence
  <2>2. \A k \in 1 .. Len(Got) : (Got \o Tail(wire))[k] = Got[k]
    BY <2>1, SequencesJoin
  <2>3. \A k \in 1 .. Len(Got) : all[k] = Got[k]
    BY <1>2, <2>2
  <2> HIDE DEF all
  <2> QED  BY <1>3, <1>4, <2>3
<1>7. Len(rx) < Len(p)
  <2>1. CASE rx = <<>>
    BY <1>3, <2>1
  <2>2. CASE rx # <<>>
    <3>1. ReadPacket(rx, cap) = Pending
      BY <2>2
    <3>2. Reading(rx, cap, p, first, body)
      BY <1>1, <1>5, <2>2, PacketIsRead
    <3> QED  BY <3>1, <3>2 DEF Reading
  <2> QED  BY <2>1, <2>2
<1>8. Len(Got) <= Len(p)
  BY <1>2, <1>3, <1>7
<1>9. Got = p /\ ReadPacket(Got, cap) = Whole(first, body)
  <2>1. Got \in Seq(Nat) /\ Got # <<>>
    BY <1>2, <1>3
  <2>2. ReadPacket(Got, cap).tag = "Packet" /\ Len(Got) <= Len(p)
          => Got = p /\ ReadPacket(Got, cap) = Whole(first, body)
    <3>1. Reading(Got, cap, p, first, body)
      BY <1>6, <2>1, PacketIsRead
    <3> QED  BY <3>1, Zenon DEF Reading
  <2> QED  BY <1>8, <2>2
<1>10. Tail(wire) = r
  <2>1. p \o Tail(wire) = p \o r
    BY <1>2, <1>9
  <2> QED  BY <1>1, <1>2, <2>1, ConcatSimplifications
<1> QED  BY <1>9, <1>10


\* What comes in is what the broker sent, from a packet's beginning on, and carries the
\* texts that were published and not read.
StreamInv ==
  /\ given \in Seq(Seq(Nat)) /\ taken \in Seq(Seq(Nat))
  /\ ~torn => \E due : Stream(rx \o wire, due) /\ given = taken \o due

\* A read that completes a packet takes it off the stream, with its text if it has one.
LEMMA StreamRead ==
  ASSUME HandshakeInv, StreamInv, ~torn, wire # <<>>, NEW cap, rx # <<>> => ReadPacket(rx, cap) = Pending,
         ReadPacket(Got, cap).tag = "Packet"
  PROVE  \E y : /\ Stream(Tail(wire), y)
                /\ \/ \E text \in Seq(Nat) :
                        /\ ReadPublish(Got, cap) = [tag |-> "Publish", topic |-> TOPIC_UPLINK, text |-> text]
                        /\ Type(ReadPacket(Got, cap).first) = 3
                        /\ given = Append(taken, text) \o y
                   \/ Type(ReadPacket(Got, cap).first) # 3 /\ given = taken \o y
<1>1. PICK due : Stream(rx \o wire, due) /\ given = taken \o due
  BY DEF StreamInv
<1>2. rx \o wire # <<>> /\ taken \in Seq(Seq(Nat))
  <2>1. rx \in Seq(Nat) /\ wire \in Seq(Nat)
    BY DEF HandshakeInv
  <2> QED  BY <2>1, ConcatEqualIffEmpty DEF StreamInv
<1>3. PICK p, x, r, y : Carries(p, x) /\ Stream(r, y) /\ rx \o wire = p \o r /\ due = x \o y
  <2> DEFINE all == rx \o wire
  <2>1. all # <<>> /\ Stream(all, due)
    BY <1>1, <1>2
  <2> HIDE DEF all
  <2>2. \E p, x, r, y : Carries(p, x) /\ Stream(r, y) /\ all = p \o r /\ due = x \o y
    BY <2>1, StreamStarts
  <2> QED  BY <2>2 DEF all
<1>4. r \in Seq(Nat) /\ y \in Seq(Seq(Nat)) /\ x \in Seq(Seq(Nat))
  BY <1>3, StreamIsBytes, CarriesBytes
<1>5. CASE \E text \in Seq(Nat) : p = Packet(PUBLISH, PublishBody(TOPIC_UPLINK, text)) /\ x = <<text>>
  <2>1. PICK text \in Seq(Nat) : p = Packet(PUBLISH, PublishBody(TOPIC_UPLINK, text)) /\ x = <<text>>
    BY <1>5
  <2> DEFINE body == PublishBody(TOPIC_UPLINK, text)
  <2>2. body \in Seq(Nat) /\ PUBLISH \in Nat /\ Type(PUBLISH) = 3
    BY UplinkBodies DEF PUBLISH, Type
  <2>3. p = Packet(PUBLISH, body)
    BY <2>1
  <2> HIDE DEF body
  <2>4. ReadPacket(Got, cap) = Whole(PUBLISH, body) /\ Tail(wire) = r
    BY <1>3, <1>4, <2>2, <2>3, PacketReached
  <2>5. ReadPublish(Got, cap) = [tag |-> "Publish", topic |-> TOPIC_UPLINK, text |-> text]
    BY <2>4, UplinkIsRead DEF body, Whole
  <2>6. Type(ReadPacket(Got, cap).first) = 3
    BY <2>2, <2>4 DEF Whole
  <2>7. given = Append(taken, text) \o y
    <3>1. Append(taken, text) = taken \o <<text>>
      <4> DEFINE U == Seq(Nat)
      <4>1. taken \in Seq(U) /\ text \in U
        BY <1>2
      <4> HIDE DEF U
      <4> QED  BY <4>1, AppendIsConcat
    <3>2. given = taken \o (x \o y)
      BY <1>1, <1>3
    <3>3. (taken \o x) \o y = taken \o (x \o y)
      BY <1>2, <1>4, JoinsAgain
    <3>4. Append(taken, text) = taken \o x
      BY <2>1, <3>1
    <3> QED  BY <3>2, <3>3, <3>4, Zenon
  <2> QED  BY <1>3, <2>4, <2>5, <2>6, <2>7
<1>6. CASE \E first \in Nat, body \in Seq(Nat) : Type(first) # 3 /\ p = Packet(first, body) /\ x = <<>>
  <2>1. PICK first \in Nat, body \in Seq(Nat) : Type(first) # 3 /\ p = Packet(first, body) /\ x = <<>>
    BY <1>6
  <2>2. ReadPacket(Got, cap) = Whole(first, body) /\ Tail(wire) = r
    BY <1>3, <1>4, <2>1, PacketReached
  <2>3. Type(ReadPacket(Got, cap).first) # 3
    BY <2>1, <2>2 DEF Whole
  <2>4. given = taken \o y
    BY <1>1, <1>3, <1>4, <2>1, ConcatEmptySeq
  <2> QED  BY <1>3, <2>2, <2>3, <2>4
<1> QED  BY <1>3, <1>5, <1>6 DEF Carries

\* Nothing of a stream is touched.
LEMMA StreamKept ==
  ASSUME StreamInv, UNCHANGED <<rx, wire, given, taken>>, torn' = FALSE => torn = FALSE, torn' \in BOOLEAN
  PROVE  StreamInv'
<1>1. rx' = rx /\ wire' = wire /\ given' = given /\ taken' = taken /\ (~torn' => ~torn)
  OBVIOUS
<1> QED  BY <1>1 DEF StreamInv

\* A new connection begins with an empty one.
LEMMA StreamEnds ==
  ASSUME SessionEnds
  PROVE  StreamInv'
<1>1. rx' = <<>> /\ wire' = <<>> /\ given' = <<>> /\ taken' = <<>>
  BY DEF SessionEnds
<1>2. <<>> \in Seq(Seq(Nat)) /\ <<>> \o <<>> = <<>>
  BY EmptySeq
<1>3. Stream(rx' \o wire', <<>>) /\ given' = taken' \o <<>>
  BY <1>1, <1>2, StreamEmpty
<1>4. given' \in Seq(Seq(Nat)) /\ taken' \in Seq(Seq(Nat))
  BY <1>1, <1>2
<1> QED  BY <1>3, <1>4 DEF StreamInv

LEMMA StreamWaits ==
  ASSUME HandshakeInv, StreamInv, Waits, wire # <<>>
  PROVE  StreamInv'
<1>1. /\ rx' = Got /\ wire' = Tail(wire) /\ given' = given /\ taken' = taken /\ torn' = torn
      /\ rx \in Seq(Nat) /\ wire \in Seq(Nat)
  BY DEF Waits, HandshakeInv
<1>2. rx' \o wire' = rx \o wire
  BY <1>1, ByteMoves
<1> QED  BY <1>1, <1>2 DEF StreamInv

\* What a read takes off the stream it adds to the texts taken, and only that.
LEMMA StreamConsumes ==
  ASSUME HandshakeInv, StreamInv, Consumes, wire # <<>>, torn \in BOOLEAN, taken' \in Seq(Seq(Nat)),
         ~torn => \E y : Stream(Tail(wire), y) /\ given = taken' \o y
  PROVE  StreamInv'
<1>1. rx' = <<>> /\ wire' = Tail(wire) /\ given' = given /\ torn' = torn /\ given \in Seq(Seq(Nat))
  BY DEF Consumes, StreamInv
<1>2. rx' \o wire' = Tail(wire)
  <2>1. Tail(wire) \in Seq(Nat)
    BY ByteMoves DEF HandshakeInv
  <2> QED  BY <1>1, <2>1, ConcatEmptySeq
<1> QED  BY <1>1, <1>2 DEF StreamInv

LEMMA StreamSends ==
  ASSUME HandshakeInv, StreamInv, NEW p, NEW x, Carries(p, x), Sends(p), given' = given \o x,
         UNCHANGED <<rx, taken, torn>>
  PROVE  StreamInv'
<1>1. /\ wire' = wire \o p /\ rx' = rx /\ taken' = taken /\ torn' = torn
      /\ given \in Seq(Seq(Nat)) /\ taken \in Seq(Seq(Nat)) /\ rx \in Seq(Nat) /\ wire \in Seq(Nat)
  BY DEF Sends, StreamInv, HandshakeInv
<1>2. p \in Seq(Nat) /\ x \in Seq(Seq(Nat))
  BY CarriesBytes
<1>3. given' \in Seq(Seq(Nat))
  BY <1>1, <1>2, ConcatProperties
<1>4. ASSUME ~torn PROVE \E due : Stream(rx' \o wire', due) /\ given' = taken' \o due
  <2>1. PICK due : Stream(rx \o wire, due) /\ given = taken \o due
    BY <1>4 DEF StreamInv
  <2>2. due \in Seq(Seq(Nat))
    BY <2>1, StreamIsBytes
  <2>3. Stream((rx \o wire) \o p, due \o x)
    <3> DEFINE all == rx \o wire
    <3>1. Stream(all, due)
      BY <2>1
    <3> HIDE DEF all
    <3>2. Stream(all \o p, due \o x)
      BY <3>1, StreamGrows
    <3> QED  BY <3>2 DEF all
  <2>4. rx' \o wire' = (rx \o wire) \o p
    <3>1. (rx \o wire) \o p = rx \o (wire \o p)
      BY <1>1, <1>2, BytesJoinAgain
    <3> QED  BY <1>1, <3>1
  <2>5. given' = taken' \o (due \o x)
    <3>1. (taken \o due) \o x = taken \o (due \o x)
      BY <1>1, <1>2, <2>2, JoinsAgain
    <3> QED  BY <1>1, <2>1, <3>1
  <2> QED  BY <2>3, <2>4, <2>5
<1>5. ~torn' => \E due : Stream(rx' \o wire', due) /\ given' = taken' \o due
  <2>1. ~torn' => ~torn
    BY <1>1
  <2> QED  BY <1>4, <2>1
<1>6. taken' \in Seq(Seq(Nat))
  BY <1>1
<1> QED  BY <1>3, <1>5, <1>6 DEF StreamInv

\* What the broker answers carries no text, and what it publishes carries one.
LEMMA AnswersStream ==
  ASSUME IInv, HandshakeInv, StreamInv, BrokerAnswers
  PROVE  StreamInv'
<1>1. owed # <<>> /\ UNCHANGED <<rx, torn, given, taken>>
  BY DEF BrokerAnswers
<1>2. PICK first \in Nat, body \in Seq(Nat) : Type(first) # 3 /\ Sends(Packet(first, body))
  <2>1. CONNACK \in Nat /\ SUBACK \in Nat /\ PINGRESP \in Nat
        /\ Type(CONNACK) # 3 /\ Type(SUBACK) # 3 /\ Type(PINGRESP) # 3
    BY DEF CONNACK, SUBACK, PINGRESP, Type
  <2>2. CASE Accepts
    <3>1. CASE Head(owed) = "CONNECT"
      <4>1. Sends(Packet(CONNACK, <<0, 0>>))
        BY <2>2, <3>1 DEF Accepts
      <4> QED  BY <2>1, <4>1, <<0, 0>> \in Seq(Nat)
    <3>2. CASE Head(owed) = "SUBSCRIBE"
      <4>1. Sends(Packet(SUBACK, <<0, 1, 0>>))
        BY <2>2, <3>2 DEF Accepts
      <4> QED  BY <2>1, <4>1, <<0, 1, 0>> \in Seq(Nat)
    <3>3. CASE Head(owed) = "PINGREQ"
      <4>1. Sends(Packet(PINGRESP, <<>>))
        BY <2>2, <3>3 DEF Accepts
      <4> QED  BY <2>1, <4>1, <<>> \in Seq(Nat)
    <3> QED  BY <1>1, <3>1, <3>2, <3>3, OwedIsKnown
  <2>3. CASE Refuses
    <3>1. CASE Sends(Packet(CONNACK, <<0, 5>>))
      BY <2>1, <3>1, <<0, 5>> \in Seq(Nat)
    <3>2. CASE Sends(Packet(SUBACK, <<0, 1, 128>>))
      BY <2>1, <3>2, <<0, 1, 128>> \in Seq(Nat)
    <3> QED  BY <2>3, <3>1, <3>2 DEF Refuses
  <2> QED  BY <2>2, <2>3 DEF BrokerAnswers
<1>3. Carries(Packet(first, body), <<>>)
  BY <1>2, Zenon DEF Carries
<1>4. given' = given \o <<>>
  BY <1>1, ConcatEmptySeq DEF StreamInv
<1> QED  BY <1>1, <1>2, <1>3, <1>4, StreamSends

LEMMA PublishesStream ==
  ASSUME HandshakeInv, StreamInv, BrokerPublishes
  PROVE  StreamInv'
<1> DEFINE text == Head(texts)
<1>1. /\ texts # <<>> /\ Sends(Packet(PUBLISH, PublishBody(TOPIC_UPLINK, text)))
      /\ given' = Append(given, text) /\ UNCHANGED <<rx, torn, taken>>
  BY DEF BrokerPublishes
<1>2. text \in Seq(Nat)
  <2>1. texts \in Seq(Seq(Nat))
    BY DEF HandshakeInv
  <2> QED  BY <1>1, <2>1, HeadTailProperties
<1> HIDE DEF text
<1>3. Carries(Packet(PUBLISH, PublishBody(TOPIC_UPLINK, text)), <<text>>)
  BY <1>2, Zenon DEF Carries
<1>4. given' = given \o <<text>>
  <2> DEFINE U == Seq(Nat)
  <2>1. given \in Seq(U) /\ text \in U
    BY <1>2 DEF StreamInv
  <2> HIDE DEF U
  <2> QED  BY <1>1, <2>1, AppendIsConcat
<1> QED  BY <1>1, <1>3, <1>4, StreamSends

\* The answers to CONNECT and SUBSCRIBE carry no text.
LEMMA HandshakeStream ==
  ASSUME IInv, HandshakeInv, StreamInv, torn \in BOOLEAN, ReadsConnack \/ ReadsSuback
  PROVE  StreamInv'
<1>1. wire # <<>> /\ (rx # <<>> => ReadPacket(rx, Buffer) = Pending)
  BY DEF ReadsConnack, ReadsSuback, IInv, SessionInv
<1>2. CASE Waits
  BY <1>1, <1>2, StreamWaits
<1>3. CASE Fails
  BY <1>3, StreamEnds DEF Fails
<1>4. CASE Consumes /\ taken' = taken
           /\ ReadPacket(Got, Buffer).tag = "Packet" /\ Type(ReadPacket(Got, Buffer).first) # 3
  <2>1. taken' \in Seq(Seq(Nat))
    BY <1>4 DEF StreamInv
  <2>2. ASSUME ~torn PROVE \E y : Stream(Tail(wire), y) /\ given = taken' \o y
    <3>1. PICK y : Stream(Tail(wire), y) /\ (Type(ReadPacket(Got, Buffer).first) = 3 \/ given = taken \o y)
      BY <1>1, <1>4, <2>2, StreamRead
    <3> QED  BY <1>4, <3>1
  <2> QED  BY <1>1, <1>4, <2>1, <2>2, StreamConsumes
<1>5. CASE ReadsConnack
  <2> DEFINE p == ReadPacket(Got, CONNACK_BUF)
  <2>1. Buffer = CONNACK_BUF
    BY <1>5 DEF ReadsConnack, Buffer
  <2>2. Connected(p) => p.tag = "Packet" /\ Type(p.first) # 3
    BY DEF Connected
  <2> HIDE DEF p
  <2>3. Waits \/ Fails \/ (Connected(p) /\ Consumes /\ taken' = taken)
    BY <1>5, Zenon DEF ReadsConnack, p
  <2> QED  BY <1>2, <1>3, <1>4, <2>1, <2>2, <2>3, Zenon DEF p
<1>6. CASE ReadsSuback
  <2> DEFINE p == ReadPacket(Got, SUBACK_BUF)
  <2>1. Buffer = SUBACK_BUF
    BY <1>6 DEF ReadsSuback, Buffer
  <2>2. Subscribed(p) => p.tag = "Packet" /\ Type(p.first) # 3
    BY DEF Subscribed
  <2> HIDE DEF p
  <2>3. Waits \/ Fails \/ (Subscribed(p) /\ Consumes /\ taken' = taken)
    BY <1>6, Zenon DEF ReadsSuback, p
  <2> QED  BY <1>2, <1>3, <1>4, <2>1, <2>2, <2>3, Zenon DEF p
<1> QED  BY <1>5, <1>6

\* A message that is read is the next one published; what else is read is none.
LEMMA MessageStream ==
  ASSUME IInv, HandshakeInv, StreamInv, torn \in BOOLEAN, ReadsPublish
  PROVE  StreamInv'
<1> DEFINE p == ReadPublish(Got, PKT_BUF)
           q == ReadPacket(Got, PKT_BUF)
           wanted == p.tag = "Publish" /\ p.topic = TOPIC_UPLINK
<1>1. wire # <<>> /\ (rx # <<>> => ReadPacket(rx, PKT_BUF) = Pending)
  BY DEF ReadsPublish, IInv, SessionInv, Buffer
<1>2. \/ Waits \/ Fails
      \/ wanted /\ Consumes /\ taken' = Append(taken, p.text)
      \/ p.tag \in {"Publish", "Ignored"} /\ ~wanted /\ Consumes /\ taken' = taken
  BY Zenon DEF ReadsPublish
<1>3. p.tag \in {"Publish", "Ignored"} => q.tag = "Packet" /\ (p.tag = "Publish" => Type(q.first) = 3)
  <2>1. CASE q.tag # "Packet"
    <3>1. p = q
      BY <2>1, Zenon DEF ReadPublish
    <3>2. q \in {Pending, Error}
      BY <2>1, Zenon DEF ReadPacket
    <3> HIDE DEF p, q
    <3> QED  BY <3>1, <3>2 DEF Pending, Error
  <2>2. CASE q.tag = "Packet" /\ Type(q.first) # 3
    <3>1. p = [tag |-> "Ignored"]
      BY <2>2, Zenon DEF ReadPublish
    <3> HIDE DEF p, q
    <3> QED  BY <2>2, <3>1
  <2>3. CASE q.tag = "Packet" /\ Type(q.first) = 3
    BY <2>3
  <2> QED  BY <2>1, <2>2, <2>3
<1>4. CASE Waits
  BY <1>1, <1>4, StreamWaits
<1>5. CASE Fails
  BY <1>5, StreamEnds DEF Fails
<1>6. ASSUME ~torn, q.tag = "Packet"
      PROVE  \E y : /\ Stream(Tail(wire), y)
                    /\ \/ /\ p.tag = "Publish" /\ p.topic = TOPIC_UPLINK /\ p.text \in Seq(Nat)
                          /\ Type(q.first) = 3 /\ given = Append(taken, p.text) \o y
                       \/ Type(q.first) # 3 /\ given = taken \o y
  <2>1. PICK y : /\ Stream(Tail(wire), y)
                 /\ \/ \E text \in Seq(Nat) :
                         /\ p = [tag |-> "Publish", topic |-> TOPIC_UPLINK, text |-> text]
                         /\ Type(q.first) = 3
                         /\ given = Append(taken, text) \o y
                    \/ Type(q.first) # 3 /\ given = taken \o y
    BY <1>1, <1>6, StreamRead
  <2> HIDE DEF p, q
  <2> QED  BY <2>1
<1>7. CASE wanted /\ Consumes /\ taken' = Append(taken, p.text)
  <2>1. taken' \in Seq(Seq(Nat))
    <3>1. p.text \in Seq(Nat)
      <4>1. Got \in Seq(Nat)
        BY <1>1, ByteMoves DEF HandshakeInv
      <4> QED  BY <1>7, <4>1, TextRead
    <3>2. taken \in Seq(Seq(Nat))
      BY DEF StreamInv
    <3> HIDE DEF p
    <3> QED  BY <1>7, <3>1, <3>2
  <2>2. ASSUME ~torn PROVE \E y : Stream(Tail(wire), y) /\ given = taken' \o y
    <3>1. q.tag = "Packet" /\ Type(q.first) = 3
      BY <1>3, <1>7
    <3> HIDE DEF p, q
    <3> QED  BY <1>6, <1>7, <2>2, <3>1
  <2> QED  BY <1>1, <1>7, <2>1, <2>2, StreamConsumes
<1>8. CASE p.tag \in {"Publish", "Ignored"} /\ ~wanted /\ Consumes /\ taken' = taken
  <2>1. taken' \in Seq(Seq(Nat))
    BY <1>8 DEF StreamInv
  <2>2. ASSUME ~torn PROVE \E y : Stream(Tail(wire), y) /\ given = taken' \o y
    <3>1. q.tag = "Packet"
      BY <1>3, <1>8
    <3> HIDE DEF p, q
    <3> QED  BY <1>6, <1>8, <2>2, <3>1
  <2> QED  BY <1>1, <1>8, <2>1, <2>2, StreamConsumes
<1> QED  BY <1>2, <1>4, <1>5, <1>7, <1>8, Zenon

LEMMA StreamInit == Init => StreamInv /\ torn \in BOOLEAN
<1> SUFFICES ASSUME Init PROVE StreamInv /\ torn \in BOOLEAN
  OBVIOUS
<1>1. rx = <<>> /\ wire = <<>> /\ given = <<>> /\ taken = <<>> /\ torn = FALSE
  BY DEF Init, LinkInit
<1>2. <<>> \in Seq(Seq(Nat)) /\ <<>> \o <<>> = <<>>
  BY EmptySeq
<1>3. Stream(rx \o wire, <<>>) /\ given = taken \o <<>>
  BY <1>1, <1>2, StreamEmpty
<1>4. given \in Seq(Seq(Nat)) /\ taken \in Seq(Seq(Nat))
  BY <1>1, <1>2
<1> QED  BY <1>1, <1>3, <1>4 DEF StreamInv

LEMMA TornIsTruth == torn \in BOOLEAN /\ [Next]_vars => torn' \in BOOLEAN
<1> SUFFICES ASSUME torn \in BOOLEAN, [Next]_vars PROVE torn' \in BOOLEAN
  OBVIOUS
<1>1. ASSUME DropsRead PROVE torn' \in BOOLEAN
  BY <1>1 DEF DropsRead
<1>2. ASSUME SessionEnds PROVE torn' \in BOOLEAN
  BY <1>2 DEF SessionEnds
<1>3. CASE torn' = torn
  BY <1>3
<1>4. CASE SocketFails
  BY <1>2, <1>4 DEF SocketFails
<1>5. CASE Reads
  BY <1>2, <1>3, <1>5, Zenon
    DEF Reads, ReadsConnack, ReadsSuback, ReadsPublish, Waits, Fails, Consumes
<1>6. CASE Publishes
  BY <1>1, <1>2, <1>6 DEF Publishes
<1>7. CASE Pings
  BY <1>1, <1>7 DEF Pings
<1>8. CASE TcpConnects \/ BrokerAnswers \/ BrokerPublishes \/ UNCHANGED linkVars
  BY <1>8 DEF TcpConnects, BrokerAnswers, BrokerPublishes, linkVars
<1> QED  BY <1>4, <1>5, <1>6, <1>7, <1>8 DEF Next, LinkStep, vars

LEMMA StreamNext ==
  ASSUME IInv, HandshakeInv, StreamInv, torn \in BOOLEAN, [Next]_vars, torn' \in BOOLEAN
  PROVE  StreamInv'
<1>1. ASSUME DropsRead, UNCHANGED <<wire, given, taken>> PROVE StreamInv'
  <2>1. CASE rx = <<>>
    <3>1. rx' = rx
      BY <1>1, <2>1 DEF DropsRead
    <3>2. torn' = FALSE => torn = FALSE
      BY <1>1 DEF DropsRead
    <3> QED  BY <1>1, <3>1, <3>2, StreamKept
  <2>2. CASE rx # <<>>
    <3>1. torn' = TRUE
      BY <1>1, <2>2 DEF DropsRead
    <3> QED  BY <1>1, <3>1 DEF StreamInv
  <2> QED  BY <2>1, <2>2
<1>2. CASE UNCHANGED linkVars
  BY <1>2, StreamKept DEF linkVars
<1>3. CASE TcpConnects
  BY <1>3, StreamKept DEF TcpConnects
<1>4. CASE SocketFails
  BY <1>4, StreamEnds DEF SocketFails
<1>5. CASE Reads
  BY <1>5, HandshakeStream, MessageStream DEF Reads
<1>6. CASE Publishes
  BY <1>1, <1>6, StreamEnds DEF Publishes
<1>7. CASE Pings
  BY <1>1, <1>7 DEF Pings
<1>8. CASE BrokerAnswers
  BY <1>8, AnswersStream
<1>9. CASE BrokerPublishes
  BY <1>9, PublishesStream
<1> QED  BY <1>2, <1>3, <1>4, <1>5, <1>6, <1>7, <1>8, <1>9 DEF Next, LinkStep, vars

LEMMA StreamInvariant == Spec => []StreamInv
<1> DEFINE Truth == torn \in BOOLEAN
<1>1. Init => StreamInv /\ Truth
  BY StreamInit
<1>2. Truth /\ [Next]_vars => Truth'
  BY TornIsTruth
<1>3. IInv /\ HandshakeInv /\ StreamInv /\ Truth /\ [Next]_vars /\ Truth' => StreamInv'
  BY StreamNext
<1> HIDE DEF Truth
<1> QED  BY <1>1, <1>2, <1>3, SessionsInvariant, HandshakeInvariant, PTL DEF Spec

\* The texts of a connection are read in the order they were published, none garbled and
\* none skipped, as long as no read was dropped half way: read_packet finds every packet
\* where the one before it ends, and once the bytes are read so are the texts.
THEOREM UplinksStayInOrder == Spec => []UplinksInOrder
<1>1. ASSUME IInv, HandshakeInv, StreamInv, ~torn
      PROVE  Seqs!IsPrefix(taken, given) /\ (session = "steady" /\ wire = <<>> => taken = given)
  <2>1. PICK due : Stream(rx \o wire, due) /\ given = taken \o due
    BY <1>1 DEF StreamInv
  <2>2. due \in Seq(Seq(Nat)) /\ taken \in Seq(Seq(Nat)) /\ given \in Seq(Seq(Nat))
    BY <1>1, <2>1, StreamIsBytes DEF StreamInv
  <2>3. Seqs!IsPrefix(taken, given)
    <3> DEFINE n == Len(taken)
    <3>1. n \in Nat /\ Len(due) \in Nat
      BY <2>2
    <3>2. Len(taken \o due) = n + Len(due) /\ \A k \in 1 .. n : (taken \o due)[k] = taken[k]
      <4>1. IsSequence(taken) /\ IsSequence(due)
        BY <2>2 DEF IsSequence
      <4> QED  BY <4>1, SequencesJoin
    <3>3. Len(given) = n + Len(due) /\ \A k \in 1 .. n : given[k] = taken[k]
      BY <2>1, <3>2
    <3>4. n <= Len(given)
      BY <3>1, <3>3
    <3>5. SubSeq(taken, 1, n) = [k \in 1 .. n |-> taken[k]] /\ SubSeq(given, 1, n) = [k \in 1 .. n |-> given[k]]
      <4> HIDE DEF n
      <4> QED  BY <2>2, <3>1
    <3>6. SubSeq(taken, 1, n) = SubSeq(given, 1, n)
      <4> HIDE DEF n
      <4> QED  BY <3>3, <3>5
    <3> QED  BY <3>4, <3>6 DEF Seqs!IsPrefix
  <2>4. ASSUME session = "steady", wire = <<>> PROVE taken = given
    <3>1. rx \o wire = rx /\ rx \in Seq(Nat)
      BY <1>1, <2>4, ConcatEmptySeq DEF HandshakeInv
    <3>2. CASE rx = <<>>
      <4>1. Stream(<<>>, due)
        BY <2>1, <3>1, <3>2
      <4>2. due = <<>>
        BY <4>1, StreamStarts
      <4> QED  BY <2>1, <2>2, <4>2, ConcatEmptySeq
    <3>3. CASE rx # <<>>
      <4>1. ReadPacket(rx, Buffer) = Pending
        BY <1>1, <3>3 DEF IInv, SessionInv
      <4>2. Stream(rx, due)
        BY <2>1, <3>1
      <4>3. PICK p, x, r, y : Carries(p, x) /\ Stream(r, y) /\ rx = p \o r
        BY <3>3, <4>2, StreamStarts
      <4>4. PICK first \in Nat, body \in Seq(Nat) : p = Packet(first, body)
        <5>1. PUBLISH \in Nat /\ \A text \in Seq(Nat) : PublishBody(TOPIC_UPLINK, text) \in Seq(Nat)
          BY UplinkBodies DEF PUBLISH
        <5> QED  BY <4>3, <5>1 DEF Carries
      <4>5. /\ IsSequence(p) /\ IsSequence(r) /\ Len(p) \in Nat /\ Len(r) \in Nat
        BY <4>3, CarriesBytes, StreamIsBytes DEF IsSequence
      <4>6. Len(rx) = Len(p) + Len(r) /\ \A k \in 1 .. Len(p) : rx[k] = p[k]
        BY <4>3, <4>5, SequencesJoin
      <4>7. \A k \in 1 .. Len(rx) : k <= Len(p) => rx[k] = p[k]
        BY <4>5, <4>6
      <4>8. Reading(rx, Buffer, p, first, body)
        BY <3>1, <3>3, <4>4, <4>7, PacketIsRead
      <4>9. Len(rx) < Len(p)
        BY <4>1, <4>8 DEF Reading
      <4> QED  BY <4>5, <4>6, <4>9
    <3> QED  BY <3>2, <3>3
  <2> QED  BY <2>3, <2>4
<1>2. IInv /\ HandshakeInv /\ StreamInv => UplinksInOrder
  BY <1>1 DEF UplinksInOrder
<1> QED  BY <1>2, SessionsInvariant, HandshakeInvariant, StreamInvariant, PTL

=============================================================================

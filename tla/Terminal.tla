-------------------------------- MODULE Terminal --------------------------------
(***************************************************************************)
(* The Cardputer as a whole: the bridge and its radio, keyboard and        *)
(* display tasks (BridgeTasks) joined with the MQTT task and its broker    *)
(* (MqttTask).                                                             *)
(***************************************************************************)
EXTENDS MqttTask

CONSTANT Scenario   \* what happens around it: [heard, typed, echoes, online, texts, pings, faults]

\* What a frame decodes to: any message, with a header of numbers if it is a slice.
IsMessage(m) ==
  /\ m = [Prepare(m.id, m.ttl, m.origin, m.from, m.to, m.kind, m.payload) EXCEPT !.frag = m.frag]
  /\ m.payload \in Seq(Nat)
  /\ m.frag # NoFrag => m.frag.seq \in Nat /\ m.frag.total \in Nat

\* The texts of the outside world, and what the mesh itself sends, can be told apart.
Outside == UNION {Ext!ToSet(s.texts) : s \in Scenario}
ASSUME ScenarioAssumption ==
  \A s \in Scenario :
    /\ s.typed \in Seq(Seq(Nat)) /\ s.texts \in Seq(Seq(Nat))
    /\ Ext!ToSet(s.typed) \cap Outside = {}
    /\ \A x \in s.heard : x[1] \in Radio /\ IsMessage(x[2]) /\ x[2].payload \notin Outside

Init ==
  \E s \in Scenario :
    BridgeInit(s.heard, s.typed, s.echoes) /\ LinkInit(s.online, s.texts, s.pings, s.faults)

BridgeStep ==
  BridgeTurn \/ UiLoop \/ LoraLoop \/ EspNowLoop \/ Pushes("Mqtt")

LinkStep ==
  \/ TcpConnects \/ SocketFails
  \/ Reads \/ Publishes \/ Pings
  \/ BrokerAnswers \/ BrokerPublishes

Next == (BridgeStep /\ UNCHANGED linkVars) \/ LinkStep

\* Each future of the join is polled whenever one of them can go on, so whatever a
\* task can do, and can do for good, it does.  Nothing is assumed of the air, the user,
\* the broker or the connection to it.  (Only BridgeTurn shortens inbound, and it can
\* whenever TakesInbound can: the first conjunct is weak fairness of BridgeTurn.)
Fairness ==
  /\ WF_inbound(TakesInbound)
  /\ \A t \in Transport : WF_vars(Pushes(t) /\ UNCHANGED linkVars)
  /\ \A t \in Radio : WF_vars(Transmits(t) /\ UNCHANGED linkVars)
  /\ WF_vars(Publishes)

Spec == Init /\ [][Next]_vars /\ Fairness

-----------------------------------------------------------------------------

\* Every queue keeps to its capacity, however many tasks wait to fill it and whoever
\* fails to drain it.
TerminalInv ==
  /\ Len(inbound) <= QUEUE /\ ui <= QUEUE
  /\ \A t \in Transport : Len(out[t]) <= QUEUE
  /\ session \in {"offline", "down", "connecting", "subscribing", "steady"}

\* The buffer of the read in progress.
Buffer == IF session = "connecting" THEN CONNACK_BUF
          ELSE IF session = "subscribing" THEN SUBACK_BUF ELSE PKT_BUF

\* Nothing of one connection is left for the next; no answer is read before its request
\* was sent and answered; a packet that has come in completely is never left unread; and
\* while the task is stuck with a text it reads nothing further.
SessionInv ==
  /\ ~Up => wire = <<>> /\ rx = <<>> /\ owed = <<>> /\ ~subscribed /\ given = <<>> /\ taken = <<>>
  /\ session = "connecting" => ~subscribed /\ (owed # <<>> => owed = <<"CONNECT">> /\ wire = <<>> /\ rx = <<>>)
  /\ rx # <<>> => ReadPacket(rx, Buffer) = Pending
  /\ hand["Mqtt"] # Nothing => session = "steady" /\ rx = <<>>

\* The handshake is over before the event loop begins: once the session is steady the
\* broker owes answers to pings only, also if it sends messages before the SUBACK.
HandshakeFirst == session = "steady" => Ext!ToSet(owed) \subseteq {"PINGREQ"}

\* All that was ever taken into a queue, in order.
Accepted(t) == left[t] \o [k \in DOMAIN out[t] |-> out[t][k].message]

\* A full queue cuts a plan short at its end: slice k of a message never leaves
\* without slice k - 1 of the same split right before it.
SlicesLeaveInOrder ==
  \A t \in Transport : \A k \in DOMAIN Accepted(t) :
    LET slice == Accepted(t)[k]
    IN  slice.frag # NoFrag /\ slice.frag.seq # 0 =>
          k > 1 /\ Accepted(t)[k - 1] = [slice EXCEPT !.payload = Accepted(t)[k - 1].payload,
                                                     !.frag.seq = @ - 1]

Label(msg) == <<msg.id, IF msg.frag = NoFrag THEN 0 ELSE msg.frag.seq>>

\* The topic convention's promise, no self-echo loops through the broker, and the same
\* of the radios: what came from the broker is never published to it, and what others
\* sent leaves at most once on each transport, although it comes over both radios, whole
\* and in slices, and neighbours send back what they heard.
ForwardedOnce ==
  /\ \A k \in DOMAIN Accepted("Mqtt") : Accepted("Mqtt")[k].payload \notin Outside
  /\ \A t \in Transport : \A j, k \in DOMAIN Accepted(t) :
       LET msg == Accepted(t)[j]
       IN  msg.from # CARD_ADDR /\ Label(msg) = Label(Accepted(t)[k]) => j = k

\* A text from the broker enters the mesh: whatever was heard, sent and sent back before,
\* the engine does not take it for a duplicate when its turn comes.
UplinksAreNew ==
  LET new(msg) == ~Contains(relay.seen, DedupKey(msg))
  IN  /\ hand["Mqtt"] # Nothing => new(hand["Mqtt"])
      /\ \A k \in DOMAIN inbound : inbound[k].source = "Mqtt" => new(inbound[k].frame)

\* As long as no read was dropped half way, the texts of a connection are read in the
\* order they were published, none garbled and none skipped: once all bytes are read,
\* all texts are.
UplinksInOrder ==
  ~torn =>
    /\ Seqs!IsPrefix(taken, given)
    /\ session = "steady" /\ wire = <<>> => taken = given

\* The same of every connection that lasts: read_publish reads one MQTT packet.
ReadsStayInStep == Seqs!IsPrefix(taken, given)

\* Nothing waits for ever on a full queue, broker or no broker: what tasks hold and what
\* the bridge planned for the radios goes on its way.
Flowing ==
  /\ inbound = <<>> /\ \A t \in Transport : hand[t] = Nothing
  /\ \A t \in Radio : out[t] = <<>>
RadiosDrain == <>[]Flowing

\* The broker takes connections, answers requests, and what it sent arrives or the
\* connection ends.
Arrives == AtSocket /\ wire # <<>> /\ wire' \in {Tail(wire), <<>>}
BrokerReachable == WF_vars(TcpConnects) /\ WF_owed(BrokerAnswers) /\ WF_wire(Arrives)

\* With such a broker the terminal ends up in a session and publishes what waited for
\* it, whatever was refused, broken off or misread before.
Serving == session = "steady" /\ out["Mqtt"] = <<>>
SessionRecovers == BrokerReachable => <>[](session = "offline" \/ Serving)

=============================================================================

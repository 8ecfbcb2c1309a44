-------------------------------- MODULE Mesh --------------------------------
(***************************************************************************)
(* Several nodes, each with a relay engine, joined by lossy links.  A      *)
(* bridge is a Cardputer with its queues left out (Terminal has them); a   *)
(* responder is a LoRa node; any other node is a peer that only ingests.   *)
(* A node handles one frame at a time.                                     *)
(*                                                                         *)
(* A link carries the frames of one sender over one transport to one       *)
(* receiver, in order, and may lose any of them.  A node's address is the  *)
(* node itself.                                                            *)
(***************************************************************************)
EXTENDS Forwarding, LoraNode

CONSTANTS
  Node,
  Bridge,        \* the Cardputers
  Responder,     \* the LoRa nodes
  IdBase,        \* [Node -> Nat], the id_base each firmware is built with
  Link,          \* <<transport, sender, receiver>>: who hears whom
  Letter,        \* what nodes may send: [from, to, kind, payload], pongs included
  Scenario,      \* what a behaviour starts from: [letters sent unasked, links that are up]
  MAX_REBOOTS    \* bound

Address(x) == <<x.from, x.to, x.payload>>

ASSUME MeshAssumption ==
  /\ Bridge \cup Responder \subseteq Node /\ Bridge \cap Responder = {}
  /\ Link \subseteq Transport \X Node \X Node
  /\ BROADCAST_ADDR \notin Node
  /\ \A l \in Letter : l.from \in Node /\ FitsMessage(l.payload)
  /\ \A k, l \in Letter : Address(k) = Address(l) => k = l
  /\ \A s \in Scenario : s.letters \subseteq Letter /\ s.links \subseteq Link

VARIABLES
  relay,    \* [Node -> engine]
  air,      \* [links that are up -> the frames on their way]
  unsent,   \* letters still to be sent
  sent,     \* letters that were sent
  handled,  \* history: [Node -> [Letter -> how often a letter was handed up there (0 .. 2)]]
  lossy,    \* history: a frame was lost
  reboots   \* history: how many reboots there were

vars == <<relay, air, unsent, sent, handled, lossy, reboots>>

\* What main / bridge_loop set up: an engine with its ports registered.
Boot(n) ==
  [NewRelay(n, IdBase[n]) EXCEPT !.registered = {l[1] : l \in {x \in Link : x[2] = n}}]

Init ==
  /\ relay = [n \in Node |-> Boot(n)]
  /\ \E s \in Scenario : air = [l \in s.links |-> <<>>] /\ unsent = s.letters
  /\ sent = {}
  /\ handled = [n \in Node |-> [l \in Letter |-> 0]]
  /\ lossy = FALSE /\ reboots = 0

\* LoRa is heard by all in range whatever the address; ESP-NOW unicasts to a MAC
\* and MQTT to a topic only their owner subscribes.
Reaches(t, addr, n) == t = "Lora" \/ addr \in {BROADCAST_ADDR, n}

Heard(link, frames) ==
  LET here == SelectSeq(frames, LAMBDA f : f.transport = link[1] /\ Reaches(link[1], f.addr, link[3]))
  IN  [k \in DOMAIN here |-> here[k].message]

Transmit(onAir, n, frames) ==
  [l \in DOMAIN onAir |-> IF l[2] = n THEN onAir[l] \o Heard(l, frames) ELSE onAir[l]]

\* A keyboard line, a heartbeat, or another program's call of the engine, unless the
\* engine refuses: a unicast waits until its receiver was heard.
Sends(letter) ==
  LET plan == PlanSend(relay[letter.from], letter.kind, letter.payload, letter.to)
  IN  /\ letter \in unsent /\ plan.err = "Ok"
      /\ unsent' = unsent \ {letter} /\ sent' = sent \cup {letter}
      /\ relay' = [relay EXCEPT ![letter.from] = plan.relay]
      /\ air' = Transmit(air, letter.from, plan.frames)
      /\ UNCHANGED <<handled, lossy, reboots>>

LetterOf(msg) == CHOOSE l \in Letter : Address(l) = Address(msg)

Counted(n, out) ==
  IF out.tag \notin {"Complete", "NotForMe"} THEN handled
  ELSE [handled EXCEPT ![n][LetterOf(out.msg)] = IF @ < 2 THEN @ + 1 ELSE @]

Kept(n, source, frame) ==
  LET got == IngestFrame(relay[n], source, frame)
  IN  [relay |-> got.relay, out |-> got.out, frames |-> <<>>]

\* What a node does with a frame: the engine, the outcome, the frames it sends.
Handles(n, source, frame) ==
  IF n \in Bridge THEN Bridged(relay[n], source, frame)
  ELSE IF n \in Responder THEN Answered(relay[n], source, frame)
  ELSE Kept(n, source, frame)

\* The frame is gone from the link, and the node has what it made of it.
Makes(n, link, got) ==
  /\ relay' = [relay EXCEPT ![n] = got.relay]
  /\ air' = Transmit([air EXCEPT ![link] = Tail(@)], n, got.frames)
  /\ handled' = Counted(n, got.out)
  /\ sent' = sent \cup {LetterOf(f.message) : f \in {x \in Ext!ToSet(got.frames) : x.message.from = n}}

Receives(link) ==
  /\ air[link] # <<>>
  /\ Makes(link[3], link, Handles(link[3], link[1], Head(air[link])))
  /\ UNCHANGED <<unsent, lossy, reboots>>

Loses(link) ==
  /\ air[link] # <<>>
  /\ air' = [air EXCEPT ![link] = Tail(@)]
  /\ lossy' = TRUE
  /\ UNCHANGED <<relay, unsent, sent, handled, reboots>>

\* A power cycle loses the whole engine: the id counter, the cache, the slots.
Reboots(n) ==
  /\ reboots < MAX_REBOOTS
  /\ reboots' = reboots + 1
  /\ relay' = [relay EXCEPT ![n] = Boot(n)]
  /\ UNCHANGED <<air, unsent, sent, handled, lossy>>

Next ==
  \/ \E letter \in Letter : Sends(letter)
  \/ \E link \in DOMAIN air : Receives(link) \/ Loses(link)
  \/ \E n \in Node : Reboots(n)

Spec == Init /\ [][Next]_vars

Quiet == \A l \in DOMAIN air : air[l] = <<>>

Moves == \E link \in DOMAIN air : Receives(link) \/ Loses(link)

\* A frame on its way is eventually received or lost: every radio and socket task of
\* the firmware is an endless loop the executor polls.  This is WF_vars(Moves) with its
\* ENABLED written out: Moves is enabled exactly when some link is not empty.
Fairness == []<>Quiet \/ []<><<Moves>>_vars

FairSpec == Spec /\ Fairness

-----------------------------------------------------------------------------

\* The ring of a node's cache has not wrapped yet.
NothingForgotten(n) == \E i \in Slot : ~relay[n].seen.valid[i]

\* The mesh does not loop: as long as no engine rebooted and a node's cache forgot
\* nothing, a letter is handed up there at most once, and so forwarded at most once,
\* over all paths and however its copies and the slices of several splits interleave.
HandledOnce ==
  reboots = 0 =>
    \A n \in Node : NothingForgotten(n) => \A l \in Letter : handled[n][l] <= 1

\* The hop budget ends what the caches miss: forwarding dies out even if caches are
\* too small or were lost in a reboot.
ForwardingDiesOut == <>[]Quiet

Whole(l) == \A t \in Transport : Len(l.payload) <= Mtu(t)
InReach == {link[3] : link \in DOMAIN air}
Addressees(l) == IF l.to = BROADCAST_ADDR THEN InReach \ {l.from} ELSE {l.to}
Arrived(l) == \A n \in Addressees(l) : handled[n][l] >= 1

Undisturbed == Quiet /\ ~lossy /\ reboots = 0

\* Without loss or reboots a letter no transport splits reaches everyone it is for:
\* a broadcast by whichever path and although the copies that come first suppress all
\* later ones, a unicast over a route learnt from frames that a bridge passed on.
WholeLettersArrive ==
  Undisturbed =>
    \A l \in sent : Whole(l) => Arrived(l)

\* Then every ping gets its answer: each LoRa node it is for answers, and the answer
\* finds its way back to whoever asked, also when the node's receiver table was full
\* before the ping came.
PingsAnswered ==
  Undisturbed =>
    \A l \in sent : l.kind = "Ping" /\ Whole(l) =>
      \A n \in Addressees(l) \cap Responder :
        \E p \in sent : p.from = n /\ p.kind = "Pong" /\ handled[l.from][p] >= 1

\* The same for every letter, the docs' promise that oversize messages are split on
\* the fly per transport instead of being silently dropped at a LoRa hop.
LettersArrive == Undisturbed => \A l \in sent : Arrived(l)

\* The docs' promise that the same frame cannot loop back through the mesh: a node is
\* never handed the letter it sent.
NoLoopBack == \A l \in Letter : handled[l.from][l] = 0

=============================================================================

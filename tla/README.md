# RelayStar in TLA+

RelayStar is a small mesh of microcontrollers and one broker.  Every node runs the
same engine (`crates/relaystar-relay`) over the same message type
(`crates/relaystar-proto`): it splits payloads to fit a transport, reassembles
them, drops duplicates, learns which peer is heard on which transport, and plans
the frames to send.  The Cardputer terminal bridges LoRa, ESP-NOW and MQTT; the
LoRa node has LoRa only.  The modules here specify the engine, a mesh of nodes, and the
Cardputer with its tasks, queues and MQTT session; TLC checks them on small instances,
and TLAPS proves for all sizes that the engine's parts are what they promise, that the
engine hands a message up whole and at most once, routes unicasts and keeps ids fresh,
and that the Cardputer keeps its sessions apart, its queues within their capacity and the
slices of a message in order.  Paths below are relative to the repository; `relay` is
`crates/relaystar-relay/src`, `proto` is `crates/relaystar-proto/src`.

## 1. Inventory

| Part | State it keeps | Operations | What makes it correct |
| --- | --- | --- | --- |
| `SeenCache<N>` (`proto/lib.rs`) | ring of N keys, valid flags, next index | `contains`, `insert`, `check_and_insert` | remembers exactly the last N keys recorded |
| `Message`, `Transport` (`proto/lib.rs`) | none | `prepared_for_relay`, `is_broadcast`, `encode`, `decode` | the hop budget falls with every hop |
| `Fragmenter` (`relay/fragment.rs`) | none | `prepare`, `split` | slices fit the transport and rejoin to the payload |
| `Reassembler<SLOTS, PER_SLOT>` (`relay/fragment.rs`) | array of slots: group, total, received mask, buckets, template | `ingest`, `evict`, `in_flight` | a slot collects one group; a completed message is one that was sent |
| `ReceiverTable<N>` (`relay/receivers.rs`) | vector of (address, transport bitmap) | `add`, `learn`, `remove_transport`, `remove`, `clear`, `transports_for` | a map from peers to transports, bounded by N |
| `Relay<NR, NA, NF>` (`relay/lib.rs`) | id counter, table, reassembler, cache, registered ports | `register_port`, `add_receiver`, `plan_send`, `plan_forward`, `send`, `forward`, `ingest` | messages are handed up once and intact; unicasts go where the peer was heard; ids are fresh |
| Cardputer bridge (`cardputer-fw/src/bridge.rs`) | the engine behind a mutex; queues INBOUND_RAW, LORA_OUT, MQTT_OUT, ESPNOW_OUT, UI_IN (8 each) | `bridge_loop`, `fanout_forward`, `enqueue`, `send_local_text` | no task waits for ever; a full queue loses frames and nothing else |
| Cardputer transport tasks (`cardputer-fw/src/{lora,espnow,mqtt}.rs`) | radio or socket, one frame in hand | endless receive / transmit loops; MQTT reconnects | frames are moved, not invented; sessions recover |
| LoRa node (`lora-node-fw/src/main.rs`) | an engine, counters | select over radio and heartbeat: ingest, pong, heartbeat | answers a ping over the transport it heard |
| Ports (`relay/ports/*`) | a driver each; the MQTT client its read buffer | `send_frame`, `connect`, `subscribe`, `publish`, `ping`, `read_publish` | usable after a cancelled call; packet stream in step |
| Broker (`broker/src/main.rs`) | none of its own | starts rumqttd | - |
| Display, keyboard, Wi-Fi, board set-up | pixels, keys | drawing, polling | - |

How they interact.  A transport task pushes raw bytes into INBOUND_RAW; `bridge_loop`
takes them one by one, locks the engine and calls `ingest`, unlocks, shows the
message and, if it is a broadcast or for somebody else, calls `plan_forward` for each
other transport (one lock per transport) and puts the frames into the OUT queues
with `try_send`; the transport tasks drain those.  The keyboard task locks the same
engine for `plan_send`, the MQTT task for `next_id`.  All of them are futures joined in
one task of a cooperative executor, and the lock is never held across an await: a lock
is always free when asked for and nothing else runs until the next await that can
pend, so a whole turn of `bridge_loop`, fan-out included, is one step.  The LoRa node does all of this in one task, without queues.
Between nodes there are only frames, which may be lost and, as several bridges
forward the same message, duplicated and reordered.

What is hard.  Copies of one message reach a node whole and in slices, over several
transports and split by several nodes under different group ids, and one dedup key
per frame has to sort this out; caches, tables and slot arrays are small and evict or
refuse; ids come from one wrapping counter that restarts at a reboot; the tasks of
the Cardputer share the engine and block on each other's queues; frames that wait in
them meet an engine that has moved on; sessions with the broker break at any byte, and
`select3` drops half-read packets.  `PROJECT.json` lists these hazards at their lines.

## 2. Modules

| Module | Models | Uses |
| --- | --- | --- |
| `SeenCache`, `SeenCacheSpec` | `SeenCache<N>`: operators on a cache value; one cache under every call | - |
| `SeenWindow` | abstract: a window of the last N keys | - |
| `Reassembler`, `ReassemblerSpec` | `Reassembler`: operators on the slot array; one array under every call | - |
| `ReassemblyPool` | abstract: at most SLOTS open groups, each a set of slice numbers | - |
| `Proto` | transports in fan-out order, capacities, hop budget | - |
| `ReceiverTable`, `ReceiverTableSpec` | `ReceiverTable<N>`: operators on the row sequence; one table under every call | Proto |
| `PeerTable` | the tables of a node with a given set of peers, and the map such a table stands for | ReceiverTable |
| `PeerMap` | abstract: a bounded map from peers to transports | - |
| `Fragmenter` | `prepare` and `split` | Proto, Reassembler |
| `Relay` | the engine: one record with everything `struct Relay` holds, one operator per public operation | SeenCache, ReceiverTable, Fragmenter |
| `RelaySpec` | one engine under every call, fed by the messages of other nodes | Relay, PeerTable |
| `Forwarding` | what `bridge_loop` makes of an ingest outcome, `fanout_forward` | Relay |
| `LoraNode` | `send_via_port` and the receive branch of the LoRa node, with the pong | Relay |
| `Mesh` | several engines, bridges, LoRa nodes and endpoints over lossy links | Forwarding, LoraNode |
| `BridgeTasks` | the Cardputer's queues; `bridge_loop`, `lora_loop`, `espnow_loop`, `ui_loop` | Forwarding |
| `Mqtt311` | the MQTT client as a codec: packets, and what a read makes of the bytes so far | - |
| `MqttTask` | `mqtt_loop`: handshake, the three branches of its select, reconnecting; the broker | BridgeTasks, Mqtt311 |
| `Terminal` | the Cardputer as a whole | MqttTask |
| `*Proofs` | the theorems of a component | the component's module, TLAPS |
| `RelayLemmas` | `SplitIsLossless`, and what the proofs about `RelaySpec` and `Terminal` need of the engine's operators | Relay, TLAPS |
| `ReceiverTableLemmas` | what the proofs about `ReceiverTableSpec` and `RelaySpec` need of the table's | ReceiverTable, TLAPS |
| `MC*` | values of the constants for TLC | the module they instantiate |

A component comes as a module of pure operators (state in, state and answer out),
because it is embedded in a bigger value: the engine holds a cache, a table and a slot
array, the mesh holds engines.  Its `...Spec` module makes a state machine of it, with
one action per public call, and states its properties.

Correspondence.  A slot array is a sequence of records with the fields of `Slot`; the
64-bit `seen_mask` is the set of its bits.  A receiver table is the sequence of its
rows, so that what `swap_remove` does to the order is there; a `TransportBitmap` is a
set.  `Relay`'s record has the fields of `struct Relay`; `registered` is a set.
A message is a record with all fields of `Message`; `frag = NoFrag` is `None`.  Payloads
are sequences of numbers, cut and joined as the code does.  Ids are numbers below
2^IdBits, counted with wrap-around; the dedup key is computed with a real XOR, bit by
bit, as a recursive function and not a RECURSIVE operator so that proofs can unfold it.
`InOrder` lists a set of transports in the order of `Transport::ALL`, in which the code
enumerates both a broadcast's targets and the bitmap of a unicast's.  The loop over the
targets of a fan-out is `ForwardOnto`, a recursive function of the number of targets done.
`Destination` and `FrameAddr` are an address or `BROADCAST_ADDR`.  Encoding and decoding
are left out: a frame is the message it decodes to, and bytes that do not decode leave
an engine as it is.

In `RelaySpec` the other nodes are a set `Foreign` of messages and the groups each was
split under for each transport (a node takes one group id per transport it sends on); a
frame of any of them may arrive at any time, any number of times, which
covers loss, duplication and reordering.  The direct API (`send`, `forward`) stops at
the first frame its port fails to send: the action takes any prefix of the frames.
History variables record what was heard, handed up and used.

In `Mesh` a link is a FIFO of the frames of one sender on one transport to one
receiver.  `Receives` is one turn of a node's loop on a frame: for a bridge ingest and
fan-out (`Bridged`), for a LoRa node ingest and the answer to a ping (`Answered`), for
any other node ingest alone.  `Loses` stands for a radio loss, a send that failed and a
full queue; `Sends` for a typed line, a heartbeat or a call of another program.  `Reboots` replaces an
engine by a fresh one.  LoRa frames are heard by all in range whatever their address,
ESP-NOW and MQTT unicasts only by their addressee.

In `Terminal` every queue is a sequence, and `hand` holds the frame a transport task is
stuck with while INBOUND_RAW is full; that task then does nothing else.  A step is what
one future does between two awaits that can pend.  `ether` is what the radios may still
hear, in any order; with `echoes` left, a neighbour that has both radios may send what
it hears whole back on the other one.  `left` records what was taken off each queue.
`session` is the place of `mqtt_loop`, `wire` the bytes under way from the broker, `rx`
what the read in progress has taken: bytes are read one at a time, so that a packet may
arrive in any pieces, and `Publishes` and `Pings` drop `rx` as `select3` drops the
future.  What the broker does is external: it answers requests in order, may refuse them,
and may send a subscription's messages before it acknowledges it, as the protocol allows.
A connection may fail whenever the task is at its socket.  `Mqtt311` computes on real
bytes (remaining lengths, topic lengths), because the hazard is bytes read out of step;
a text is the sequence of its bytes and stands for valid UTF-8, and a request is its kind.

## 3. Runs

All runs finish within the stated bounds; nothing is bounded by a state constraint.

| Run | Instance | Shows |
| --- | --- | --- |
| `seen_cache` | N = 3, 5 keys | `RingInv`: indices, flags and fill order. `RemembersLastN`: the ring implements `SeenWindow`. The ring wraps and meets evicted keys again. |
| `reassembler` | 2 slots, 3 slices per slot, 5 streams | `SlotsInv`, `CompleteIsOriginal`, `PoolBehaviour` (implements `ReassemblyPool`). More groups than slots; two groups with one id and different totals; a group too large to assemble; a group of one slice; bad headers; evictions. |
| `receiver_table` | 2 rows, 3 peers, 3 transports | `TableInv`, `BehavesAsMap` (implements `PeerMap`). The table fills, refuses, and moves rows. |
| `relay_receive` | cache of 3, 2 slots, 3 messages, 2 transports | `HandedUpIsSent`, `HandedUpOnce`, `HeldSlicesAreKnown`. Every message comes whole and in slices, one is split by two nodes; two ids differ by the weight of a slice number so that their keys collide; the cache evicts. |
| `relay_collapse` | the same | violation of `WholeFramesGetThrough`, section 6 |
| `relay_send` | 2 transports to send over, holding 2 and 3 units, a third only received on; 4 payloads; 5 ids starting 3 below the wrap of a 5-bit id space; one table row | `PlansReassemble`: each plan, received in every order, gives the payload once. `UnicastRoutes`: a unicast uses the transports the peer was heard on, no others. `IdsAreFresh`: no id is used twice. The payloads: one whole on ESP-NOW and split on LoRa, one that divides evenly, one too long for the slices of LoRa, one too long for a message; the last two abort plans half way. |
| `mesh` | 4 nodes, TTL 2, receiver tables of one row; in a diamond of two bridges a ping, a text LoRa must split, or a typed line and a heartbeat together; in a line a typed line, a heartbeat and a ping | `HandledOnce`: no letter is handed up twice on a node. `WholeLettersArrive`: without loss a letter no transport splits reaches everyone it is for, the pong as a unicast over what was learnt from forwarded frames. `PingsAnswered`: every ping gets its answer, also if the line before it filled the LoRa node's table and the pong is a broadcast. |
| `mesh_loop_back`, `mesh_slices` | the same | violations of `NoLoopBack` and `LettersArrive`, section 6 |
| `mesh_twins` | 2 bridges joined by LoRa and ESP-NOW, caches of 1 key, TTL 2, one reboot | `ForwardingDiesOut`: the mesh falls silent although the caches forget. |
| `terminal` | queues of 2, LoRa slices of one byte, buffers of 4, 5 and 6 bytes, a topic of one byte; four surroundings | `TerminalInv`: capacities. `SlicesLeaveInOrder`: a full queue costs the end of a plan, never its middle. `ForwardedOnce`: nothing from the broker goes back to it, and what others sent leaves at most once per transport. `UplinksAreNew`: a text that waits in INBOUND_RAW is not taken for a duplicate. `SessionInv`, `HandshakeFirst`: nothing of one connection is left for the next, and no request of the handshake is open in the event loop. `UplinksInOrder`: as long as no read was dropped half way, texts are read in order and completely. `RadiosDrain`, `SessionRecovers`: liveness, below. |
| `terminal_desync` | the same, one typed line and three texts from the broker | violation of `ReadsStayInStep`, section 6 |

Why these bounds.  The ring's behaviour depends on an index below N and N = 3 has a
first, a middle and a last slot; three rows or groups against two places exercise both
refusal and replacement; two or three slices distinguish first, middle and last; two
forwarders are what it takes for two splits of one message to meet.  `MAX_IDS` bounds
the ids one engine takes in `relay_send`, `MAX_REBOOTS` the power cycles of `Mesh`,
`Scenario` and `Letter` the messages of one behaviour.  The union of the surroundings is
one run of `terminal`, since any of them meets the same code: in `Radios` the queues
overflow with whole and split copies of one message while no broker can be found, so
that MQTT_OUT stays full; in `Neighbour` every frame sent may come back on the other radio
while texts come in; `Broker` has a keepalive and a frame to publish fall into reads, and
a text too long for a message; `Failing` has one refusal, broken connection or failed
publish at any point, and a packet longer than the buffer.  `echoes`, `pings` and
`faults` bound how often these happen.  Queues of two are the smallest that hold one
frame of a plan and refuse another in every combination; with buffers of 4, 5 and 6 bytes
each kind of packet fits, fits exactly, or does not (the code's are 8, 16 and 512).
Lengths of more than one byte are checked against their definition in an ASSUME of
`MCTerminal`, on 0 to 300 and around 2^14.  `age` in `RelaySpec` saturates
at N and `handled` in `Mesh` at 2, beyond which the properties do not look.

Deadlock is checked in every run but those of `Mesh` and `Terminal`: a mesh whose letters
are all sent and whose links are empty has nothing left to do, nor has a terminal that
hears and is sent nothing more.  That no task of a terminal is stuck is `RadiosDrain`.

Fairness.  In `mesh_twins`, `Fairness` says that frames in the air do not
stay there for ever, each is received or lost.  Every transport task and `bridge_loop`
is an endless loop that the embassy executor polls, and a radio frame that nobody
receives is lost.  It is weak fairness of `Moves`, with its ENABLED spelt out as "some
link is not empty".  No fairness is assumed of sends or reboots.

In `terminal`, `Fairness` is weak fairness of what the Cardputer's own tasks do once they
can: `bridge_loop` takes a frame that waits, a task puts the frame it is stuck with into a
queue with room, a task that is in its select takes a frame to send.  The join polls every
future that was woken, and a channel wakes its waiters.  Nothing is assumed of the air,
the user or the broker: `RadiosDrain` (no frame waits for ever in INBOUND_RAW, in a task's
hand or in a radio's queue) holds also with no broker and MQTT_OUT full for good.
`SessionRecovers` is conditional: if the broker takes connections, answers requests, and
what it sends arrives or the connection ends (the socket's 60 s timeout sees to that), the
terminal ends up in a session with MQTT_OUT empty.  Two of the conditions are written as
fairness of the part of an action that decides whether it is enabled (`TakesInbound`,
`Arrives`), which says the same of the variable it changes.

Each property has a mutant, a plausible bug in a mapped definition (marked `mutant`
in the module) under which the run must fail.

## 4. Proofs

For all values of the constants (capacities, key, peer and stream sets):

- `SeenCacheProofs`: `RingIsWellFormed` (Spec => []RingInv) and `RingImplementsWindow`
  (Spec => RemembersLastN).  The strengthening is `FillsInOrder`: the ring fills from
  slot 0 upwards and stays full, without which the slots from `next` round to `next - 1`
  would not be the keys in the order of recording.  The step case shows what one insert
  does to the window: append while filling, append and drop the oldest once full.
- `ReassemblerProofs`: `SlotsStayConsistent` (Spec => []SlotsInv) and
  `ReassemblyIsFaithful` (Spec => []CompleteIsOriginal).  `SlotsInv` is inductive: a slot
  is empty or collects one stream, its counter is the cardinality of its mask and its
  buckets hold that stream's slices, and no two slots collect the same stream.
  Completion then means that all buckets 0 .. total - 1 are the stream's.
- `ReceiverTableProofs`: `TableStaysWellFormed` (Spec => []TableInv) and `TableIsMap`
  (Spec => BehavesAsMap).  `TableInv` is inductive; what carries the refinement is that
  with one row per address the map is determined by the rows in whatever order, and
  that the number of rows is the number of tracked peers.
- `RelayLemmas`: `SplitIsLossless`: the frames `split` makes of a message fit the
  transport, are numbered by one header, and their payloads concatenated are the payload.
  `FlattenSeq` and the folds are recursive functions; that one exists and computes what
  its equation says is shown by the first index at which it would not.
- `RelayProofs`, for any caches, slots, messages and traffic: `KnownSlices`
  (HeldSlicesAreKnown), `OnlySentIsHandedUp` (HandedUpIsSent), `AtMostOnce`
  (HandedUpOnce).  The strengthening `ReceiveInv` says that every slot in use collects one
  message split under one group for one transport, and that the key of every slice it
  holds was inserted into the ring no longer ago than the message's first frame was: only
  with that distance in the ring does "known" survive an insert.  At most once needs
  `UpInv` on top: the whole message and slice 0 of any split have the same key (`XorZero`
  proves it of the recursive XOR), so in the window of a message either it was handed up
  and nobody holds its slice 0, or one slot at most does; a message is completed only
  together with slice 0.
- `RelaySendProofs`, on the same specification: `Unicasts` (UnicastRoutes), `FreshIds`
  (IdsAreFresh) and `PlansRoundTrip` (PlansReassemble).  `RoutesInv` ties the table to the history: it says only what was heard,
  and all of it while no more peers were met than it has rows (a full table has met that
  many).  `IdsInv` numbers the ids from the base on: those on frames are behind the
  counter, which has not gone round.  Each call takes ids 0 .. n of those ahead, number 0
  for the message and number k for the slices on its k-th target; that the targets are
  distinct is what keeps the groups of two transports apart.  The round trip joins the
  sender's half to the receiver's.  A plan has, on each transport, every piece of one
  message once (`Carries`), and an order of these frames is a bijection.  A node that
  knows nothing yet takes them one by one (`Midway`): one slot holds the slices so far,
  the others are free, and the cache has the keys of these slices at most.  So the next
  slice is no duplicate, for the keys of two slices of a message differ (`SliceKeysDiffer`:
  the XOR with one id tells apart any two numbers that fit an id, shown bit by bit); it
  finds the slot, and fills it exactly when it is the last one missing (`OneMore`).  How
  many keys the cache remembers does not matter here.
- `TerminalProofs`, for any queues, buffers, topic and surroundings, from four
  inductive invariants:
  - `IInv` for `SessionsStayApart` (SessionInv).  The property is inductive once each
    transport has its place in `hand`; its conjuncts need each other.  That a task stuck
    with a text is in a steady session with no read in progress is why a read that fails
    finds no text in hand; that the broker owes the answer to CONNECT only while nothing
    is on the wire is why what is read in `connecting` is that answer.
  - `HandshakeInv` for `HandshakeIsFirst` (HandshakeFirst).  It looks at the bytes: until
    the client is accepted at most the four bytes of one CONNACK are on the way, and
    until the SUBACK is sent everything on the way begins with a PUBLISH, which
    `Subscribed` refuses.  For this the remaining length of a packet, a recursive
    function, has to be shown to exist and to be one byte below 128.
  - `FlowInv` for `CapacitiesHold` (TerminalInv) and `SlicesStayInOrder`
    (SlicesLeaveInOrder).  What left a queue, followed by what is in it, is `Sliced`:
    each slice but a first one has its predecessor right before it.  A plan is `Orderly`:
    the same of the frames for one transport, each of them a message.  `Orderly` holds of
    what one split gives and is kept by joining plans, by `FlattenSeq` and by the
    recursion of the fan-out; queueing an orderly plan, cut off anywhere, and taking from
    the head keep `Sliced`.  A message cut again on its way out must not be a slice
    itself, so the invariant also follows messages through the engine: a template has no
    header, and what is completed or heard whole has none.
  - `StreamInv` for `UplinksStayInOrder` (UplinksInOrder), on top of `HandshakeInv`: as
    long as no read was torn, the bytes read and those on the wire are whole packets, and
    these carry, in order, the texts given but not yet taken; a read that waits is shorter
    than the packet before it.  `PacketIsRead` is the codec's half: whatever the topic,
    the text and the buffer, a read that runs along `Packet(first, body)` returns `first`
    and `body` at its last byte or fails, and never waits behind it.  The code reads at
    most four bytes of a remaining length, so its digits are unfolded on both sides
    (`LengthForm`, `LengthFieldRead`); a length that takes more makes the read fail.
    `Stream` is the least set that holds nothing and, with a stream, that stream after one
    more packet; appending a packet at its end is shown by its own definition.

`ReassemblerProofs` also has `SlotsImplementPool` (Spec => PoolBehaviour): with no two
slots for one stream, each slot in use is one open group and its mask the group's slices.

Assumptions: those of the ASSUMEs.  `CacheAssumption`: a ring has a slot.
`ReassemblerAssumption`: at most 64 slices per slot, the bits of the mask, as the doc of
`Relay` asks.  `StreamAssumption`: no two streams share group id and total within the
life of a reassembler; the engine's counter provides this until a sender reboots.
`TableAssumption`, `ProtoAssumption`, `FragmenterAssumption`: capacities are natural
numbers.  `RelayAssumption`: ids are keys of the cache.  `EnvironmentAssumption`: distinct
messages have distinct ids, no group id is used for two messages, for two transports or by
two nodes, and neither this node nor the broadcast address is a peer.  `SliceAssumption`:
a slot has a bucket for every slice `split` may make, as the doc of `Reassembler`
recommends and both firmwares have it (32 and 32), and the shifted slice numbers fit an id
(32 of them, shifted by 16, in 32 bits); only `PlansRoundTrip` uses it.  `IdAssumption`: the
counter does not go round (with 32 bits, four thousand million messages).

`QueueAssumption`: a queue has room for one frame.  `TopicAssumption`: a topic is a
sequence of numbers, its bytes.  `ScenarioAssumption`: what is heard is what a frame
decodes to, a message with the fields of `Message`; texts are sequences of numbers; and
texts from outside differ from those of the mesh (no proof uses this last part).

Only model-checked: the properties of `Mesh`, and two invariants of `Terminal`.
`ForwardedOnce` and `UplinksAreNew` hold while the caches are larger than the traffic, and
`HandledOnce` while they are larger than the letters under way, so they have no proof for
all sizes; `WholeLettersArrive` and `PingsAnswered` are about the meshes of their
scenarios.  Out of the prover's reach: liveness (`ForwardingDiesOut`, `RadiosDrain`,
`SessionRecovers`).

## 5. Not modelled

- The LoRa and ESP-NOW adapters of `relay/ports` and the radio drivers: one driver call
  each, without protocol state.  Their failing half way through a plan is in `RelaySpec`;
  alone it is a frame taken off its queue and not heard.  The same goes for the driver's
  table of ESP-NOW peers: a unicast to a peer it has no room for is a lost frame.
- `MqttPort` and the per-recipient topics: the firmware does not use them, it publishes
  text on one topic.  The broker is a wrapper around rumqttd.
- Display, key decoding, Wi-Fi and board set-up; the postcard encoding.  A radio frame
  that does not decode, or is longer than MAX_FRAME, changes no state of the engine.
- Time.  The keepalive and the five seconds before a reconnect are steps that may come at
  any point; that the socket gives up after 60 s is a connection that may fail.
- Two Cardputers in one mesh: `CARD_ADDR` and `CARD_ID_BASE` are constants of the build,
  so both would have one address and draw the same ids.  `Mesh` gives nodes different
  ones, and assumes that a node's mesh address is its MAC, which on the Cardputer it is
  not (`bridge.rs:40`).
- Slots that lose a slice: nobody calls `evict`, so after SLOTS lost slices a node
  refuses every split message.  The operation is modelled; that its absence from the
  firmware costs capacity is plain from the code.
- Delivery after a reboot: ids start over, and receivers that remember them drop the new
  messages.  Nothing promises otherwise.
- A refused subscription: `subscribe` does not read the return code, so the session is
  steady and deaf.  `Refuses` has it; no property says it should be noticed.

Left to do, in order: `Mesh` on a chain of paths of unequal
length, where a copy with a lower hop budget suppresses one that would have travelled
further (five nodes and a TTL of three are beyond the present runs); for `Mesh`,
`WholeLettersArrive`.

## 6. Where the code and its documentation disagree

- `relay_collapse`.  The comment at `relay/lib.rs:404` says the key keeps distinct slices
  apart and drops true duplicates.  Slice 0 has the key of the unsplit message, so a
  message that started to arrive over LoRa is refused when it arrives whole over MQTT.
- `mesh_loop_back`.  `relay/lib.rs:14` says a frame cannot loop back.  A node does not
  record its own ids, so its broadcast comes back over a bridge and is handed up.
- `mesh_slices`.  The crate's README says that splitting on the fly avoids silent drops.
  Two bridges split one broadcast under different group ids, but the dedup key has no
  group in it; a receiver that takes slices from both completes neither, though no
  frame was lost.
- `terminal_desync`.  `relay/ports/mqtt.rs:360` says `read_publish` reads one MQTT packet,
  and `mqtt.rs:10` of the Cardputer that an inbound PUBLISH is pushed into INBOUND_RAW.
  `mqtt_loop` calls it in a `select3`: when a frame to publish or the keepalive is ready
  before the packet is complete, the bytes read so far are lost, the rest of the packet is
  read as headers, and following texts are swallowed or garbled until an error happens to
  end the session.

Seen while modelling, without a run: `relay/error.rs:70` speaks of a timeout of the
reassembler, which nothing implements; the crate's README (line 144) sends a 2 KB blob,
which is longer than a message may be.

------------------------------ MODULE RelaySpec ------------------------------
(***************************************************************************)
(* One relay engine under every call of its public interface.  Frames come *)
(* from the messages of other nodes (Foreign): each may arrive whole over  *)
(* one transport and in slices over another, under the group ids of the    *)
(* several nodes that split it, in any order, repeated or incomplete.      *)
(* The history variables record what the calls promised so far.            *)
(***************************************************************************)
EXTENDS Relay, PeerTable

CONSTANTS
  SelfAddr, IdBase,
  Declared,   \* the peers callers add and remove explicitly
  Source,     \* the transports frames arrive over
  Port,       \* the transports this node registers and sends over
  Foreign,    \* messages of other nodes: frag = NoFrag, origin irrelevant
  GroupsOf,   \* [Foreign -> [Source -> SUBSET Nat]]: the groups each was split under,
              \* per transport: a node takes a group id for every transport it sends on
  Payload,    \* payloads this node sends
  MAX_IDS     \* bound: ids this node allocates

\* Distinct messages have distinct ids, and no group id is used for two of them, for
\* two transports or by two nodes.  None is no fragment header.
ASSUME EnvironmentAssumption ==
  /\ \A m, n \in Foreign : m.id = n.id => m = n
  /\ \A m, n \in Foreign, t, u \in Source :
       GroupsOf[m][t] \cap GroupsOf[n][u] # {} => m = n /\ t = u
  /\ \A m \in Foreign, t \in Source : GroupsOf[m][t] \subseteq Nat
  /\ \A m \in Foreign :
       /\ m = Prepare(m.id, m.ttl, m.origin, m.from, m.to, m.kind, m.payload)
       /\ m.id \in 0 .. IdSpace - 1 /\ m.from \in Peer
       /\ m.payload \in Seq(Nat) /\ FitsMessage(m.payload)
  /\ Payload \subseteq Seq(Nat)
  /\ SelfAddr \notin Peer /\ BROADCAST_ADDR \notin Peer \cup {SelfAddr}
  /\ Declared \subseteq Peer /\ Source \cup Port \subseteq Transport
  /\ NoFrag \notin [group_id : Nat, seq : Nat, total : Nat]

\* Ids are fresh until their counter has gone round: a call takes one id for the message
\* and one group id per transport at most.
ASSUME IdAssumption ==
  IdBase \in 0 .. IdSpace - 1 /\ MAX_IDS \in Nat /\ MAX_IDS + 1 + Len(ALL) < IdSpace

\* A receiver's slot has a bucket for every slice split makes (the doc of Reassembler
\* recommends it, and the firmwares have 32 for 32), and the shifted slice numbers fit
\* an id: 32 of them, shifted by 16.
ASSUME SliceAssumption ==
  MAX_FRAGMENTS <= PER_SLOT /\ MAX_FRAGMENTS * Pow2[SeqBits] <= IdSpace

VARIABLES
  relay,     \* the engine
  ret,       \* what the last call returned
  age,       \* history: frames accepted since the first one with a message's id (at most N)
  handedUp,  \* history: ids of the messages handed up
  heard,     \* history: <<peer, transport>> pairs heard or declared and not removed since
  met,       \* history: peers ever heard or declared
  taken      \* history: ids and group ids this node has put on its frames

vars == <<relay, ret, age, handedUp, heard, met, taken>>

Ids == {m.id : m \in Foreign}
Never == N + 1

Init ==
  /\ relay = NewRelay(SelfAddr, IdBase)
  /\ ret = [tag |-> "None"]
  /\ age = [x \in Ids |-> Never]
  /\ handedUp = {} /\ heard = {} /\ met = {} /\ taken = {}

HandsUp(out) == out.tag \in {"Complete", "NotForMe"}

Aged(id, accepted) ==
  [x \in Ids |->
     IF ~accepted THEN age[x]
     ELSE IF age[x] # Never THEN IF age[x] < N THEN age[x] + 1 ELSE N
     ELSE IF x = id THEN 0 ELSE Never]

FrameArrives(m, frame, source) ==
  LET result == IngestFrame(relay, source, frame)
      accepted == result.out.tag # "Duplicate"
  IN  /\ relay' = result.relay
      /\ ret' = result.out
      /\ age' = Aged(m.id, accepted)
      /\ handedUp' = IF HandsUp(result.out) THEN handedUp \cup {result.out.msg.id} ELSE handedUp
      /\ heard' = heard \cup {<<m.from, source>>}
      /\ met' = met \cup {m.from}
      /\ UNCHANGED taken

\* A message reaches this node over t, split for t under one of its groups.
Arrival ==
  \E m \in Foreign, t \in Source : \E g \in GroupsOf[m][t] :
    \E k \in DOMAIN Split(m, t, g) : FrameArrives(m, Split(m, t, g)[k], t)

PortChange ==
  /\ \E t \in Port : relay' \in {RegisterPort(relay, t), UnregisterPort(relay, t)}
  /\ ret' = [tag |-> "None"]
  /\ UNCHANGED <<age, handedUp, heard, met, taken>>

AddPeer(p, t) ==
  /\ relay' = AddReceiver(relay, p, t)
  /\ ret' = [tag |-> AddAnswer(relay.receivers, p, t)]
  /\ heard' = heard \cup {<<p, t>>}
  /\ met' = met \cup {p}
  /\ UNCHANGED <<age, handedUp, taken>>

RemovePeer(p) ==
  /\ relay' = RemoveReceiver(relay, p)
  /\ ret' = [tag |-> "None"]
  /\ heard' = {pair \in heard : pair[1] # p}
  /\ UNCHANGED <<age, handedUp, met, taken>>

\* The groups of a plan's frames on one transport, and on all.
GroupsUsed(frames, t) ==
  {frames[k].message.frag.group_id :
     k \in {j \in DOMAIN frames : frames[j].transport = t /\ frames[j].message.frag # NoFrag}}
Groups(frames) ==
  {frames[k].message.frag.group_id : k \in {j \in DOMAIN frames : frames[j].message.frag # NoFrag}}

OwnIds(frames) == {frames[k].message.id :
                     k \in {j \in DOMAIN frames : frames[j].message.from = SelfAddr}}

\* A call that emits a message; sent is the part of the frames a failing port let through.
Emits(call, msg, result, sent) ==
  /\ result.relay.id_ctr <= MAX_IDS
  /\ relay' = result.relay
  /\ ret' = [tag |-> call, of |-> msg, frames |-> sent, err |-> result.err]
  /\ taken' = taken \cup OwnIds(sent) \cup Groups(sent)
  /\ UNCHANGED <<age, handedUp, heard, met>>

Prefixes(frames) == {SubSeq(frames, 1, n) : n \in 0 .. Len(frames)}

PlanSendCall(payload, dest) ==
  LET result == PlanSend(relay, "Text", payload, dest)
  IN  Emits("plan_send", [to |-> dest, payload |-> payload], result, result.frames)

\* The direct API stops at the first frame its port fails to send.
SendCall(t, payload, dest) ==
  LET result == Send(relay, t, "Text", payload, dest)
  IN  \E sent \in Prefixes(result.frames) :
        Emits("send", [to |-> dest, payload |-> payload], result, sent)

\* Callers forward the message they were just handed.
PlanForwardCall(t) ==
  LET result == PlanForward(relay, ret.msg, t)
  IN  HandsUp(ret) /\ Emits("plan_forward", ret.msg, result, result.frames)

ForwardCall(t) ==
  LET result == PlanForward(relay, ret.msg, t)
  IN  /\ HandsUp(ret)
      /\ \E sent \in Prefixes(result.frames) : Emits("forward", ret.msg, result, sent)

Next ==
  \/ Arrival
  \/ PortChange
  \/ \E p \in Declared : (\E t \in Port : AddPeer(p, t)) \/ RemovePeer(p)
  \/ \E payload \in Payload, dest \in Peer \cup {BROADCAST_ADDR} :
       \/ PlanSendCall(payload, dest)
       \/ \E t \in Port : SendCall(t, payload, dest)
  \/ \E t \in Port : PlanForwardCall(t) \/ ForwardCall(t)

Spec == Init /\ [][Next]_vars

-----------------------------------------------------------------------------
(* Receiving.                                                               *)

\* The seen cache and the reassembler agree: while the window that began with the
\* first frame of a message is open, every slice a slot holds has its key in the
\* cache, so no slice can reach the reassembler a second time.
HeldSlicesAreKnown ==
  \A i \in SlotIndex : \A q \in relay.slots[i].seen_mask :
    LET slot == relay.slots[i]
        held == [id |-> slot.template.id,
                 frag |-> [group_id |-> slot.group_id, seq |-> q, total |-> slot.total]]
    IN  age[held.id] < N => Contains(relay.seen, DedupKey(held))

\* A message is handed up at most once for as long as no more than N frames were
\* accepted since its first one, although it may come whole and in slices, over
\* several transports and split by several nodes under different group ids.
HandedUpOnce ==
  [][HandsUp(ret') /\ ret'.msg.id \in handedUp => age[ret'.msg.id] >= N]_vars

\* What is handed up is a message some node sent, whole, and labelled as for this
\* node exactly when it is addressed to it or to all.
HandedUpIsSent ==
  HandsUp(ret) =>
    \E m \in Foreign :
      /\ ret.msg = [m EXCEPT !.origin = ret.msg.origin]
      /\ ret.tag = "Complete" <=> m.to \in {SelfAddr, BROADCAST_ADDR}

\* The comment on the dedup key: fragments are keyed on (id, seq) so that true
\* duplicates are dropped without collapsing distinct slices.  A message that arrives
\* whole, being no slice, is then refused only if it was handed up before.
WholeFramesGetThrough ==
  [][\A m \in Foreign, t \in Source :
       FrameArrives(m, m, t) /\ ret'.tag = "Duplicate" => m.id \in handedUp]_vars

-----------------------------------------------------------------------------
(* Sending.                                                                 *)

Used(frames) == {frames[k].transport : k \in DOMAIN frames}

\* The frames over t, in every order.
Orders(frames, t) ==
  {[j \in DOMAIN p |-> frames[p[j]]] :
     p \in Ext!SetToSeqs({k \in DOMAIN frames : frames[k].transport = t})}

\* A node that knows nothing yet, fed frames in the given order: what it is handed.
Receive(frames, dest) ==
  LET got[k \in 0 .. Len(frames)] ==
        IF k = 0 THEN [relay |-> NewRelay(dest, 0), up |-> <<>>]
        ELSE LET r == IngestFrame(got[k - 1].relay, frames[k].transport, frames[k].message)
             IN  [relay |-> r.relay,
                  up |-> IF HandsUp(r.out) THEN Append(got[k - 1].up, r.out.msg) ELSE got[k - 1].up]
  IN  got[Len(frames)].up

\* Round trip: the frames planned for one transport fit it, and a receiver that gets
\* them in any order is handed the message exactly once, payload intact.
PlansReassemble ==
  ret.tag \in {"plan_send", "plan_forward"} =>
    \A t \in Used(ret.frames) :
      /\ \A k \in DOMAIN ret.frames :
           ret.frames[k].transport = t => Len(ret.frames[k].message.payload) <= Mtu(t)
      /\ \A order \in Orders(ret.frames, t) :
           LET up == Receive(order, ret.of.to)
           IN  Len(up) = 1 /\ up[1].payload = ret.of.payload /\ up[1].to = ret.of.to

\* The receiver table never misroutes: a unicast leaves only on registered transports
\* the peer was heard or declared on, and, unless more peers than the table holds
\* were ever met, on all of these.
UnicastRoutes ==
  ret.tag = "plan_send" /\ ret.of.to \in Peer =>
    LET reach == {t \in relay.registered : <<ret.of.to, t>> \in heard}
    IN  /\ Used(ret.frames) \subseteq reach
        /\ Ext!Cardinality(met) <= NR =>
             /\ ret.err = "Ok" => Used(ret.frames) = reach
             /\ ret.err = "UnknownReceiver" => reach = {}

\* No id or group id is put on frames twice, by sends, forwards, aborted sends and
\* refused plans in any order: slices split at different times or for different
\* transports never share a group.
IdsAreFresh ==
  [][ret' # ret /\ ret'.tag \in {"plan_send", "send", "plan_forward", "forward"} =>
       /\ (OwnIds(ret'.frames) \cup Groups(ret'.frames)) \cap taken = {}
       /\ OwnIds(ret'.frames) \cap Groups(ret'.frames) = {}
       /\ \A t, u \in Used(ret'.frames) :
            t # u => GroupsUsed(ret'.frames, t) \cap GroupsUsed(ret'.frames, u) = {}]_vars

=============================================================================

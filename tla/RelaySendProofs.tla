--------------------------- MODULE RelaySendProofs ---------------------------
(***************************************************************************)
(* For every set of peers, ports and payloads: a unicast leaves on the     *)
(* transports its peer was heard on and no others, no id is put on frames  *)
(* twice, and a receiver makes one message of the frames of a plan, in     *)
(* whatever order it gets them.                                            *)
(***************************************************************************)
EXTENDS RelayProofs, ReceiverTableLemmas

(* What the calls do to the fields a send depends on.                        *)

Has(r, receivers, registered, ctr, base) ==
  r.receivers = receivers /\ r.registered = registered /\ r.id_ctr = ctr /\ r.id_base = base

LEMMA FieldUpdates ==
  ASSUME NEW r, IsEngine(r), NEW x, NEW y
  PROVE  /\ Has([r EXCEPT !.receivers = x], x, r.registered, r.id_ctr, r.id_base)
         /\ Has([r EXCEPT !.registered = x], r.receivers, x, r.id_ctr, r.id_base)
         /\ Has([r EXCEPT !.id_ctr = x], r.receivers, r.registered, x, r.id_base)
         /\ Has(Rebuffered(r, x, y), r.receivers, r.registered, r.id_ctr, r.id_base)
<1> DEFINE e == [self_addr |-> r.self_addr, id_base |-> r.id_base, id_ctr |-> r.id_ctr,
                 receivers |-> r.receivers, slots |-> r.slots, seen |-> r.seen,
                 registered |-> r.registered]
           e1 == [self_addr |-> r.self_addr, id_base |-> r.id_base, id_ctr |-> r.id_ctr,
                  receivers |-> r.receivers, slots |-> r.slots, seen |-> x,
                  registered |-> r.registered]
           e2 == [self_addr |-> r.self_addr, id_base |-> r.id_base, id_ctr |-> r.id_ctr,
                  receivers |-> r.receivers, slots |-> y, seen |-> x,
                  registered |-> r.registered]
<1>1. r = e
  BY DEF IsEngine
<1>2. /\ Has([e EXCEPT !.receivers = x], x, r.registered, r.id_ctr, r.id_base)
      /\ Has([e EXCEPT !.registered = x], r.receivers, x, r.id_ctr, r.id_base)
      /\ Has([e EXCEPT !.id_ctr = x], r.receivers, r.registered, x, r.id_base)
  BY DEF Has
<1>3. [e EXCEPT !.seen = x, !.slots = y] = e2
  <2>1. [e EXCEPT !.seen = x] = e1
    OBVIOUS
  <2>2. [e1 EXCEPT !.slots = y] = e2
    OBVIOUS
  <2> QED  BY <2>1, <2>2
<1>4. Has(e2, r.receivers, r.registered, r.id_ctr, r.id_base)
  BY DEF Has
<1> HIDE DEF e, e2
<1>5. /\ [r EXCEPT !.receivers = x] = [e EXCEPT !.receivers = x]
      /\ [r EXCEPT !.registered = x] = [e EXCEPT !.registered = x]
      /\ [r EXCEPT !.id_ctr = x] = [e EXCEPT !.id_ctr = x]
  BY <1>1, Zenon
<1>6. [r EXCEPT !.seen = x, !.slots = y] = [e EXCEPT !.seen = x, !.slots = y]
  BY <1>1, Zenon
<1>7. Rebuffered(r, x, y) = e2
  BY <1>3, <1>6, Zenon DEF Rebuffered
<1> QED  BY <1>2, <1>4, <1>5, <1>7, Zenon

CallTags == {"plan_send", "send", "plan_forward", "forward"}

\* The engine learns of a peer, forgets one, or changes its ports.
Learns(p, t) ==
  /\ Has(relay', Add(relay.receivers, p, t), relay.registered, relay.id_ctr, relay.id_base)
  /\ heard' = heard \cup {<<p, t>>} /\ met' = met \cup {p} /\ taken' = taken
  /\ ret'.tag \notin CallTags

Forgets(p) ==
  /\ Has(relay', Remove(relay.receivers, p), relay.registered, relay.id_ctr, relay.id_base)
  /\ heard' = {pair \in heard : pair[1] # p} /\ met' = met /\ taken' = taken
  /\ ret'.tag \notin CallTags

Rewires ==
  /\ Has(relay', relay.receivers, relay'.registered, relay.id_ctr, relay.id_base)
  /\ relay'.registered \subseteq relay.registered \cup Port
  /\ UNCHANGED <<heard, met, taken>> /\ ret'.tag \notin CallTags

LEMMA FrameIsLearnt ==
  ASSUME EngineOK, NEW m \in Foreign, NEW t \in Source, NEW frame,
         frame = m \/ \E g, q : frame = SliceOf(m, t, g, q), FrameArrives(m, frame, t)
  PROVE  Learns(m.from, t)
<1> DEFINE msg == Received(frame, t)
           key == DedupKey(msg)
           r   == Ingest(relay.slots, msg)
           x   == Learnt(relay, msg, t)
           learnt == [relay EXCEPT !.receivers = x]
           result == IngestFrame(relay, t, frame)
<1>1. /\ relay' = result.relay /\ ret' = result.out
      /\ heard' = heard \cup {<<m.from, t>>} /\ met' = met \cup {m.from} /\ taken' = taken
  BY DEF FrameArrives
<1>2. x = Add(relay.receivers, m.from, t)
  <2>1. msg.from = m.from
    <3>1. CASE frame = m
      <4>1. Received(m, t).from = m.from
        BY ForeignMessage DEF Over
      <4> QED  BY <3>1, <4>1
    <3>2. ASSUME NEW g, NEW q, frame = SliceOf(m, t, g, q) PROVE msg.from = m.from
      BY <3>2 DEF Received, SliceOf
    <3> QED  BY <3>1, <3>2
  <2>2. m.from # BROADCAST_ADDR /\ m.from # relay.self_addr
    BY EnvironmentAssumption DEF EnvironmentAssumption, EngineOK
  <2> HIDE DEF msg
  <2> QED  BY <2>1, <2>2 DEF Learnt
<1>3. Has(learnt, x, relay.registered, relay.id_ctr, relay.id_base) /\ IsEngine(learnt)
  <2> HIDE DEF x
  <2> QED  BY FieldUpdates, EngineUpdates DEF EngineOK, SameBuffers
<1>4. CASE Contains(relay.seen, key)
  <2>1. result.relay = learnt /\ result.out = [tag |-> "Duplicate"]
    BY <1>4 DEF IngestFrame
  <2>2. [tag |-> "Duplicate"].tag \notin CallTags
    BY DEF CallTags
  <2> HIDE DEF learnt, result, x
  <2> QED  BY <1>1, <1>2, <1>3, <2>1, <2>2 DEF Learns
<1>5. CASE ~Contains(relay.seen, key)
  <2> DEFINE y == CheckAndInsert(learnt.seen, key)
             z == r.slots
  <2>1. /\ result.relay = [learnt EXCEPT !.seen = CheckAndInsert(@, key), !.slots = z]
        /\ result.out = Directed(relay, r.out)
    BY <1>5 DEF IngestFrame
  <2>2. r.out.tag \in {"Passthrough", "Buffered", "Complete", "Dropped"}
    BY IngestAnswers
  <2> HIDE DEF learnt, result, x, msg, r
  <2>3. result.relay = Rebuffered(learnt, y, z)
    BY <2>1 DEF Rebuffered
  <2> HIDE DEF y, z
  <2>4. Has(relay', x, relay.registered, relay.id_ctr, relay.id_base)
    BY <1>1, <1>3, <2>3, FieldUpdates DEF Has
  <2>5. ret'.tag \notin CallTags
    BY <1>1, <2>1, <2>2 DEF Directed, Direct, CallTags
  <2> QED  BY <1>1, <1>2, <2>4, <2>5 DEF Learns
<1> QED  BY <1>4, <1>5

LEMMA ArrivalLearns ==
  ASSUME EngineOK, Arrival
  PROVE  \E p \in Peer, t \in Transport : Learns(p, t)
<1>1. PICK m \in Foreign, t \in Source : \E g \in GroupsOf[m][t] : \E k \in DOMAIN Split(m, t, g) :
         FrameArrives(m, Split(m, t, g)[k], t)
  BY DEF Arrival
<1>2. PICK g \in GroupsOf[m][t] : \E k \in DOMAIN Split(m, t, g) :
         FrameArrives(m, Split(m, t, g)[k], t)
  BY <1>1
<1>3. PICK k \in DOMAIN Split(m, t, g) : FrameArrives(m, Split(m, t, g)[k], t)
  BY <1>2
<1>4. Split(m, t, g)[k] = m \/ \E g2, q : Split(m, t, g)[k] = SliceOf(m, t, g2, q)
  BY FrameOfSplit
<1>5. Learns(m.from, t)
  <2> DEFINE frame == Split(m, t, g)[k]
  <2>1. FrameArrives(m, frame, t) /\ (frame = m \/ \E g2, q : frame = SliceOf(m, t, g2, q))
    BY <1>3, <1>4
  <2> HIDE DEF frame
  <2> QED  BY <2>1, FrameIsLearnt
<1>6. m.from \in Peer /\ t \in Transport
  BY EnvironmentAssumption DEF EnvironmentAssumption
<1> QED  BY <1>5, <1>6

LEMMA PortsAndPeersChange ==
  ASSUME EngineOK
  PROVE  /\ PortChange => Rewires
         /\ \A p \in Declared, t \in Port : AddPeer(p, t) => Learns(p, t)
         /\ \A p \in Declared : RemovePeer(p) => Forgets(p)
<1> IsEngine(relay)
  BY DEF EngineOK
<1>1. [tag |-> "None"].tag \notin CallTags
  BY DEF CallTags
<1>2. ASSUME PortChange PROVE Rewires
  <2>1. PICK t \in Port : relay' \in {RegisterPort(relay, t), UnregisterPort(relay, t)}
    BY <1>2 DEF PortChange
  <2>2. PICK reg : /\ reg \subseteq relay.registered \cup Port
                   /\ relay' = [relay EXCEPT !.registered = reg]
    BY <2>1 DEF RegisterPort, UnregisterPort
  <2>3. Has(relay', relay.receivers, reg, relay.id_ctr, relay.id_base)
    BY <2>2, FieldUpdates
  <2> QED  BY <1>1, <1>2, <2>2, <2>3 DEF PortChange, Rewires, Has
<1>3. ASSUME NEW p \in Declared, NEW t \in Port, AddPeer(p, t) PROVE Learns(p, t)
  <2> DEFINE x == Add(relay.receivers, p, t)
  <2>1. relay' = [relay EXCEPT !.receivers = x]
    BY <1>3 DEF AddPeer, AddReceiver
  <2>2. ret'.tag \notin CallTags
    BY <1>3 DEF AddPeer, AddAnswer, CallTags
  <2> HIDE DEF x
  <2>3. Has(relay', x, relay.registered, relay.id_ctr, relay.id_base)
    BY <2>1, FieldUpdates
  <2> QED  BY <1>3, <2>2, <2>3 DEF AddPeer, Learns, x
<1>4. ASSUME NEW p \in Declared, RemovePeer(p) PROVE Forgets(p)
  <2> DEFINE x == Remove(relay.receivers, p)
  <2>1. relay' = [relay EXCEPT !.receivers = x]
    BY <1>4 DEF RemovePeer, RemoveReceiver
  <2> HIDE DEF x
  <2>3. Has(relay', x, relay.registered, relay.id_ctr, relay.id_base)
    BY <2>1, FieldUpdates
  <2> QED  BY <1>1, <1>4, <2>3 DEF RemovePeer, Forgets, x
<1> QED  BY <1>2, <1>3, <1>4

-----------------------------------------------------------------------------
(* What a table says, and what was heard.                                    *)

\* A table only says what was heard; it says all of it as long as no more peers were
\* met than it has rows.
RoutesOK(rs, h, m) ==
  /\ WellFormed(rs) /\ m \subseteq Peer /\ IsFiniteSet(m) /\ h \subseteq Peer \X Transport
  /\ \A p \in Peer : Known(rs, p) => p \in m
  /\ \A p \in Peer, t \in Transport : t \in RouteMap(rs)[p] => <<p, t>> \in h
  /\ Cardinality(m) <= NR =>
       \A p \in Peer, t \in Transport : <<p, t>> \in h => t \in RouteMap(rs)[p]

\* A table that is full has met as many peers as it has rows.
LEMMA FullTable ==
  ASSUME NEW rs, WellFormed(rs), NEW m, m \subseteq Peer, IsFiniteSet(m), NEW p \in Peer,
         \A q \in Peer : Known(rs, q) => q \in m,
         ~Known(rs, p), ~(Len(rs) < NR)
  PROVE  ~(Cardinality(m \cup {p}) <= NR)
<1> DEFINE T == {q \in Peer : RouteMap(rs)[q] # {}}
<1>1. IsFiniteSet(T) /\ Cardinality(T) = Len(rs)
  BY TrackedIsLen
<1>2. \A q \in T : q \in m
  BY RouteMapAt
<1>3. p \notin T
  BY RouteMapAt
<1> HIDE DEF T
<1>4. IsFiniteSet(T \cup {p}) /\ Cardinality(T \cup {p}) = Cardinality(T) + 1
  BY <1>1, <1>3, FS_AddElement
<1>5. IsFiniteSet(m \cup {p}) /\ T \cup {p} \subseteq m \cup {p}
  BY <1>2, FS_AddElement
<1>6. Cardinality(T \cup {p}) <= Cardinality(m \cup {p})
  BY <1>5, FS_Subset
<1>7. Len(rs) \in Nat /\ NR \in Nat /\ Cardinality(m \cup {p}) \in Nat
  BY <1>5, TableShape, TableAssumption, FS_CardinalityType DEF TableAssumption
<1> QED  BY <1>1, <1>4, <1>6, <1>7

LEMMA LearningKeepsRoutes ==
  ASSUME NEW rs, NEW h, NEW m, RoutesOK(rs, h, m), NEW p \in Peer, NEW t \in Transport
  PROVE  RoutesOK(Add(rs, p, t), h \cup {<<p, t>>}, m \cup {p})
<1> DEFINE rs2 == Add(rs, p, t)
           h2 == h \cup {<<p, t>>}
           m2 == m \cup {p}
<1>1. WellFormed(rs) /\ m \subseteq Peer /\ IsFiniteSet(m) /\ h \subseteq Peer \X Transport
  BY DEF RoutesOK
<1>2. /\ WellFormed(rs2)
      /\ RouteMap(rs2) = IF Known(rs, p) \/ Len(rs) < NR
                         THEN [RouteMap(rs) EXCEPT ![p] = @ \cup {t}] ELSE RouteMap(rs)
  BY <1>1, AddMaps
<1>3. RouteMap(rs) \in [Peer -> SUBSET Transport]
      /\ \A q \in Peer : RouteMap(rs)[q] # {} <=> Known(rs, q)
  BY <1>1, RouteMapAt
<1>4. \A q \in Peer : RouteMap(rs2)[q] # {} <=> Known(rs2, q)
  BY <1>2, RouteMapAt
<1>5. IsFiniteSet(m2) /\ m2 \subseteq Peer /\ h2 \subseteq Peer \X Transport
  BY <1>1, FS_AddElement
<1> HIDE DEF rs2
<1>6. \A q \in Peer, u \in Transport :
        u \in RouteMap(rs2)[q] => u \in RouteMap(rs)[q] \/ (q = p /\ u = t)
  BY <1>2, <1>3
<1>7. \A q \in Peer : Known(rs2, q) => q \in m2
  BY <1>2, <1>3, <1>4 DEF RoutesOK
<1>8. \A q \in Peer, u \in Transport : u \in RouteMap(rs2)[q] => <<q, u>> \in h2
  BY <1>6 DEF RoutesOK
<1>9. ASSUME Cardinality(m2) <= NR, NEW q \in Peer, NEW u \in Transport, <<q, u>> \in h2
      PROVE  u \in RouteMap(rs2)[q]
  <2>1. Cardinality(m) <= NR
    <3>1. Cardinality(m) <= Cardinality(m2)
      BY <1>5, FS_Subset
    <3>2. Cardinality(m) \in Nat /\ Cardinality(m2) \in Nat /\ NR \in Nat
      BY <1>1, <1>5, FS_CardinalityType, TableAssumption DEF TableAssumption
    <3> QED  BY <1>9, <3>1, <3>2
  <2>2. Known(rs, p) \/ Len(rs) < NR
    BY <1>1, <1>9, FullTable DEF RoutesOK
  <2>3. RouteMap(rs2) = [RouteMap(rs) EXCEPT ![p] = @ \cup {t}]
    BY <1>2, <2>2
  <2>4. CASE <<q, u>> \in h
    <3>1. u \in RouteMap(rs)[q]
      BY <2>1, <2>4 DEF RoutesOK
    <3> QED  BY <1>3, <2>3, <3>1
  <2>5. CASE q = p /\ u = t
    BY <1>3, <2>3, <2>5
  <2> QED  BY <1>9, <2>4, <2>5
<1> HIDE DEF m2, h2
<1>10. RoutesOK(rs2, h2, m2)
  BY <1>2, <1>5, <1>7, <1>8, <1>9 DEF RoutesOK
<1> QED  BY <1>10 DEF rs2, h2, m2

LEMMA ForgettingKeepsRoutes ==
  ASSUME NEW rs, NEW h, NEW m, RoutesOK(rs, h, m), NEW p \in Peer
  PROVE  RoutesOK(Remove(rs, p), {pair \in h : pair[1] # p}, m)
<1> DEFINE rs2 == Remove(rs, p)
           h2 == {pair \in h : pair[1] # p}
<1>1. WellFormed(rs) /\ h \subseteq Peer \X Transport
  BY DEF RoutesOK
<1>2. WellFormed(rs2) /\ RouteMap(rs2) = [RouteMap(rs) EXCEPT ![p] = @ \ Transport]
  BY <1>1, RemoveMaps
<1>3. RouteMap(rs) \in [Peer -> SUBSET Transport]
      /\ \A q \in Peer : RouteMap(rs)[q] # {} <=> Known(rs, q)
  BY <1>1, RouteMapAt
<1>4. \A q \in Peer : RouteMap(rs2)[q] # {} <=> Known(rs2, q)
  BY <1>2, RouteMapAt
<1> HIDE DEF rs2
<1>5. \A q \in Peer, u \in Transport : u \in RouteMap(rs2)[q] <=> u \in RouteMap(rs)[q] /\ q # p
  BY <1>2, <1>3
<1>6. \A q \in Peer, u \in Transport : <<q, u>> \in h2 <=> <<q, u>> \in h /\ q # p
  OBVIOUS
<1>7. h2 \subseteq Peer \X Transport
  BY <1>1
<1> HIDE DEF h2
<1>8. \A q \in Peer : Known(rs2, q) => q \in m
  <2>1. \A q \in Peer : Known(rs2, q) => \E u \in Transport : u \in RouteMap(rs2)[q]
    BY <1>2, <1>3, <1>4
  <2>2. \A q \in Peer : Known(rs2, q) => Known(rs, q)
    BY <1>3, <1>5, <2>1
  <2> QED  BY <2>2 DEF RoutesOK
<1>9. RoutesOK(rs2, h2, m)
  BY <1>2, <1>5, <1>6, <1>7, <1>8 DEF RoutesOK
<1> QED  BY <1>9 DEF rs2, h2

RoutesInv == RoutesOK(relay.receivers, heard, met) /\ relay.registered \subseteq Transport

\* A unicast is planned for the registered transports the table knows its peer on.
LEMMA UnicastTargets ==
  ASSUME RoutesInv, NEW p \in Peer
  PROVE  \A t : In(t, ResolveTargets(relay, p)) <=>
           t \in relay.registered /\ t \in RouteMap(relay.receivers)[p]
<1> DEFINE S == {t \in relay.registered :
                   p # BROADCAST_ADDR =>
                     Known(relay.receivers, p) /\ t \in TransportsFor(relay.receivers, p)}
<1>1. WellFormed(relay.receivers) /\ relay.registered \subseteq Transport
  BY DEF RoutesInv, RoutesOK
<1>2. p # BROADCAST_ADDR
  BY EnvironmentAssumption DEF EnvironmentAssumption
<1>3. RouteMap(relay.receivers)[p] =
        IF Known(relay.receivers, p) THEN TransportsFor(relay.receivers, p) ELSE {}
  BY DEF RouteMap
<1>4. \A t : t \in S <=> t \in relay.registered /\ t \in RouteMap(relay.receivers)[p]
  BY <1>2, <1>3
<1>5. ResolveTargets(relay, p) = InOrder(S)
  BY DEF ResolveTargets
<1> HIDE DEF S
<1>6. \A t : In(t, ResolveTargets(relay, p)) <=> t \in S \cap Transport
  BY <1>5, OrderedTransports
<1> QED  BY <1>1, <1>4, <1>6

-----------------------------------------------------------------------------
(* Ids: the j-th a node takes, and those a call puts on its frames.          *)

IdAt(j) == (IdBase + j) % IdSpace

IdsInv ==
  /\ relay.id_base = IdBase /\ relay.id_ctr \in 0 .. MAX_IDS
  /\ taken \subseteq {IdAt(j) : j \in 0 .. relay.id_ctr - 1}

LEMMA IdNumbers ==
  /\ IdSpace \in Nat \ {0} /\ IdBase \in 0 .. IdSpace - 1 /\ MAX_IDS \in Nat
  /\ Len(ALL) = 3 /\ MAX_IDS + 4 < IdSpace
<1>1. Len(ALL) = 3
  BY DEF ALL
<1>2. IdSpace \in Nat \ {0}
  BY RelayAssumption, Powers DEF RelayAssumption, IdSpace
<1> QED  BY <1>1, <1>2, IdAssumption DEF IdAssumption

\* Ids repeat only after all of them were taken.
LEMMA IdsDiffer ==
  ASSUME NEW i \in 0 .. IdSpace - 1, NEW j \in 0 .. IdSpace - 1, IdAt(i) = IdAt(j)
  PROVE  i = j
<1> DEFINE s == IdSpace
           b == IdBase
<1>1. s \in Nat \ {0} /\ b \in 0 .. s - 1 /\ i \in 0 .. s - 1 /\ j \in 0 .. s - 1
      /\ (b + i) % s = (b + j) % s
  BY IdNumbers DEF IdAt
<1> HIDE DEF s, b
<1>2. ASSUME NEW k \in 0 .. s - 1
      PROVE  (b + k) % s = IF b + k < s THEN b + k ELSE b + k - s
  <2>1. CASE b + k < s
    BY <1>1, <2>1, Z3
  <2>2. CASE ~(b + k < s)
    <3>1. b + k - s \in 0 .. s - 1 /\ b + k = s * 1 + (b + k - s)
      BY <1>1, <2>2
    <3> QED  BY <1>1, <2>2, <3>1, Z3
  <2> QED  BY <2>1, <2>2
<1> QED  BY <1>1, <1>2

LEMMA IdsAhead ==
  ASSUME EngineOK, IdsInv, NEW n \in 0 .. 1 + Len(ALL)
  PROVE  /\ (relay.id_ctr + n) % IdSpace = relay.id_ctr + n
         /\ relay.id_ctr + n \in 0 .. IdSpace - 1
         /\ NthId(relay, n) = IdAt(relay.id_ctr + n) /\ NextId(relay) = IdAt(relay.id_ctr)
         /\ Has(TakeIds(relay, n), relay.receivers, relay.registered, relay.id_ctr + n, relay.id_base)
<1> DEFINE c == relay.id_ctr
           x == (c + n) % IdSpace
<1>1. c \in 0 .. MAX_IDS /\ n \in 0 .. 4 /\ relay.id_base = IdBase
  BY IdNumbers DEF IdsInv
<1> HIDE DEF c
<1>2. c + n \in 0 .. IdSpace - 1 /\ c \in Nat /\ IdBase \in Nat
  BY <1>1, IdNumbers
<1>3. x = c + n
  BY <1>2, IdNumbers, Z3
<1>4. (IdBase + c) + n = IdBase + (c + n) /\ (IdBase + c) + 0 = IdBase + c
  BY <1>1, <1>2
<1>5. TakeIds(relay, n) = [relay EXCEPT !.id_ctr = x]
  BY DEF TakeIds, c
<1>6. NthId(relay, n) = IdAt(c + n) /\ NextId(relay) = IdAt(c)
  BY <1>1, <1>4 DEF NthId, NextId, IdAt, c
<1> HIDE DEF x
<1>7. Has(TakeIds(relay, n), relay.receivers, relay.registered, x, relay.id_base)
  BY <1>5, FieldUpdates DEF EngineOK
<1> QED  BY <1>2, <1>3, <1>6, <1>7 DEF c, x

\* Frames of a call that takes n ids: a slice has the id number at[t] of these as its
\* group, t being its transport, and number 0 is the id of the message if it is new.
Numbered(frames, n, at) ==
  /\ Len(frames) \in Nat /\ DOMAIN frames = 1 .. Len(frames)
  /\ \A x : In(x, frames) /\ x.message.frag # NoFrag =>
       /\ at[x.transport] \in 0 .. n - 1
       /\ x.message.frag.group_id = IdAt(relay.id_ctr + at[x.transport])
  /\ \A x : In(x, frames) /\ x.message.from = SelfAddr =>
       /\ n # 0 /\ x.message.id = IdAt(relay.id_ctr)
       /\ \A y : In(y, frames) => at[y.transport] # 0
  /\ \A x, y : In(x, frames) /\ In(y, frames) /\ at[x.transport] = at[y.transport]
       => x.transport = y.transport

FreshOn(frames) ==
  /\ (OwnIds(frames) \cup Groups(frames)) \cap taken = {}
  /\ OwnIds(frames) \cap Groups(frames) = {}
  /\ \A t, u \in Used(frames) : t # u => GroupsUsed(frames, t) \cap GroupsUsed(frames, u) = {}

LEMMA NumberedIsFresh ==
  ASSUME EngineOK, IdsInv, NEW n \in 0 .. 1 + Len(ALL), NEW frames, NEW at, Numbered(frames, n, at)
  PROVE  /\ FreshOn(frames)
         /\ OwnIds(frames) \cup Groups(frames) \subseteq
              {IdAt(j) : j \in relay.id_ctr .. relay.id_ctr + n - 1}
<1> DEFINE c == relay.id_ctr
<1>1. c \in Nat /\ n \in Nat /\ c + n \in 0 .. IdSpace - 1 /\ IdSpace \in Nat
  BY IdsAhead, IdNumbers DEF IdsInv
<1>2. DOMAIN frames = 1 .. Len(frames)
  BY DEF Numbered
<1>3. ASSUME NEW id \in OwnIds(frames)
      PROVE  n # 0 /\ id = IdAt(c) /\ \A y : In(y, frames) => at[y.transport] # 0
  <2>1. PICK k \in 1 .. Len(frames) : frames[k].message.from = SelfAddr /\ frames[k].message.id = id
    BY <1>2 DEF OwnIds
  <2>2. In(frames[k], frames)
    BY DEF In
  <2> QED  BY <2>1, <2>2 DEF Numbered
<1>4. ASSUME NEW t, NEW g \in GroupsUsed(frames, t)
      PROVE  \E x : In(x, frames) /\ x.transport = t /\ at[t] \in 0 .. n - 1 /\ g = IdAt(c + at[t])
  <2>1. PICK k \in 1 .. Len(frames) : /\ frames[k].transport = t /\ frames[k].message.frag # NoFrag
                                      /\ frames[k].message.frag.group_id = g
    BY <1>2, <1>4 DEF GroupsUsed
  <2>2. In(frames[k], frames)
    BY DEF In
  <2> QED  BY <2>1, <2>2 DEF Numbered
<1>5. ASSUME NEW g \in Groups(frames) PROVE \E t : g \in GroupsUsed(frames, t)
  BY <1>5 DEF Groups, GroupsUsed
<1>6. ASSUME NEW i \in 0 .. c + n - 1, NEW j \in 0 .. c + n - 1, IdAt(i) = IdAt(j) PROVE i = j
  <2>1. i \in 0 .. IdSpace - 1 /\ j \in 0 .. IdSpace - 1
    BY <1>1
  <2> QED  BY <1>6, <2>1, IdsDiffer
<1>7. ASSUME NEW g \in Groups(frames)
      PROVE  \E x, a : /\ In(x, frames) /\ a = at[x.transport] /\ a \in 0 .. n - 1 /\ g = IdAt(c + a)
  BY <1>4, <1>5
<1>8. ASSUME NEW id \in OwnIds(frames) \cup Groups(frames)
      PROVE  \E j \in c .. c + n - 1 : id = IdAt(j)
  <2>1. CASE id \in OwnIds(frames)
    <3>1. c \in c .. c + n - 1 /\ id = IdAt(c)
      BY <1>1, <1>3, <2>1
    <3> QED  BY <3>1
  <2>2. CASE id \in Groups(frames)
    <3>1. PICK a \in 0 .. n - 1 : id = IdAt(c + a)
      BY <1>7, <2>2
    <3>2. c + a \in c .. c + n - 1
      BY <1>1
    <3> QED  BY <3>1, <3>2
  <2> QED  BY <2>1, <2>2
<1>9. (OwnIds(frames) \cup Groups(frames)) \cap taken = {}
  <2> SUFFICES ASSUME NEW id \in OwnIds(frames) \cup Groups(frames), id \in taken PROVE FALSE
    OBVIOUS
  <2>1. PICK j \in c .. c + n - 1 : id = IdAt(j)
    BY <1>8
  <2>2. PICK i \in 0 .. c - 1 : id = IdAt(i)
    BY DEF IdsInv
  <2>3. i \in 0 .. c + n - 1 /\ j \in 0 .. c + n - 1 /\ i # j
    BY <1>1
  <2> HIDE DEF c
  <2> QED  BY <1>6, <2>1, <2>2, <2>3
<1>10. OwnIds(frames) \cap Groups(frames) = {}
  <2> SUFFICES ASSUME NEW id \in OwnIds(frames), id \in Groups(frames) PROVE FALSE
    OBVIOUS
  <2>1. PICK x, a : In(x, frames) /\ a = at[x.transport] /\ a \in 0 .. n - 1 /\ id = IdAt(c + a)
    BY <1>7
  <2>2. id = IdAt(c) /\ a # 0
    BY <1>3, <2>1
  <2>3. c \in 0 .. c + n - 1 /\ c + a \in 0 .. c + n - 1 /\ c + a # c
    BY <1>1, <2>1, <2>2
  <2> HIDE DEF c
  <2> QED  BY <1>6, <2>1, <2>2, <2>3
<1>11. ASSUME NEW t \in Used(frames), NEW u \in Used(frames), t # u,
              NEW g, g \in GroupsUsed(frames, t), g \in GroupsUsed(frames, u)
       PROVE  FALSE
  <2>1. PICK x : In(x, frames) /\ x.transport = t /\ at[t] \in 0 .. n - 1 /\ g = IdAt(c + at[t])
    BY <1>4, <1>11
  <2>2. PICK y : In(y, frames) /\ y.transport = u /\ at[u] \in 0 .. n - 1 /\ g = IdAt(c + at[u])
    BY <1>4, <1>11
  <2>3. at[t] # at[u]
    BY <1>11, <2>1, <2>2 DEF Numbered
  <2>4. c + at[t] \in 0 .. c + n - 1 /\ c + at[u] \in 0 .. c + n - 1 /\ c + at[t] # c + at[u]
    BY <1>1, <2>1, <2>2, <2>3
  <2> HIDE DEF c
  <2> QED  BY <1>6, <2>1, <2>2, <2>4
<1> QED  BY <1>8, <1>9, <1>10, <1>11 DEF FreshOn

\* A call that emits, or tries to.
Emission ==
  \E n \in 0 .. 1 + Len(ALL) : \E at :
    /\ Has(relay', relay.receivers, relay.registered, relay.id_ctr + n, relay.id_base)
    /\ relay.id_ctr + n <= MAX_IDS
    /\ Numbered(ret'.frames, n, at)
    /\ taken' = taken \cup OwnIds(ret'.frames) \cup Groups(ret'.frames)
    /\ UNCHANGED <<heard, met>> /\ ret'.tag \in CallTags

LEMMA EmitsNumbered ==
  ASSUME EngineOK, IdsInv, NEW call \in CallTags, NEW msg, NEW result, NEW sent,
         NEW n \in 0 .. 1 + Len(ALL), NEW at,
         Emits(call, msg, result, sent), Numbered(sent, n, at),
         Has(result.relay, relay.receivers, relay.registered, relay.id_ctr + n, relay.id_base)
  PROVE  Emission
<1>1. /\ result.relay.id_ctr <= MAX_IDS /\ relay' = result.relay
      /\ ret' = [tag |-> call, of |-> msg, frames |-> sent, err |-> result.err]
      /\ taken' = taken \cup OwnIds(sent) \cup Groups(sent) /\ heard' = heard /\ met' = met
  BY DEF Emits
<1>2. ret'.tag = call /\ ret'.frames = sent
  BY <1>1
<1>3. relay.id_ctr + n <= MAX_IDS
  BY <1>1 DEF Has
<1> QED  BY <1>1, <1>2, <1>3 DEF Emission

LEMMA NoFrames ==
  ASSUME NEW n \in Nat, NEW at
  PROVE  Numbered(<<>>, n, at)
BY DEF Numbered, In

LEMMA PrefixElements ==
  ASSUME NEW X, NEW frames \in Seq(X), NEW sent \in Prefixes(frames)
  PROVE  /\ Len(sent) \in Nat /\ DOMAIN sent = 1 .. Len(sent)
         /\ \A x : In(x, sent) => In(x, frames)
<1>1. PICK n \in 0 .. Len(frames) : sent = SubSeq(frames, 1, n)
  BY DEF Prefixes
<1>2. \A i \in 1 .. n : frames[i] \in X
  BY ElementOfSeq
<1>3. /\ sent \in Seq(X) /\ Len(sent) = n /\ \A i \in 1 .. n : sent[i] = frames[i]
  BY <1>1, <1>2, SubSeqProperties
<1>4. \A i \in 1 .. n : i \in 1 .. Len(frames)
  OBVIOUS
<1> QED  BY <1>3, <1>4 DEF In

LEMMA AllIsPrefix ==
  ASSUME NEW X, NEW frames \in Seq(X)
  PROVE  frames \in Prefixes(frames)
<1>1. Len(frames) \in 0 .. Len(frames) /\ SubSeq(frames, 1, Len(frames)) = frames
  BY SubSeqFull
<1> QED  BY <1>1 DEF Prefixes

LEMMA EmitFrames ==
  ASSUME NEW r, NEW t \in Transport, NEW msg, msg.payload \in Seq(Nat), msg.frag = NoFrag
  PROVE  LET frames == EmitOn(r, t, msg).frames
         IN  /\ frames \in Prefixes(frames)
             /\ \A sent \in Prefixes(frames) :
                  /\ Len(sent) \in Nat /\ DOMAIN sent = 1 .. Len(sent)
                  /\ \A x : In(x, sent) => FrameOf(x, t, msg, NextId(r))
<1> DEFINE frames == Planned(t, msg.to, Split(msg, t, NextId(r)))
           X == [transport : {t}, addr : {msg.to}, message : Pieces(msg, t, NextId(r))]
<1>1. EmitOn(r, t, msg).frames = frames
  BY DEF EmitOn
<1>2. frames \in Seq(X) /\ \A x : In(x, frames) => FrameOf(x, t, msg, NextId(r))
  BY PlannedFrames
<1> HIDE DEF frames, X
<1>3. frames \in Prefixes(frames)
  BY <1>2, AllIsPrefix
<1>4. ASSUME NEW sent \in Prefixes(frames)
      PROVE  /\ Len(sent) \in Nat /\ DOMAIN sent = 1 .. Len(sent)
             /\ \A x : In(x, sent) => FrameOf(x, t, msg, NextId(r))
  BY <1>2, PrefixElements
<1> QED  BY <1>1, <1>3, <1>4

\* plan_send: one id for the message and one per target.
LEMMA PlanSendEmits ==
  ASSUME EngineOK, IdsInv, NEW payload \in Payload, NEW dest, PlanSendCall(payload, dest)
  PROVE  Emission
<1> DEFINE ts == ResolveTargets(relay, dest)
           plan == PlanSend(relay, "Text", payload, dest)
<1>1. /\ Emits("plan_send", [to |-> dest, payload |-> payload], plan, plan.frames)
      /\ "plan_send" \in CallTags /\ payload \in Seq(Nat)
  BY EnvironmentAssumption DEF PlanSendCall, CallTags, EnvironmentAssumption
<1>2. /\ ts \in Seq(Transport) /\ Len(ts) \in Nat /\ Len(ts) <= Len(ALL) /\ Once(ts)
  <2>1. ts \in Seq(Transport) /\ Len(ts) <= Len(ALL) /\ Once(ts)
    BY OrderedTransports DEF ResolveTargets
  <2> HIDE DEF ts
  <2> QED  BY <2>1
<1>3. PlanRefused(relay, plan, ts) \/ PlanMade(relay, plan, ts, payload, dest)
  BY <1>1, PlanSendFrames
<1> HIDE DEF ts, plan
<1>4. relay.id_ctr \in Nat /\ relay.id_ctr + 0 = relay.id_ctr /\ 0 \in 0 .. 1 + Len(ALL) /\ Len(ALL) = 3
  BY IdNumbers DEF IdsInv
<1>5. CASE PlanRefused(relay, plan, ts)
  <2>1. PICK n \in 0 .. 1 + Len(ALL) :
          Has(plan.relay, relay.receivers, relay.registered, relay.id_ctr + n, relay.id_base)
    <3>1. CASE plan.relay = relay
      BY <1>4, <3>1 DEF Has
    <3>2. ASSUME NEW n \in 1 .. 1 + Len(ts), plan.relay = TakeIds(relay, n)
          PROVE  /\ n \in 0 .. 1 + Len(ALL)
                 /\ Has(plan.relay, relay.receivers, relay.registered, relay.id_ctr + n, relay.id_base)
      <4>1. n \in 0 .. 1 + Len(ALL)
        BY <1>2, <1>4
      <4> QED  BY <3>2, <4>1, IdsAhead
    <3> QED  BY <1>5, <3>1, <3>2 DEF PlanRefused
  <2>2. plan.frames = <<>> /\ n \in Nat
    BY <1>4, <1>5 DEF PlanRefused
  <2>3. Numbered(plan.frames, n, <<>>)
    BY <2>2, NoFrames
  <2> QED  BY <1>1, <2>1, <2>3, EmitsNumbered
<1>6. CASE PlanMade(relay, plan, ts, payload, dest)
  <2> DEFINE n == 1 + Len(ts)
             at == [t \in Transport |-> CHOOSE k \in 1 .. Len(ts) : ts[k] = t]
  <2>1. n \in 0 .. 1 + Len(ALL) /\ n # 0
    BY <1>2, <1>4
  <2>2. Has(plan.relay, relay.receivers, relay.registered, relay.id_ctr + n, relay.id_base)
    <3>1. plan.relay = TakeIds(relay, n)
      BY <1>6 DEF PlanMade
    <3> HIDE DEF n
    <3> QED  BY <2>1, <3>1, IdsAhead
  <2>3. \A k \in 1 .. Len(ts) : ts[k] \in Transport /\ at[ts[k]] = k
    <3> SUFFICES ASSUME NEW k \in 1 .. Len(ts) PROVE ts[k] \in Transport /\ at[ts[k]] = k
      OBVIOUS
    <3>1. ts[k] \in Transport
      BY <1>2, ElementOfSeq
    <3>2. \A j \in 1 .. Len(ts) : ts[j] = ts[k] => j = k
      BY <1>2 DEF Once
    <3> QED  BY <3>1, <3>2
  <2> HIDE DEF at
  <2>4. ASSUME NEW x, In(x, plan.frames)
        PROVE  \E k \in 1 .. Len(ts) :
                 /\ x.transport = ts[k] /\ at[x.transport] = k /\ k \in 0 .. n - 1 /\ k # 0
                 /\ x.message.id = IdAt(relay.id_ctr)
                 /\ x.message.frag # NoFrag => x.message.frag.group_id = IdAt(relay.id_ctr + k)
    <3>1. PICK k \in 1 .. Len(ts) : FrameOf(x, ts[k], Made(relay, ts[k], payload, dest), GroupFor(relay, k))
      BY <1>6, <2>4 DEF PlanMade
    <3>2. k \in 0 .. n - 1 /\ k # 0 /\ k \in 0 .. 1 + Len(ALL)
      BY <1>2, <1>4
    <3>3. GroupFor(relay, k) = IdAt(relay.id_ctr + k) /\ NextId(relay) = IdAt(relay.id_ctr)
      BY <3>2, IdsAhead DEF GroupFor
    <3>4. Made(relay, ts[k], payload, dest).id = NextId(relay)
      BY DEF Made, Prepare
    <3>5. at[ts[k]] = k
      BY <2>3
    <3> QED  BY <3>1, <3>2, <3>3, <3>4, <3>5 DEF FrameOf
  <2>5. Numbered(plan.frames, n, at)
    <3>1. Len(plan.frames) \in Nat /\ DOMAIN plan.frames = 1 .. Len(plan.frames)
      BY <1>6 DEF PlanMade
    <3> HIDE DEF n
    <3> QED  BY <2>1, <2>4, <3>1 DEF Numbered
  <2> HIDE DEF n
  <2> QED  BY <1>1, <2>1, <2>2, <2>5, EmitsNumbered
<1> QED  BY <1>3, <1>5, <1>6

\* The message a caller forwards is another node's, unsplit.
LEMMA RelayedMessage ==
  ASSUME HandedUpIsSent, HandsUp(ret)
  PROVE  LET msg == PreparedForRelay(ret.msg)
         IN  msg.from \in Peer /\ msg.payload \in Seq(Nat) /\ msg.frag = NoFrag
<1>1. PICK m \in Foreign : ret.msg = [m EXCEPT !.origin = ret.msg.origin]
  BY DEF HandedUpIsSent
<1> DEFINE o == ret.msg.origin
           e == [id |-> m.id, ttl |-> m.ttl, origin |-> m.origin, from |-> m.from, to |-> m.to,
                 kind |-> m.kind, payload |-> m.payload, frag |-> NoFrag]
           e1 == [id |-> m.id, ttl |-> m.ttl, origin |-> o, from |-> m.from, to |-> m.to,
                  kind |-> m.kind, payload |-> m.payload, frag |-> NoFrag]
<1>2. m = e /\ m.from \in Peer /\ m.payload \in Seq(Nat)
  BY EnvironmentAssumption DEF EnvironmentAssumption, Prepare
<1> HIDE DEF o
<1>3. [e EXCEPT !.origin = o] = e1
  OBVIOUS
<1>4. /\ [e1 EXCEPT !.ttl = m.ttl - 1].from = m.from
      /\ [e1 EXCEPT !.ttl = m.ttl - 1].payload = m.payload
      /\ [e1 EXCEPT !.ttl = m.ttl - 1].frag = NoFrag
      /\ e1.ttl = m.ttl
  OBVIOUS
<1> HIDE DEF e, e1
<1>5. ret.msg = e1
  <2>1. [m EXCEPT !.origin = o] = [e EXCEPT !.origin = o]
    BY <1>2, Zenon
  <2> QED  BY <1>1, <1>3, <2>1, Zenon DEF o
<1>6. PreparedForRelay(ret.msg) = [e1 EXCEPT !.ttl = m.ttl - 1]
  <2>1. PreparedForRelay(e1) = [e1 EXCEPT !.ttl = e1.ttl - 1]
    BY DEF PreparedForRelay
  <2> QED  BY <1>4, <1>5, <2>1, Zenon
<1> QED  BY <1>2, <1>4, <1>6

\* send: one id for the message and one for the port.
LEMMA SendEmits ==
  ASSUME EngineOK, IdsInv, NEW t \in Port, NEW payload \in Payload, NEW dest,
         SendCall(t, payload, dest)
  PROVE  Emission
<1> DEFINE result == Send(relay, t, "Text", payload, dest)
           msg == Prepare(NextId(relay), DEFAULT_TTL, t, relay.self_addr, dest, "Text", payload)
           r1 == TakeIds(relay, 1)
<1>1. PICK sent \in Prefixes(result.frames) :
         Emits("send", [to |-> dest, payload |-> payload], result, sent)
  BY DEF SendCall
<1>2. /\ payload \in Seq(Nat) /\ t \in Transport /\ "send" \in CallTags
      /\ 0 \in 0 .. 1 + Len(ALL) /\ 1 \in 0 .. 1 + Len(ALL) /\ 2 \in 0 .. 1 + Len(ALL)
  BY EnvironmentAssumption, IdNumbers DEF CallTags, EnvironmentAssumption
<1>3. /\ msg.payload = payload /\ msg.frag = NoFrag /\ msg.id = NextId(relay)
  BY DEF Prepare
<1>4. \/ \E err : result = Refused(relay, err) \/ result = Refused(r1, err)
      \/ result = EmitOn(r1, t, msg)
  BY DEF Send
<1> HIDE DEF result, msg
<1>5. relay.id_ctr \in Nat /\ relay.id_ctr + 0 = relay.id_ctr /\ (relay.id_ctr + 1) + 1 = relay.id_ctr + 2
  BY DEF IdsInv
<1>6. Has(r1, relay.receivers, relay.registered, relay.id_ctr + 1, relay.id_base) /\ IsEngine(r1)
  BY <1>2, IdsAhead, IdsTaken DEF EngineOK, SameBuffers
<1>7. ASSUME NEW err, \/ result = Refused(relay, err) \/ result = Refused(r1, err) PROVE Emission
  <2>1. result.frames = <<>> /\ result.relay \in {relay, r1}
    BY <1>7 DEF Refused
  <2>2. sent = <<>>
    <3>1. <<>> \in Seq(Nat) /\ Len(<<>>) = 0
      OBVIOUS
    <3>2. Len(sent) = 0 /\ DOMAIN sent = 1 .. Len(sent) /\ Len(sent) \in Nat
      <4>1. PICK n \in 0 .. 0 : sent = SubSeq(<<>>, 1, n)
        BY <1>1, <2>1, <3>1 DEF Prefixes
      <4> QED  BY <4>1
    <3>3. PICK n \in 0 .. 0 : sent = SubSeq(<<>>, 1, n)
      BY <1>1, <2>1, <3>1 DEF Prefixes
    <3> QED  BY <3>3
  <2>3. PICK n \in 0 .. 1 + Len(ALL) :
          Has(result.relay, relay.receivers, relay.registered, relay.id_ctr + n, relay.id_base)
    <3> HIDE DEF r1
    <3>1. Has(relay, relay.receivers, relay.registered, relay.id_ctr + 0, relay.id_base)
      BY <1>5 DEF Has
    <3> QED  BY <1>2, <1>6, <2>1, <3>1
  <2>4. n \in Nat
    BY IdNumbers
  <2>5. Numbered(sent, n, <<>>)
    BY <2>2, <2>4, NoFrames
  <2> QED  BY <1>1, <1>2, <2>3, <2>5, EmitsNumbered
<1>8. CASE result = EmitOn(r1, t, msg)
  <2> DEFINE at == [u \in Transport |-> 1]
  <2>1. /\ Len(sent) \in Nat /\ DOMAIN sent = 1 .. Len(sent)
        /\ \A x : In(x, sent) => FrameOf(x, t, msg, NextId(r1))
    <3> HIDE DEF r1
    <3> QED  BY <1>1, <1>2, <1>3, <1>8, EmitFrames
  <2>2. NextId(r1) = IdAt(relay.id_ctr + 1) /\ NextId(relay) = IdAt(relay.id_ctr)
    <3>1. relay.id_ctr + 1 \in Nat /\ IdBase \in Nat /\ relay.id_base = IdBase
      BY <1>5, IdNumbers DEF IdsInv
    <3>2. (IdBase + (relay.id_ctr + 1)) + 0 = IdBase + (relay.id_ctr + 1)
      BY <3>1
    <3> HIDE DEF r1
    <3>3. NextId(r1) = IdAt(relay.id_ctr + 1)
      BY <1>6, <3>1, <3>2 DEF NextId, NthId, IdAt, Has
    <3> QED  BY <1>2, <3>3, IdsAhead
  <2>3. Has(result.relay, relay.receivers, relay.registered, relay.id_ctr + 2, relay.id_base)
    <3> DEFINE x == (r1.id_ctr + 1) % IdSpace
    <3>1. result.relay = [r1 EXCEPT !.id_ctr = x]
      BY <1>8 DEF EmitOn, TakeIds
    <3>2. x = relay.id_ctr + 2
      <4>1. r1.id_ctr + 1 = relay.id_ctr + 2
        BY <1>5, <1>6 DEF Has
      <4> HIDE DEF r1
      <4> QED  BY <1>2, <4>1, IdsAhead
    <3> HIDE DEF x, r1
    <3> QED  BY <1>6, <3>1, <3>2, FieldUpdates DEF Has
  <2>4. Numbered(sent, 2, at)
    <3>1. ASSUME NEW x, In(x, sent)
          PROVE  /\ x.transport = t /\ at[x.transport] = 1 /\ x.message.id = IdAt(relay.id_ctr)
                 /\ x.message.frag # NoFrag => x.message.frag.group_id = IdAt(relay.id_ctr + 1)
      BY <1>2, <1>3, <2>1, <2>2, <3>1 DEF FrameOf
    <3>2. 1 \in 0 .. 2 - 1 /\ 1 # 0 /\ 2 # 0
      OBVIOUS
    <3> HIDE DEF at
    <3> QED  BY <2>1, <3>1, <3>2 DEF Numbered
  <2> HIDE DEF at
  <2> QED  BY <1>1, <1>2, <2>3, <2>4, EmitsNumbered
<1> QED  BY <1>4, <1>7, <1>8

\* plan_forward and forward: one id for the transport.
LEMMA ForwardEmits ==
  ASSUME EngineOK, IdsInv, HandedUpIsSent, NEW t \in Port,
         PlanForwardCall(t) \/ ForwardCall(t)
  PROVE  Emission
<1> DEFINE result == PlanForward(relay, ret.msg, t)
           msg == PreparedForRelay(ret.msg)
<1>1. HandsUp(ret) /\ t \in Transport
  BY EnvironmentAssumption DEF EnvironmentAssumption, PlanForwardCall, ForwardCall
<1>2. result = Refused(relay, "Ok") \/ result = EmitOn(relay, t, msg)
  BY DEF PlanForward
<1>3. msg.from # SelfAddr /\ msg.payload \in Seq(Nat) /\ msg.frag = NoFrag
  BY <1>1, RelayedMessage, EnvironmentAssumption DEF EnvironmentAssumption
<1> HIDE DEF msg
<1>4. result.frames \in Prefixes(result.frames)
  <2>1. CASE result = Refused(relay, "Ok")
    <3>1. result.frames = <<>> /\ <<>> \in Seq(Nat)
      BY <2>1 DEF Refused
    <3> QED  BY <3>1, AllIsPrefix
  <2>2. CASE result = EmitOn(relay, t, msg)
    BY <1>1, <1>3, <2>2, EmitFrames
  <2> QED  BY <1>2, <2>1, <2>2
<1>5. PICK call \in CallTags, sent \in Prefixes(result.frames) : Emits(call, ret.msg, result, sent)
  BY <1>4 DEF PlanForwardCall, ForwardCall, CallTags
<1>6. relay.id_ctr \in Nat /\ relay.id_ctr + 0 = relay.id_ctr /\ 0 \in 0 .. 1 + Len(ALL) /\ 1 \in 0 .. 1 + Len(ALL)
  BY IdNumbers DEF IdsInv
<1> HIDE DEF result
<1>7. CASE result = Refused(relay, "Ok")
  <2>1. result.frames = <<>> /\ result.relay = relay
    BY <1>7 DEF Refused
  <2>2. sent = <<>>
    <3>1. <<>> \in Seq(Nat) /\ Len(<<>>) = 0
      OBVIOUS
    <3>2. PICK n \in 0 .. 0 : sent = SubSeq(<<>>, 1, n)
      BY <1>5, <2>1, <3>1 DEF Prefixes
    <3> QED  BY <3>2
  <2>3. Has(result.relay, relay.receivers, relay.registered, relay.id_ctr + 0, relay.id_base)
    BY <1>6, <2>1 DEF Has
  <2>4. Numbered(sent, 0, <<>>)
    BY <2>2, NoFrames
  <2> QED  BY <1>5, <1>6, <2>3, <2>4, EmitsNumbered
<1>8. CASE result = EmitOn(relay, t, msg)
  <2> DEFINE at == [u \in Transport |-> 0]
  <2>1. /\ Len(sent) \in Nat /\ DOMAIN sent = 1 .. Len(sent)
        /\ \A x : In(x, sent) => FrameOf(x, t, msg, NextId(relay))
    BY <1>1, <1>3, <1>5, <1>8, EmitFrames
  <2>2. NextId(relay) = IdAt(relay.id_ctr + 0)
    BY <1>6, IdsAhead
  <2>3. Has(result.relay, relay.receivers, relay.registered, relay.id_ctr + 1, relay.id_base)
    <3>1. result.relay = TakeIds(relay, 1)
      BY <1>8 DEF EmitOn
    <3> QED  BY <1>6, <3>1, IdsAhead
  <2>4. Numbered(sent, 1, at)
    <3>1. ASSUME NEW x, In(x, sent)
          PROVE  /\ x.transport = t /\ at[x.transport] = 0 /\ x.message.from # SelfAddr
                 /\ x.message.frag # NoFrag => x.message.frag.group_id = IdAt(relay.id_ctr + 0)
      BY <1>1, <1>3, <2>1, <2>2, <3>1 DEF FrameOf
    <3>2. 0 \in 0 .. 1 - 1
      OBVIOUS
    <3> HIDE DEF at
    <3> QED  BY <2>1, <3>1, <3>2 DEF Numbered
  <2> HIDE DEF at
  <2> QED  BY <1>5, <1>6, <2>3, <2>4, EmitsNumbered
<1> QED  BY <1>2, <1>7, <1>8

-----------------------------------------------------------------------------
(* The steps, and what they preserve.                                        *)

LEMMA NextChanges ==
  ASSUME EngineOK, IdsInv, HandedUpIsSent, Next
  PROVE  \/ Rewires
         \/ \E p \in Peer, t \in Transport : Learns(p, t)
         \/ \E p \in Peer : Forgets(p)
         \/ Emission
<1>1. ASSUME NEW p \in Declared PROVE p \in Peer
  BY EnvironmentAssumption DEF EnvironmentAssumption
<1>2. ASSUME NEW t \in Port PROVE t \in Transport
  BY EnvironmentAssumption DEF EnvironmentAssumption
<1>3. CASE Arrival
  BY <1>3, ArrivalLearns
<1>4. CASE PortChange
  BY <1>4, PortsAndPeersChange
<1>5. ASSUME NEW p \in Declared, (\E t \in Port : AddPeer(p, t)) \/ RemovePeer(p)
      PROVE  (\E t \in Transport : Learns(p, t)) \/ Forgets(p)
  BY <1>2, <1>5, PortsAndPeersChange
<1>6. ASSUME NEW payload \in Payload, NEW dest \in Peer \cup {BROADCAST_ADDR},
             PlanSendCall(payload, dest) \/ \E t \in Port : SendCall(t, payload, dest)
      PROVE  Emission
  BY <1>6, PlanSendEmits, SendEmits
<1>7. CASE \E t \in Port : PlanForwardCall(t) \/ ForwardCall(t)
  BY <1>7, ForwardEmits
<1> QED  BY <1>1, <1>3, <1>4, <1>5, <1>6, <1>7 DEF Next

\* Ids are numbered in the order they are taken, and those on frames are behind the
\* counter, with all that refused plans and failed sends have skipped.
LEMMA EmissionKeepsIds ==
  ASSUME EngineOK, IdsInv, Emission
  PROVE  IdsInv'
<1>1. PICK n \in 0 .. 1 + Len(ALL) : \E at :
        /\ Has(relay', relay.receivers, relay.registered, relay.id_ctr + n, relay.id_base)
        /\ relay.id_ctr + n <= MAX_IDS
        /\ Numbered(ret'.frames, n, at)
        /\ taken' = taken \cup OwnIds(ret'.frames) \cup Groups(ret'.frames)
  BY DEF Emission
<1>2. OwnIds(ret'.frames) \cup Groups(ret'.frames) \subseteq
        {IdAt(j) : j \in relay.id_ctr .. relay.id_ctr + n - 1}
  BY <1>1, NumberedIsFresh
<1>3. relay.id_ctr \in Nat /\ MAX_IDS \in Nat /\ n \in Nat
  BY IdNumbers DEF IdsInv
<1>4. relay'.id_ctr = relay.id_ctr + n /\ relay'.id_base = IdBase
  BY <1>1 DEF Has, IdsInv
<1>5. relay'.id_ctr \in 0 .. MAX_IDS
  BY <1>1, <1>3, <1>4
<1>6. ASSUME NEW id \in taken' PROVE \E j \in 0 .. relay'.id_ctr - 1 : id = IdAt(j)
  <2>1. CASE id \in taken
    <3>1. PICK j \in 0 .. relay.id_ctr - 1 : id = IdAt(j)
      BY <2>1 DEF IdsInv
    <3>2. j \in 0 .. relay'.id_ctr - 1
      BY <1>3, <1>4
    <3> QED  BY <3>1, <3>2
  <2>2. CASE id \in OwnIds(ret'.frames) \cup Groups(ret'.frames)
    <3>1. PICK j \in relay.id_ctr .. relay.id_ctr + n - 1 : id = IdAt(j)
      BY <1>2, <2>2
    <3>2. j \in 0 .. relay'.id_ctr - 1
      BY <1>3, <1>4
    <3> QED  BY <3>1, <3>2
  <2> QED  BY <1>1, <1>6, <2>1, <2>2
<1>7. taken' \subseteq {IdAt(j) : j \in 0 .. relay'.id_ctr - 1}
  BY <1>6
<1> QED  BY <1>4, <1>5, <1>7 DEF IdsInv, IdAt

LEMMA StepKeepsIds ==
  ASSUME EngineOK, HandedUpIsSent, IdsInv, [Next]_vars
  PROVE  IdsInv'
<1>1. CASE UNCHANGED vars
  BY <1>1 DEF vars, IdsInv, IdAt
<1>2. CASE Rewires
  BY <1>2 DEF Rewires, Has, IdsInv, IdAt
<1>3. ASSUME NEW p, NEW t, Learns(p, t) PROVE IdsInv'
  BY <1>3 DEF Learns, Has, IdsInv, IdAt
<1>4. ASSUME NEW p, Forgets(p) PROVE IdsInv'
  BY <1>4 DEF Forgets, Has, IdsInv, IdAt
<1> QED  BY <1>1, <1>2, <1>3, <1>4, EmissionKeepsIds, NextChanges

\* The ids on frames so far are the ones the counter has passed.
THEOREM IdsInvHolds == Spec => []IdsInv
<1>1. Init => IdsInv
  <2> SUFFICES ASSUME Init PROVE IdsInv
    OBVIOUS
  <2>1. relay.id_base = IdBase /\ relay.id_ctr = 0 /\ taken = {}
    BY DEF Init, NewRelay
  <2> QED  BY <2>1, IdNumbers DEF IdsInv
<1>2. ReceiveInv /\ HandedUpIsSent /\ IdsInv /\ [Next]_vars => IdsInv'
  BY StepKeepsIds DEF ReceiveInv
<1> QED  BY <1>1, <1>2, ReceiveInvHolds, OnlySentIsHandedUp, PTL DEF Spec

\* Sends, forwards, sends a port aborted and plans refused half-way, in any order, never
\* put an id or group id on frames that was on frames before, nor one on the frames of
\* two transports, until the counter has gone round: two sets of slices cannot mix.
THEOREM FreshIds == Spec => IdsAreFresh
<1> DEFINE Step ==
      ret' # ret /\ ret'.tag \in {"plan_send", "send", "plan_forward", "forward"} =>
        /\ (OwnIds(ret'.frames) \cup Groups(ret'.frames)) \cap taken = {}
        /\ OwnIds(ret'.frames) \cap Groups(ret'.frames) = {}
        /\ \A t, u \in Used(ret'.frames) :
             t # u => GroupsUsed(ret'.frames, t) \cap GroupsUsed(ret'.frames, u) = {}
<1>1. ReceiveInv /\ HandedUpIsSent /\ IdsInv /\ [Next]_vars => [Step]_vars
  <2> SUFFICES ASSUME ReceiveInv, HandedUpIsSent, IdsInv, Next, ret'.tag \in CallTags
               PROVE  FreshOn(ret'.frames)
    BY DEF CallTags, FreshOn
  <2>1. Emission
    BY NextChanges DEF ReceiveInv, Rewires, Learns, Forgets
  <2>2. PICK n \in 0 .. 1 + Len(ALL) : \E at : Numbered(ret'.frames, n, at)
    BY <2>1 DEF Emission
  <2> QED  BY <2>2, NumberedIsFresh DEF ReceiveInv
<1> QED  BY <1>1, ReceiveInvHolds, OnlySentIsHandedUp, IdsInvHolds, PTL DEF Spec, IdsAreFresh

\* A table never says more than was heard, and all of it until more peers were met than
\* it has rows.
THEOREM RoutesInvHolds == Spec => []RoutesInv
<1>1. Init => RoutesInv
  <2> SUFFICES ASSUME Init PROVE RoutesInv
    OBVIOUS
  <2>1. relay.receivers = EmptyTable /\ relay.registered = {} /\ heard = {} /\ met = {}
    BY DEF Init, NewRelay
  <2>2. WellFormed(EmptyTable) /\ RouteMap(EmptyTable) = [p \in Peer |-> {}]
    BY EmptyTableFacts
  <2>3. \A p \in Peer : ~Known(EmptyTable, p)
    BY <2>2, RouteMapAt
  <2>4. IsFiniteSet({})
    BY FS_EmptySet
  <2>5. RoutesOK(EmptyTable, {}, {})
    BY <2>2, <2>3, <2>4 DEF RoutesOK
  <2> QED  BY <2>1, <2>5 DEF RoutesInv
<1>2. ASSUME EngineOK, IdsInv, HandedUpIsSent, RoutesInv, [Next]_vars PROVE RoutesInv'
  <2>1. CASE UNCHANGED vars
    BY <1>2, <2>1 DEF vars, RoutesInv
  <2>2. CASE Rewires
    <3>1. relay'.registered \subseteq Transport
      BY <1>2, <2>2, EnvironmentAssumption DEF Rewires, RoutesInv, EnvironmentAssumption
    <3>2. relay'.receivers = relay.receivers /\ heard' = heard /\ met' = met
      BY <2>2 DEF Rewires, Has
    <3> QED  BY <1>2, <3>1, <3>2 DEF RoutesInv
  <2>3. ASSUME NEW p \in Peer, NEW t \in Transport, Learns(p, t) PROVE RoutesInv'
    <3>1. /\ relay'.receivers = Add(relay.receivers, p, t) /\ relay'.registered = relay.registered
          /\ heard' = heard \cup {<<p, t>>} /\ met' = met \cup {p}
      BY <2>3 DEF Learns, Has
    <3>2. RoutesOK(Add(relay.receivers, p, t), heard \cup {<<p, t>>}, met \cup {p})
      BY <1>2, LearningKeepsRoutes DEF RoutesInv
    <3> QED  BY <1>2, <3>1, <3>2 DEF RoutesInv
  <2>4. ASSUME NEW p \in Peer, Forgets(p) PROVE RoutesInv'
    <3>1. /\ relay'.receivers = Remove(relay.receivers, p) /\ relay'.registered = relay.registered
          /\ heard' = {pair \in heard : pair[1] # p} /\ met' = met
      BY <2>4 DEF Forgets, Has
    <3>2. RoutesOK(Remove(relay.receivers, p), {pair \in heard : pair[1] # p}, met)
      BY <1>2, ForgettingKeepsRoutes DEF RoutesInv
    <3> QED  BY <1>2, <3>1, <3>2 DEF RoutesInv
  <2>5. CASE Emission
    <3>1. /\ relay'.receivers = relay.receivers /\ relay'.registered = relay.registered
          /\ heard' = heard /\ met' = met
      BY <2>5 DEF Emission, Has
    <3> QED  BY <1>2, <3>1 DEF RoutesInv
  <2> QED  BY <1>2, <2>1, <2>2, <2>3, <2>4, <2>5, NextChanges
<1>3. ReceiveInv /\ IdsInv /\ HandedUpIsSent /\ RoutesInv /\ [Next]_vars => RoutesInv'
  BY <1>2 DEF ReceiveInv
<1> QED  BY <1>1, <1>3, ReceiveInvHolds, OnlySentIsHandedUp, IdsInvHolds, PTL DEF Spec

\* The frames of a plan use its targets, all of them if it is not refused.
LEMMA PlanUses ==
  ASSUME NEW r, NEW payload \in Seq(Nat), NEW dest
  PROVE  LET plan == PlanSend(r, "Text", payload, dest)
             ts == ResolveTargets(r, dest)
         IN  /\ \A t \in Used(plan.frames) : In(t, ts)
             /\ plan.err = "Ok" => \A t : In(t, ts) => t \in Used(plan.frames)
             /\ plan.err = "UnknownReceiver" => \A t : ~In(t, ts)
<1> DEFINE plan == PlanSend(r, "Text", payload, dest)
           ts == ResolveTargets(r, dest)
<1>1. PlanRefused(r, plan, ts) \/ PlanMade(r, plan, ts, payload, dest)
  BY PlanSendFrames
<1> HIDE DEF plan, ts
<1>2. CASE PlanRefused(r, plan, ts)
  <2>1. plan.frames = <<>> /\ plan.err # "Ok" /\ (plan.err = "UnknownReceiver" => ts = <<>>)
    BY <1>2 DEF PlanRefused
  <2>2. Used(plan.frames) = {}
    BY <2>1 DEF Used
  <2>3. ts = <<>> => \A t : ~In(t, ts)
    BY DEF In
  <2> QED  BY <2>1, <2>2, <2>3 DEF plan, ts
<1>3. CASE PlanMade(r, plan, ts, payload, dest)
  <2>1. \A t : t \in Used(plan.frames) <=> \E x : In(x, plan.frames) /\ x.transport = t
    BY <1>3 DEF PlanMade, Used, In
  <2>2. ASSUME NEW x, In(x, plan.frames) PROVE In(x.transport, ts)
    BY <1>3, <2>2 DEF PlanMade, FrameOf, In
  <2>3. ASSUME NEW t, In(t, ts) PROVE \E x : In(x, plan.frames) /\ x.transport = t
    BY <1>3, <2>3 DEF PlanMade, In
  <2>4. plan.err = "Ok"
    BY <1>3 DEF PlanMade
  <2> QED  BY <2>1, <2>2, <2>3, <2>4 DEF plan, ts
<1> QED  BY <1>1, <1>2, <1>3

LEMMA UnicastPlanned ==
  ASSUME EngineOK, IdsInv, HandedUpIsSent, RoutesInv, NEW payload \in Payload,
         NEW dest \in Peer \cup {BROADCAST_ADDR}, PlanSendCall(payload, dest)
  PROVE  UnicastRoutes'
<1> DEFINE plan == PlanSend(relay, "Text", payload, dest)
           ts == ResolveTargets(relay, dest)
           reach == {t \in relay.registered : <<dest, t>> \in heard}
           used == Used(plan.frames)
<1>1. ret' = [tag |-> "plan_send", of |-> [to |-> dest, payload |-> payload],
              frames |-> plan.frames, err |-> plan.err]
  BY DEF PlanSendCall, Emits
<1>2. relay'.registered = relay.registered /\ heard' = heard /\ met' = met
  <2>1. Emission
    BY PlanSendEmits
  <2> QED  BY <2>1 DEF Emission, Has
<1>3. /\ \A t \in used : In(t, ts)
      /\ plan.err = "Ok" => \A t : In(t, ts) => t \in used
      /\ plan.err = "UnknownReceiver" => \A t : ~In(t, ts)
  <2>1. payload \in Seq(Nat)
    BY EnvironmentAssumption DEF EnvironmentAssumption
  <2> QED  BY <2>1, PlanUses
<1>4. ASSUME dest \in Peer
      PROVE  /\ used \subseteq reach
             /\ Cardinality(met) <= NR =>
                  (plan.err = "Ok" => used = reach) /\ (plan.err = "UnknownReceiver" => reach = {})
  <2> DEFINE rm == RouteMap(relay.receivers)
  <2>1. \A t : In(t, ts) <=> t \in relay.registered /\ t \in rm[dest]
    BY <1>4, UnicastTargets
  <2>2. \A t \in Transport : t \in rm[dest] => <<dest, t>> \in heard
    BY <1>4 DEF RoutesInv, RoutesOK
  <2>3. Cardinality(met) <= NR => \A t \in Transport : <<dest, t>> \in heard => t \in rm[dest]
    BY <1>4 DEF RoutesInv, RoutesOK
  <2>4. relay.registered \subseteq Transport
    BY DEF RoutesInv
  <2> HIDE DEF plan, ts, rm, used
  <2>5. \A t : In(t, ts) => t \in reach
    BY <2>1, <2>2, <2>4
  <2>6. Cardinality(met) <= NR => \A t \in reach : In(t, ts)
    BY <2>1, <2>3, <2>4
  <2> HIDE DEF reach
  <2> QED  BY <1>3, <2>5, <2>6
<1>5. Ext!Cardinality(met) = Cardinality(met)
  BY DEF Ext!Cardinality, Cardinality
<1>6. ret'.of.to = dest /\ ret'.frames = plan.frames /\ ret'.err = plan.err
  BY <1>1
<1> HIDE DEF plan
<1> QED  BY <1>2, <1>4, <1>5, <1>6 DEF UnicastRoutes

\* Receiving and sending agree: whatever arrived, was declared or was removed before, a
\* unicast leaves on registered transports its peer was heard on and on no others, and
\* on all of these unless the table had to leave a peer out.
THEOREM Unicasts == Spec => []UnicastRoutes
<1>1. Init => UnicastRoutes
  <2> SUFFICES ASSUME Init PROVE ret.tag # "plan_send"
    BY DEF UnicastRoutes
  <2> QED  BY DEF Init
<1>2. ASSUME EngineOK, IdsInv, HandedUpIsSent, RoutesInv, UnicastRoutes, [Next]_vars
      PROVE  UnicastRoutes'
  <2>1. CASE UNCHANGED vars
    BY <1>2, <2>1 DEF vars, UnicastRoutes
  <2>2. ASSUME NEW payload \in Payload, NEW dest \in Peer \cup {BROADCAST_ADDR},
               PlanSendCall(payload, dest)
        PROVE  UnicastRoutes'
    BY <1>2, <2>2, UnicastPlanned
  <2>3. ASSUME NEW payload \in Payload, NEW dest \in Peer \cup {BROADCAST_ADDR}, NEW t \in Port,
               SendCall(t, payload, dest)
        PROVE  ret'.tag # "plan_send"
    BY <2>3 DEF SendCall, Emits
  <2>4. ASSUME NEW t \in Port, PlanForwardCall(t) \/ ForwardCall(t)
        PROVE  ret'.tag # "plan_send"
    BY <2>4 DEF PlanForwardCall, ForwardCall, Emits
  <2>5. ASSUME ret'.tag \notin CallTags PROVE ret'.tag # "plan_send"
    BY <2>5 DEF CallTags
  <2>6. CASE Arrival
    BY <1>2, <2>5, <2>6, ArrivalLearns DEF Learns, UnicastRoutes
  <2>7. CASE PortChange
    BY <1>2, <2>5, <2>7, PortsAndPeersChange DEF Rewires, UnicastRoutes
  <2>8. ASSUME NEW p \in Declared, (\E t \in Port : AddPeer(p, t)) \/ RemovePeer(p)
        PROVE  UnicastRoutes'
    BY <1>2, <2>5, <2>8, PortsAndPeersChange DEF Learns, Forgets, UnicastRoutes
  <2>9. ret'.tag # "plan_send" => UnicastRoutes'
    BY DEF UnicastRoutes
  <2> QED  BY <1>2, <2>1, <2>2, <2>3, <2>4, <2>6, <2>7, <2>8, <2>9 DEF Next
<1>3. ReceiveInv /\ IdsInv /\ HandedUpIsSent /\ RoutesInv /\ UnicastRoutes /\ [Next]_vars
        => UnicastRoutes'
  BY <1>2 DEF ReceiveInv
<1> QED  BY <1>1, <1>3, ReceiveInvHolds, OnlySentIsHandedUp, IdsInvHolds, RoutesInvHolds, PTL
         DEF Spec

-----------------------------------------------------------------------------
(* The exclusive or of a dedup key.  Its recursive function is, by uniqueness,*)
(* any function that obeys the same equation, and so adds the bits one by one.*)

\* f sums the first k of the values c, for every k.
Sums(f, c) == f = [k \in Nat |-> IF k = 0 THEN 0 ELSE f[k - 1] + c[k - 1]]
SumsTo(f, c, n) == f = [k \in 0 .. n |-> IF k = 0 THEN 0 ELSE f[k - 1] + c[k - 1]]

LEMMA PartialSums ==
  ASSUME NEW c, NEW n \in Nat
  PROVE  \E f : SumsTo(f, c, n)
<1> DEFINE S == {i \in Nat : ~\E f : SumsTo(f, c, i)}
<1>1. S = {}
  <2> SUFFICES ASSUME S # {} PROVE FALSE
    OBVIOUS
  <2>1. S \subseteq Nat
    OBVIOUS
  <2>2. PICK i \in S : \A j \in S : i <= j
    <3> HIDE DEF S
    <3> QED  BY <2>1, LeastExists
  <2>3. i \in Nat /\ ~\E f : SumsTo(f, c, i)
    BY <2>2
  <2>4. CASE i = 0
    <3>1. SumsTo([k \in 0 .. i |-> 0], c, i)
      BY <2>4 DEF SumsTo
    <3> QED  BY <2>3, <3>1
  <2>5. CASE i # 0
    <3>1. i - 1 \in Nat /\ ~(i <= i - 1)
      BY <2>3, <2>5
    <3>2. PICK f : SumsTo(f, c, i - 1)
      BY <2>2, <3>1
    <3> DEFINE g == [k \in 0 .. i |-> IF k = i THEN f[i - 1] + c[i - 1] ELSE f[k]]
    <3>3. ASSUME NEW k \in 0 .. i PROVE g[k] = IF k = 0 THEN 0 ELSE g[k - 1] + c[k - 1]
      <4>1. CASE k = i
        <5>1. g[k] = f[i - 1] + c[i - 1] /\ g[k - 1] = f[i - 1]
          BY <3>1, <4>1
        <5> QED  BY <2>5, <4>1, <5>1
      <4>2. CASE k # i
        <5>1. k \in 0 .. i - 1 /\ g[k] = f[k]
          BY <2>3, <4>2
        <5>2. f[k] = IF k = 0 THEN 0 ELSE f[k - 1] + c[k - 1]
          BY <3>2, <5>1, Zenon DEF SumsTo
        <5>3. k # 0 => g[k - 1] = f[k - 1]
          BY <2>3, <5>1
        <5> QED  BY <5>1, <5>2, <5>3
      <4> QED  BY <4>1, <4>2
    <3>4. SumsTo(g, c, i)
      BY <3>3, Zenon DEF SumsTo
    <3> QED  BY <2>3, <3>4
  <2> QED  BY <2>4, <2>5
<1> QED  BY <1>1

LEMMA PartialSumsAgree ==
  ASSUME NEW c, NEW n \in Nat, NEW m \in Nat, n <= m, NEW f, NEW g, SumsTo(f, c, n), SumsTo(g, c, m)
  PROVE  f[n] = g[n]
<1> DEFINE D == {k \in 0 .. n : f[k] # g[k]}
<1>1. D = {}
  <2> SUFFICES ASSUME D # {} PROVE FALSE
    OBVIOUS
  <2>1. D \subseteq Nat
    OBVIOUS
  <2>2. PICK i \in D : \A j \in D : i <= j
    <3> HIDE DEF D
    <3> QED  BY <2>1, LeastExists
  <2>3. i \in 0 .. n /\ i \in 0 .. m /\ i \in Nat
    BY <2>2
  <2>4. /\ f[i] = IF i = 0 THEN 0 ELSE f[i - 1] + c[i - 1]
        /\ g[i] = IF i = 0 THEN 0 ELSE g[i - 1] + c[i - 1]
    BY <2>3, Zenon DEF SumsTo
  <2>5. i # 0 => f[i - 1] = g[i - 1]
    <3>1. i # 0 => i - 1 \in 0 .. n /\ ~(i <= i - 1)
      BY <2>3
    <3> QED  BY <2>2, <3>1
  <2> QED  BY <2>2, <2>4, <2>5
<1> QED  BY <1>1

LEMMA SumsExist ==
  ASSUME NEW c
  PROVE  \E f : Sums(f, c)
<1> DEFINE F(n) == CHOOSE f : SumsTo(f, c, n)
           h == [k \in Nat |-> F(k)[k]]
<1>1. \A n \in Nat : SumsTo(F(n), c, n)
  BY PartialSums
<1> HIDE DEF F
<1>2. ASSUME NEW k \in Nat PROVE h[k] = IF k = 0 THEN 0 ELSE h[k - 1] + c[k - 1]
  <2>1. SumsTo(F(k), c, k) /\ k \in 0 .. k
    BY <1>1
  <2>2. F(k)[k] = IF k = 0 THEN 0 ELSE F(k)[k - 1] + c[k - 1]
    BY <2>1, Zenon DEF SumsTo
  <2>3. CASE k # 0
    <3>1. k - 1 \in Nat /\ k - 1 <= k
      BY <2>3
    <3>2. F(k - 1)[k - 1] = F(k)[k - 1]
      BY <1>1, <2>1, <3>1, PartialSumsAgree
    <3> QED  BY <2>2, <2>3, <3>1, <3>2
  <2> QED  BY <2>2, <2>3
<1>3. Sums(h, c)
  BY <1>2, Zenon DEF Sums
<1> QED  BY <1>3

\* A number below a power of two and a bit of that weight are told from their sum.
LEMMA BitOnTop ==
  ASSUME NEW p \in Nat, NEW x \in 0 .. p - 1, NEW y \in 0 .. p - 1, NEW u \in {0, 1}, NEW v \in {0, 1},
         x + u * p = y + v * p
  PROVE  x = y /\ u = v
<1>1. CASE u = 0 /\ v = 0
  BY <1>1
<1>2. CASE u = 0 /\ v = 1
  BY <1>2
<1>3. CASE u = 1 /\ v = 0
  BY <1>3
<1>4. CASE u = 1 /\ v = 1
  BY <1>4
<1> QED  BY <1>1, <1>2, <1>3, <1>4

\* The bits of an exclusive or, weighted.
XorBits(a, b) == [k \in Nat |-> ((Bit(a, k) + Bit(b, k)) % 2) * Pow2[k]]

LEMMA BitIsBit ==
  ASSUME NEW a \in Nat, NEW k \in Nat
  PROVE  Bit(a, k) \in {0, 1} /\ a % Pow2[k + 1] = (a % Pow2[k]) + Bit(a, k) * Pow2[k]
<1>1. Pow2[k] \in Nat \ {0} /\ Pow2[k + 1] = 2 * Pow2[k]
  BY Powers
<1> QED  BY <1>1, TopBit, Zenon DEF Bit

LEMMA XorSums ==
  ASSUME NEW a \in Nat, NEW b \in Nat
  PROVE  \E f : /\ Xor(a, b) = f[IdBits] /\ f[0] = 0
                /\ \A k \in Nat : f[k + 1] = f[k] + ((Bit(a, k) + Bit(b, k)) % 2) * Pow2[k]
<1> DEFINE c == XorBits(a, b)
           Low(f) == f = [k \in Nat |-> IF k = 0 THEN 0
                            ELSE f[k - 1] + ((Bit(a, k - 1) + Bit(b, k - 1)) % 2) * Pow2[k - 1]]
           low == CHOOSE f : Low(f)
<1>1. \A f : Sums(f, c) => Low(f)
  <2> SUFFICES ASSUME NEW f, Sums(f, c) PROVE Low(f)
    OBVIOUS
  <2>1. ASSUME NEW k \in Nat, k # 0
        PROVE  c[k - 1] = ((Bit(a, k - 1) + Bit(b, k - 1)) % 2) * Pow2[k - 1]
    <3>1. k - 1 \in Nat
      BY <2>1
    <3> QED  BY <3>1, Zenon DEF XorBits
  <2> HIDE DEF c
  <2> QED  BY <2>1, Zenon DEF Sums
<1>2. Low(low)
  <2>1. \E f : Sums(f, c)
    <3> HIDE DEF c
    <3> QED  BY SumsExist
  <2> HIDE DEF c
  <2>2. \E f : Low(f)
    <3> HIDE DEF Low
    <3> QED  BY <1>1, <2>1, Zenon
  <2> HIDE DEF Low
  <2> QED  BY <2>2, Zenon
<1>3. Xor(a, b) = low[IdBits]
  BY DEF Xor
<1> HIDE DEF low
<1>4. \A k \in Nat : low[k] = IF k = 0 THEN 0
                              ELSE low[k - 1] + ((Bit(a, k - 1) + Bit(b, k - 1)) % 2) * Pow2[k - 1]
  BY <1>2, Zenon
<1>5. low[0] = 0
  BY <1>4
<1>6. ASSUME NEW k \in Nat
      PROVE  low[k + 1] = low[k] + ((Bit(a, k) + Bit(b, k)) % 2) * Pow2[k]
  <2>1. k + 1 \in Nat /\ k + 1 # 0 /\ (k + 1) - 1 = k
    OBVIOUS
  <2>2. low[k + 1] = low[(k + 1) - 1]
                       + ((Bit(a, (k + 1) - 1) + Bit(b, (k + 1) - 1)) % 2) * Pow2[(k + 1) - 1]
    BY <1>4, <2>1, Zenon
  <2> QED  BY <2>1, <2>2, Zenon
<1> QED  BY <1>3, <1>5, <1>6

\* Exclusive or with one number keeps numbers apart.
LEMMA XorTellsApart ==
  ASSUME NEW i \in Nat, NEW a \in 0 .. IdSpace - 1, NEW b \in 0 .. IdSpace - 1,
         Xor(i, a) = Xor(i, b)
  PROVE  a = b
<1>1. a \in Nat /\ b \in Nat /\ IdBits \in Nat /\ a < Pow2[IdBits] /\ b < Pow2[IdBits]
      /\ Pow2[IdBits] \in Nat \ {0}
  BY RelayAssumption, Powers DEF RelayAssumption, IdSpace
<1>2. PICK f : /\ Xor(i, a) = f[IdBits] /\ f[0] = 0
               /\ \A k \in Nat : f[k + 1] = f[k] + ((Bit(i, k) + Bit(a, k)) % 2) * Pow2[k]
  BY <1>1, XorSums
<1>3. PICK g : /\ Xor(i, b) = g[IdBits] /\ g[0] = 0
               /\ \A k \in Nat : g[k + 1] = g[k] + ((Bit(i, k) + Bit(b, k)) % 2) * Pow2[k]
  BY <1>1, XorSums
<1> DEFINE Low(k) == f[k] \in 0 .. Pow2[k] - 1 /\ g[k] \in 0 .. Pow2[k] - 1
           Apart(k) == f[k] = g[k] => a % Pow2[k] = b % Pow2[k]
<1>4. Low(0) /\ Apart(0)
  <2>1. Pow2[0] = 1
    BY Powers
  <2>2. a % 1 = b % 1
    BY <1>1
  <2>3. 0 \in 0 .. 1 - 1
    OBVIOUS
  <2>4. Apart(0)
    BY <2>1, <2>2
  <2>5. Low(0)
    BY <1>2, <1>3, <2>1, <2>3
  <2> QED  BY <2>4, <2>5
<1>5. ASSUME NEW k \in Nat, Low(k), Apart(k) PROVE Low(k + 1) /\ Apart(k + 1)
  <2> DEFINE p == Pow2[k]
             x == Bit(i, k)
             y == Bit(a, k)
             z == Bit(b, k)
             u == (x + y) % 2
             v == (x + z) % 2
  <2>1. /\ p \in Nat \ {0} /\ Pow2[k + 1] = 2 * p
        /\ x \in {0, 1} /\ y \in {0, 1} /\ z \in {0, 1}
        /\ a % Pow2[k + 1] = (a % p) + y * p /\ b % Pow2[k + 1] = (b % p) + z * p
    BY <1>1, BitIsBit, Powers
  <2>2. f[k + 1] = f[k] + u * p /\ g[k + 1] = g[k] + v * p
    BY <1>2, <1>3, Zenon
  <2>3. u \in {0, 1} /\ v \in {0, 1} /\ (u = v => y = z)
    <3> HIDE DEF x, y, z
    <3>1. x + y \in {0, 1, 2} /\ x + z \in {0, 1, 2}
      BY <2>1
    <3>2. 0 % 2 = 0 /\ 1 % 2 = 1 /\ 2 % 2 = 0
      OBVIOUS
    <3>3. u \in {0, 1} /\ v \in {0, 1}
      BY <3>1, <3>2
    <3>4. \A d \in {0, 1} : (0 + d) % 2 = d /\ (1 + d) % 2 = 1 - d
      OBVIOUS
    <3>5. CASE x = 0
      <4>1. u = y /\ v = z
        BY <2>1, <3>4, <3>5
      <4> QED  BY <3>3, <4>1
    <3>6. CASE x = 1
      <4>1. u = 1 - y /\ v = 1 - z
        BY <2>1, <3>4, <3>6
      <4> HIDE DEF u, v
      <4>2. 1 - y = 1 - z => y = z
        BY <2>1
      <4> QED  BY <3>3, <4>1, <4>2
    <3> QED  BY <2>1, <3>5, <3>6
  <2> HIDE DEF u, v, x, y, z
  <2>4. f[k] \in 0 .. p - 1 /\ g[k] \in 0 .. p - 1
    BY <1>5
  <2>5. Low(k + 1)
    <3> HIDE DEF p
    <3>1. \A n \in 0 .. p - 1, w \in {0, 1} : n + w * p \in 0 .. 2 * p - 1
      BY <2>1
    <3> QED  BY <2>1, <2>2, <2>3, <2>4, <3>1
  <2>6. Apart(k + 1)
    <3> SUFFICES ASSUME f[k + 1] = g[k + 1] PROVE a % Pow2[k + 1] = b % Pow2[k + 1]
      OBVIOUS
    <3> DEFINE n == f[k]
               m == g[k]
    <3>1. n + u * p = m + v * p /\ n \in 0 .. p - 1 /\ m \in 0 .. p - 1 /\ p \in Nat
      BY <2>1, <2>2, <2>4
    <3> HIDE DEF n, m, p
    <3>2. n = m /\ u = v
      BY <2>3, <3>1, BitOnTop
    <3>3. f[k] = g[k] /\ y = z
      BY <2>3, <3>2 DEF n, m
    <3>4. a % p = b % p
      BY <1>5, <3>3 DEF p
    <3> QED  BY <2>1, <3>3, <3>4
  <2> QED  BY <2>5, <2>6
<1> DEFINE D == {k \in Nat : ~(Low(k) /\ Apart(k))}
<1>6. D = {}
  <2> SUFFICES ASSUME D # {} PROVE FALSE
    OBVIOUS
  <2>1. D \subseteq Nat
    OBVIOUS
  <2>2. PICK k \in D : \A j \in D : k <= j
    <3> HIDE DEF D
    <3> QED  BY <2>1, LeastExists
  <2> HIDE DEF Low, Apart
  <2>3. k \in Nat /\ ~(Low(k) /\ Apart(k))
    BY <2>2
  <2>4. k # 0
    BY <1>4, <2>3
  <2>5. k - 1 \in Nat /\ ~(k <= k - 1) /\ (k - 1) + 1 = k
    BY <2>3, <2>4
  <2>6. Low(k - 1) /\ Apart(k - 1)
    BY <2>2, <2>5
  <2>7. Low((k - 1) + 1) /\ Apart((k - 1) + 1)
    BY <1>5, <2>5, <2>6
  <2> QED  BY <2>3, <2>5, <2>7
<1>7. Apart(IdBits)
  BY <1>1, <1>6
<1>8. a % Pow2[IdBits] = b % Pow2[IdBits]
  BY <1>2, <1>3, <1>7
<1>9. ASSUME NEW n \in Nat, NEW x \in Nat, x < n PROVE x % n = x
  BY <1>9, Z3
<1> QED  BY <1>1, <1>8, <1>9

-----------------------------------------------------------------------------
(* What the reassembler of a node that receives nothing else makes of slices.*)

\* The slot in which a receiver gathers the slices M of m, cut for t under group g, and
\* the slots of one that receives nothing else.
Gathered(m, t, g, M) ==
  [in_use |-> TRUE, group_id |-> g, total |-> SliceCount(m, t), received |-> Cardinality(M),
   seen_mask |-> M, fragments |-> [q \in Bucket |-> IF q \in M THEN CutSlice(m, t, q) ELSE <<>>],
   template |-> TemplateOf(m, t)]

Gathering(m, t, g, M) ==
  IF M = {} THEN EmptySlots
  ELSE [i \in SlotIndex |-> IF i = 1 THEN Gathered(m, t, g, M) ELSE EmptySlot]

\* A message that split may cut for t, as a caller of plan_send or plan_forward has it.
Cuttable(m, t) ==
  /\ t \in Transport /\ Sliced(m, t) /\ SliceCount(m, t) <= MAX_FRAGMENTS
  /\ m.payload \in Seq(Nat) /\ FitsMessage(m.payload)

\* The header of a slice is one the receiver takes.
LEMMA SliceIsValid ==
  ASSUME NEW m, NEW t, Cuttable(m, t), NEW g \in Nat, NEW q \in 0 .. SliceCount(m, t) - 1
  PROVE  LET f == SliceOver(m, t, g, q).frag
         IN  /\ f = Header(m, t, g, q) /\ f # NoFrag /\ ValidHeader(f)
             /\ f.group_id = g /\ f.seq = q /\ f.total = SliceCount(m, t)
             /\ SliceCount(m, t) \in Nat /\ SliceCount(m, t) > 1 /\ q \in Bucket
             /\ 0 .. SliceCount(m, t) - 1 \subseteq Bucket
<1> DEFINE c == SliceCount(m, t)
           f == SliceOver(m, t, g, q).frag
<1>1. c \in Nat /\ c > 1
  BY SlicesAreSeveral DEF Cuttable, Sliced
<1>2. c <= PER_SLOT /\ PER_SLOT \in Nat /\ PER_SLOT <= 64
  BY <1>1, SliceAssumption, ReassemblerAssumption, FragmenterAssumption
  DEF Cuttable, SliceAssumption, ReassemblerAssumption, FragmenterAssumption
<1>3. f = Header(m, t, g, q) /\ f.group_id = g /\ f.seq = q /\ f.total = c
  BY DEF SliceOver, Header
<1>4. q \in Nat /\ q < c /\ q \in Bucket /\ 0 .. c - 1 \subseteq Bucket
  BY <1>1, <1>2 DEF Bucket
<1>5. f # NoFrag
  <2>1. f \in [group_id : Nat, seq : Nat, total : Nat]
    BY <1>1, <1>3, <1>4 DEF Header
  <2> QED  BY <2>1, EnvironmentAssumption DEF EnvironmentAssumption
<1> HIDE DEF c, f
<1>6. ValidHeader(f)
  BY <1>1, <1>2, <1>3, <1>4 DEF ValidHeader
<1> QED  BY <1>1, <1>3, <1>4, <1>5, <1>6 DEF c, f

\* The slot a slice is stored in, and what that slot holds before.
LEMMA GatheringOpens ==
  ASSUME NEW m, NEW t, Cuttable(m, t), NEW g \in Nat, NEW q \in 0 .. SliceCount(m, t) - 1,
         NEW M, M \subseteq 0 .. SliceCount(m, t) - 1,
         NEW sl, sl = Gathering(m, t, g, M)
  PROVE  LET msg == SliceOver(m, t, g, q)
             f == msg.frag
         IN  /\ ~(Existing(sl, f) = {} /\ FreeSlots(sl) = {})
             /\ SlotFor(sl, f) = 1 /\ 1 \in SlotIndex
             /\ FoundOrClaimed(sl, msg) = Gathered(m, t, g, M)
<1> DEFINE msg == SliceOver(m, t, g, q)
           f == msg.frag
           c == SliceCount(m, t)
<1>1. f.group_id = g /\ f.total = c
  BY DEF SliceOver, Header
<1>2. 1 \in SlotIndex /\ \A i \in SlotIndex : i \in Nat /\ 1 <= i
  BY ReassemblerAssumption DEF ReassemblerAssumption, SlotIndex
<1>3. First({1}) = 1
  BY DEF First
<1>4. ~EmptySlot.in_use /\ EmptySlot.fragments = [p \in Bucket |-> <<>>]
  BY DEF EmptySlot
<1>5. CASE M = {}
  <2>1. sl = [i \in SlotIndex |-> EmptySlot]
    BY <1>5 DEF Gathering, EmptySlots
  <2>2. Existing(sl, f) = {} /\ FreeSlots(sl) = SlotIndex
    BY <1>4, <2>1 DEF Existing, Matches, FreeSlots
  <2>3. First(SlotIndex) = 1
    <3>1. First(SlotIndex) \in SlotIndex /\ \A j \in SlotIndex : First(SlotIndex) <= j
      BY <1>2 DEF First
    <3> QED  BY <1>2, <3>1
  <2>4. SlotFor(sl, f) = 1
    BY <2>2, <2>3 DEF SlotFor
  <2>5. FoundOrClaimed(sl, msg) = Claimed(EmptySlot, msg)
    BY <1>2, <2>1, <2>2, <2>4 DEF FoundOrClaimed
  <2>6. [msg EXCEPT !.payload = <<>>, !.frag = NoFrag] = TemplateOf(m, t)
    <3> DEFINE e == [id |-> m.id, ttl |-> m.ttl, origin |-> t, from |-> m.from, to |-> m.to,
                     kind |-> m.kind, payload |-> <<>>, frag |-> Header(m, t, g, q)]
    <3>1. [msg EXCEPT !.payload = <<>>] = e
      BY DEF SliceOver
    <3>2. [e EXCEPT !.frag = NoFrag] = TemplateOf(m, t)
      BY DEF TemplateOf
    <3> QED  BY <3>1, <3>2
  <2>7. Cardinality({}) = 0
    BY FS_EmptySet
  <2>8. [p \in Bucket |-> IF p \in {} THEN CutSlice(m, t, p) ELSE <<>>] = [p \in Bucket |-> <<>>]
    OBVIOUS
  <2> HIDE DEF msg, f, c
  <2>9. Claimed(EmptySlot, msg) = Gathered(m, t, g, M)
    BY <1>1, <1>4, <1>5, <2>6, <2>7, <2>8 DEF Claimed, Gathered, f, c
  <2> QED  BY <1>2, <2>2, <2>4, <2>5, <2>9 DEF f, msg
<1>6. CASE M # {}
  <2> DEFINE o == Gathered(m, t, g, M)
  <2>1. o.in_use /\ o.group_id = g /\ o.total = c
    BY DEF Gathered
  <2> HIDE DEF o, f, c
  <2>2. sl = [i \in SlotIndex |-> IF i = 1 THEN o ELSE EmptySlot]
    BY <1>6 DEF Gathering, o
  <2>3. Existing(sl, f) = {1}
    BY <1>1, <1>2, <1>4, <2>1, <2>2 DEF Existing, Matches
  <2>4. SlotFor(sl, f) = 1
    BY <1>3, <2>3 DEF SlotFor
  <2>5. FoundOrClaimed(sl, msg) = o
    BY <1>2, <2>2, <2>3, <2>4 DEF FoundOrClaimed, f
  <2> QED  BY <1>2, <2>3, <2>4, <2>5 DEF f, o
<1> QED  BY <1>5, <1>6

\* One more slice is stored, and the last one completes the message.
Gains(r, m, t, g, M, q) ==
  /\ M \cup {q} # 0 .. SliceCount(m, t) - 1 =>
       r.slots = Gathering(m, t, g, M \cup {q}) /\ r.out = Buffered
  /\ M \cup {q} = 0 .. SliceCount(m, t) - 1 => r.out = Complete(Over(m, t))

LEMMA OneMore ==
  ASSUME NEW m, NEW t, Cuttable(m, t), NEW g \in Nat, NEW q \in 0 .. SliceCount(m, t) - 1,
         NEW M, M \subseteq 0 .. SliceCount(m, t) - 1, q \notin M,
         NEW sl, sl = Gathering(m, t, g, M)
  PROVE  Gains(Ingest(sl, SliceOver(m, t, g, q)), m, t, g, M, q)
<1> DEFINE msg == SliceOver(m, t, g, q)
           f == msg.frag
           c == SliceCount(m, t)
           o == Gathered(m, t, g, M)
           M2 == M \cup {q}
           s == Gathered(m, t, g, M2)
           r == Ingest(sl, msg)
<1>1. /\ f # NoFrag /\ ValidHeader(f) /\ f.seq = q /\ q \in Bucket
      /\ c \in Nat /\ c > 1 /\ 0 .. c - 1 \subseteq Bucket
  BY SliceIsValid
<1>2. /\ ~(Existing(sl, f) = {} /\ FreeSlots(sl) = {})
      /\ SlotFor(sl, f) = 1 /\ 1 \in SlotIndex /\ FoundOrClaimed(sl, msg) = o
  BY GatheringOpens
<1>3. ~AlreadyHas(o, f)
  BY <1>1 DEF AlreadyHas, Gathered
<1>4. IsFiniteSet(M) /\ Cardinality(M) \in Nat /\ Cardinality(M2) = Cardinality(M) + 1
  <2>1. IsFiniteSet(0 .. c - 1)
    BY <1>1, SliceSetSize
  <2>2. IsFiniteSet(M)
    BY <2>1, FS_Subset
  <2> QED  BY <2>2, FS_AddElement, FS_CardinalityType
<1>5. msg.payload = CutSlice(m, t, q)
  BY DEF SliceOver
<1>6. Stored(o, msg) = s
  <2>1. [o.fragments EXCEPT ![q] = CutSlice(m, t, q)]
          = [p \in Bucket |-> IF p \in M2 THEN CutSlice(m, t, p) ELSE <<>>]
    BY <1>1 DEF Gathered
  <2>2. /\ o.in_use = TRUE /\ o.group_id = g /\ o.total = c /\ o.received = Cardinality(M)
        /\ o.seen_mask = M /\ o.template = TemplateOf(m, t)
    BY DEF Gathered
  <2> HIDE DEF o, msg, f
  <2>3. Stored(o, msg) = [in_use |-> o.in_use, group_id |-> o.group_id, total |-> o.total,
           received |-> o.received + 1, seen_mask |-> o.seen_mask \cup {q},
           fragments |-> [o.fragments EXCEPT ![q] = CutSlice(m, t, q)],
           template |-> o.template]
    BY <1>1, <1>5 DEF Stored, f
  <2> HIDE DEF c
  <2> QED  BY <1>4, <2>1, <2>2, <2>3 DEF Gathered, c
<1>7. s.received = Cardinality(M2) /\ s.total = c /\ s.template = TemplateOf(m, t)
      /\ s.fragments = [p \in Bucket |-> IF p \in M2 THEN CutSlice(m, t, p) ELSE <<>>]
  BY DEF Gathered
<1>8. r = IF s.received < s.total THEN [slots |-> [sl EXCEPT ![1] = s], out |-> Buffered]
          ELSE IF Len(Assembled(s)) > MAX_PAYLOAD
               THEN [slots |-> [sl EXCEPT ![1] = EmptySlot], out |-> Dropped("PayloadTooLarge")]
          ELSE [slots |-> [sl EXCEPT ![1] = EmptySlot],
                out |-> Complete([s.template EXCEPT !.payload = Assembled(s)])]
  <2> HIDE DEF s, o, msg
  <2> QED  BY <1>1, <1>2, <1>3, <1>6 DEF Ingest
<1>9. Cardinality(M2) < c <=> M2 # 0 .. c - 1
  <2>1. M2 \subseteq 0 .. c - 1
    OBVIOUS
  <2> HIDE DEF c, M2
  <2> QED  BY <1>1, <2>1, MissesOne
<1> HIDE DEF s, o, msg, f
<1>10. ASSUME M2 # 0 .. c - 1 PROVE r.slots = Gathering(m, t, g, M2) /\ r.out = Buffered
  <2>1. r = [slots |-> [sl EXCEPT ![1] = s], out |-> Buffered]
    BY <1>7, <1>8, <1>9, <1>10
  <2>2. [sl EXCEPT ![1] = s] = [i \in SlotIndex |-> IF i = 1 THEN s ELSE EmptySlot]
    BY <1>2 DEF Gathering, EmptySlots
  <2>3. Gathering(m, t, g, M2) = [i \in SlotIndex |-> IF i = 1 THEN s ELSE EmptySlot]
    BY DEF Gathering, s
  <2> QED  BY <2>1, <2>2, <2>3
<1>11. ASSUME M2 = 0 .. c - 1 PROVE r.out = Complete(Over(m, t))
  <2>1. Assembled(s) = m.payload
    <3>1. \A k \in 1 .. c : k - 1 \in Bucket /\ k - 1 \in M2
      BY <1>1, <1>11
    <3>2. [k \in 1 .. s.total |-> s.fragments[k - 1]] = [k \in 1 .. c |-> CutSlice(m, t, k - 1)]
      BY <1>7, <3>1
    <3>3. Concat([k \in 1 .. c |-> CutSlice(m, t, k - 1)]) = m.payload
      <4>1. Mtu(t) # 0 /\ Len(m.payload) # 0 /\ m.payload \in Seq(Nat) /\ t \in Transport
        BY SlicesAreSeveral DEF Cuttable, Sliced
      <4> QED  BY <4>1, SlicesJoin
    <3> QED  BY <3>2, <3>3 DEF Assembled
  <2>2. ~(Len(Assembled(s)) > MAX_PAYLOAD)
    BY <2>1, ReassemblerAssumption DEF Cuttable, FitsMessage, ReassemblerAssumption
  <2>3. [TemplateOf(m, t) EXCEPT !.payload = m.payload] = Over(m, t)
    BY DEF TemplateOf, Over
  <2>4. r.out = Complete([s.template EXCEPT !.payload = Assembled(s)])
    BY <1>7, <1>8, <1>9, <1>11, <2>2
  <2> QED  BY <1>7, <2>1, <2>3, <2>4
<1> QED  BY <1>10, <1>11 DEF Gains, msg

-----------------------------------------------------------------------------
(* What the engine makes of a frame that is new to it, and of one frame after*)
(* another.                                                                  *)

\* What ingest leaves of a frame whose key is new.
LEMMA NewFrame ==
  ASSUME NEW r, IsEngine(r), NEW t, NEW frame, NEW msg, msg = Received(frame, t),
         NEW key, key = DedupKey(msg), ~Contains(r.seen, key)
  PROVE  LET result == IngestFrame(r, t, frame)
             i == Ingest(r.slots, msg)
         IN  /\ IsEngine(result.relay) /\ result.relay.self_addr = r.self_addr
             /\ result.relay.seen = Insert(r.seen, key) /\ result.relay.slots = i.slots
             /\ result.out = Directed(r, i.out)
<1> DEFINE i == Ingest(r.slots, msg)
           x == Learnt(r, msg, t)
           learnt == [r EXCEPT !.receivers = x]
           result == IngestFrame(r, t, frame)
<1>1. IsEngine(learnt) /\ learnt.self_addr = r.self_addr /\ learnt.slots = r.slots /\ learnt.seen = r.seen
  BY EngineUpdates DEF SameBuffers
<1>2. /\ result.relay = [learnt EXCEPT !.seen = CheckAndInsert(@, key), !.slots = i.slots]
      /\ result.out = Directed(r, i.out)
  BY DEF IngestFrame
<1> HIDE DEF learnt, result, x, i
<1>3. [learnt EXCEPT !.seen = CheckAndInsert(@, key), !.slots = i.slots]
        = [learnt EXCEPT !.seen = CheckAndInsert(learnt.seen, key), !.slots = i.slots]
  OBVIOUS
<1>4. CheckAndInsert(learnt.seen, key) = Insert(r.seen, key)
  BY <1>1 DEF CheckAndInsert
<1> DEFINE y == i.slots
           z == Insert(r.seen, key)
<1>5. result.relay = Rebuffered(learnt, z, y)
  BY <1>2, <1>3, <1>4, Zenon DEF Rebuffered
<1> HIDE DEF y, z
<1>6. /\ IsEngine(result.relay) /\ result.relay.self_addr = learnt.self_addr
      /\ result.relay.seen = z /\ result.relay.slots = y
  BY <1>1, <1>5, BuffersUpdate
<1> QED  BY <1>1, <1>2, <1>6 DEF i, result, y, z

\* A key in the ring after an insertion was inserted then or was there before.
LEMMA InsertAddsOne ==
  ASSUME NEW c, IsRing(c), NEW key
  PROVE  /\ IsRing(Insert(c, key))
         /\ \A x : Contains(Insert(c, key), x) => x = key \/ Contains(c, x)
<1> DEFINE c2 == Insert(c, key)
<1>1. IsRing(c2)
  BY InsertShifts
<1>2. \A i \in Slot : /\ c2.ids[i] = IF i = c.next THEN key ELSE c.ids[i]
                     /\ c2.valid[i] = IF i = c.next THEN TRUE ELSE c.valid[i]
  <2>1. c2.ids = [c.ids EXCEPT ![c.next] = key] /\ c2.valid = [c.valid EXCEPT ![c.next] = TRUE]
    BY DEF Insert
  <2> HIDE DEF c2
  <2>2. DOMAIN c.ids = Slot /\ DOMAIN c.valid = Slot
    BY DEF IsRing
  <2> QED  BY <2>1, <2>2, Zenon
<1> HIDE DEF c2
<1>3. ASSUME NEW x, Contains(c2, x) PROVE x = key \/ Contains(c, x)
  <2>1. PICK i \in Slot : c2.valid[i] /\ c2.ids[i] = x
    BY <1>3 DEF Contains
  <2>2. CASE i = c.next
    BY <1>2, <2>1, <2>2
  <2>3. CASE i # c.next
    BY <1>2, <2>1, <2>3 DEF Contains
  <2> QED  BY <2>2, <2>3
<1> QED  BY <1>1, <1>3 DEF c2

\* The node that knows nothing yet.
LEMMA NewRelayFacts ==
  ASSUME NEW dest
  PROVE  LET r == NewRelay(dest, 0)
         IN  /\ IsEngine(r) /\ r.self_addr = dest /\ r.slots = EmptySlots
             /\ IsRing(r.seen) /\ \A x : ~Contains(r.seen, x)
<1>1. 0 \in Slot
  BY CacheAssumption DEF CacheAssumption, Slot
<1> QED  BY <1>1 DEF NewRelay, IsEngine, IsRing, EmptyCache, Contains

\* The frames received one by one: what the node has become and was handed after each.
Fed(r, up, f) ==
  LET i == IngestFrame(r, f.transport, f.message)
  IN  [relay |-> i.relay, up |-> IF HandsUp(i.out) THEN Append(up, i.out.msg) ELSE up]

Feeds(g, s, dest, n) ==
  g = [k \in 0 .. n |-> IF k = 0 THEN [relay |-> NewRelay(dest, 0), up |-> <<>>]
                        ELSE Fed(g[k - 1].relay, g[k - 1].up, s[k])]

LEMMA FeedsExists ==
  ASSUME NEW s, NEW dest, NEW n \in Nat
  PROVE  \E g : Feeds(g, s, dest, n)
<1> DEFINE S == {i \in Nat : ~\E g : Feeds(g, s, dest, i)}
<1>1. S = {}
  <2> SUFFICES ASSUME S # {} PROVE FALSE
    OBVIOUS
  <2>1. S \subseteq Nat
    OBVIOUS
  <2>2. PICK i \in S : \A j \in S : i <= j
    <3> HIDE DEF S
    <3> QED  BY <2>1, LeastExists
  <2>3. i \in Nat /\ ~\E g : Feeds(g, s, dest, i)
    BY <2>2
  <2> DEFINE new == [relay |-> NewRelay(dest, 0), up |-> <<>>]
  <2>4. CASE i = 0
    <3>1. Feeds([k \in 0 .. i |-> new], s, dest, i)
      BY <2>4 DEF Feeds
    <3> QED  BY <2>3, <3>1
  <2>5. CASE i # 0
    <3>1. i - 1 \in Nat /\ ~(i <= i - 1)
      BY <2>3, <2>5
    <3>2. PICK f : Feeds(f, s, dest, i - 1)
      BY <2>2, <3>1
    <3> DEFINE last == Fed(f[i - 1].relay, f[i - 1].up, s[i])
               g == [k \in 0 .. i |-> IF k = i THEN last ELSE f[k]]
    <3> HIDE DEF new
    <3>3. ASSUME NEW k \in 0 .. i
          PROVE  g[k] = IF k = 0 THEN new ELSE Fed(g[k - 1].relay, g[k - 1].up, s[k])
      <4>1. CASE k = i
        <5> HIDE DEF last
        <5>1. g[k] = last /\ g[k - 1] = f[i - 1]
          BY <3>1, <4>1
        <5> QED  BY <2>5, <4>1, <5>1 DEF last
      <4>2. CASE k # i
        <5>1. k \in 0 .. i - 1 /\ g[k] = f[k]
          BY <2>3, <4>2
        <5>2. f[k] = IF k = 0 THEN new ELSE Fed(f[k - 1].relay, f[k - 1].up, s[k])
          BY <3>2, <5>1, Zenon DEF Feeds, new
        <5>3. k # 0 => g[k - 1] = f[k - 1]
          BY <2>3, <5>1
        <5> QED  BY <5>1, <5>2, <5>3
      <4> QED  BY <4>1, <4>2
    <3>4. Feeds(g, s, dest, i)
      BY <3>3, Zenon DEF Feeds, new
    <3> QED  BY <2>3, <3>4
  <2> QED  BY <2>4, <2>5
<1> QED  BY <1>1

LEMMA ReceiveFeeds ==
  ASSUME NEW s, Len(s) \in Nat, NEW dest
  PROVE  \E g : Feeds(g, s, dest, Len(s)) /\ Receive(s, dest) = g[Len(s)].up
<1> DEFINE Same(g) == g = [k \in 0 .. Len(s) |->
        IF k = 0 THEN [relay |-> NewRelay(dest, 0), up |-> <<>>]
        ELSE LET r == IngestFrame(g[k - 1].relay, s[k].transport, s[k].message)
             IN  [relay |-> r.relay,
                  up |-> IF HandsUp(r.out) THEN Append(g[k - 1].up, r.out.msg) ELSE g[k - 1].up]]
           got == CHOOSE g : Same(g)
<1>1. \A g : Feeds(g, s, dest, Len(s)) <=> Same(g)
  BY DEF Feeds, Fed
<1>2. \E g : Same(g)
  <2>1. \E g : Feeds(g, s, dest, Len(s))
    BY FeedsExists
  <2> HIDE DEF Same
  <2> QED  BY <1>1, <2>1
<1>3. Same(got)
  <2> HIDE DEF Same
  <2> QED  BY <1>2
<1>4. Receive(s, dest) = got[Len(s)].up
  BY DEF Receive
<1> HIDE DEF got, Same
<1> QED  BY <1>1, <1>3, <1>4

-----------------------------------------------------------------------------
(* The frames of one message.                                                *)

\* An unsplit message, as a plan's caller has it.
IsMessage(m) ==
  /\ m = Prepare(m.id, m.ttl, m.origin, m.from, m.to, m.kind, m.payload)
  /\ m.id \in Nat /\ m.payload \in Seq(Nat) /\ FitsMessage(m.payload)

LEMMA MessageReceived ==
  ASSUME NEW m, IsMessage(m), NEW t
  PROVE  m.frag = NoFrag /\ Received(m, t) = Over(m, t)
<1> DEFINE e == [id |-> m.id, ttl |-> m.ttl, origin |-> m.origin, from |-> m.from, to |-> m.to,
                 kind |-> m.kind, payload |-> m.payload, frag |-> NoFrag]
<1>1. m = e
  BY DEF IsMessage, Prepare
<1>2. e.frag = NoFrag
  OBVIOUS
<1>3. [e EXCEPT !.origin = t] = Over(m, t)
  BY DEF Over
<1> HIDE DEF e
<1>4. [m EXCEPT !.origin = t] = [e EXCEPT !.origin = t]
  BY <1>1, Zenon
<1> QED  BY <1>1, <1>2, <1>3, <1>4, Zenon DEF Received

\* A message that is whole goes to the node it is addressed to.
LEMMA WholeIsHandedUp ==
  ASSUME NEW r, NEW m, NEW t, r.self_addr = m.to,
         NEW out, out \in {Passthrough(Over(m, t)), Complete(Over(m, t))}
  PROVE  Directed(r, out) = [tag |-> "Complete", msg |-> Over(m, t)]
<1>1. out.tag \in {"Passthrough", "Complete"} /\ out.msg = Over(m, t)
  BY DEF Passthrough, Complete
<1>2. Directed(r, out) = Direct(r, Over(m, t))
  BY <1>1 DEF Directed
<1>3. Over(m, t).to = m.to
  BY DEF Over
<1> QED  BY <1>2, <1>3 DEF Direct

\* The slices of one message have different keys: an exclusive or with the id keeps the
\* shifted slice numbers apart, and these fit an id.
LEMMA SliceKeysDiffer ==
  ASSUME NEW m, NEW t, Cuttable(m, t), IsMessage(m),
         NEW q \in 0 .. SliceCount(m, t) - 1, NEW p \in 0 .. SliceCount(m, t) - 1,
         SliceKey(m.id, q) = SliceKey(m.id, p)
  PROVE  q = p
<1> DEFINE w == Pow2[SeqBits]
           u == IdSpace
           c == SliceCount(m, t)
<1>1. w \in Nat \ {0} /\ u \in Nat \ {0}
  BY RelayAssumption, Powers DEF RelayAssumption, IdSpace
<1>2. c \in Nat /\ c <= MAX_FRAGMENTS /\ MAX_FRAGMENTS \in Nat /\ MAX_FRAGMENTS * w <= u
  BY SlicesAreSeveral, SliceAssumption, FragmenterAssumption
  DEF Cuttable, Sliced, SliceAssumption, FragmenterAssumption
<1> HIDE DEF c, w, u
<1>3. ASSUME NEW n \in 0 .. c - 1 PROVE n \in Nat /\ n * w \in 0 .. u - 1 /\ (n * w) % u = n * w
  <2>1. n \in Nat /\ n + 1 <= MAX_FRAGMENTS
    BY <1>2
  <2>2. n * w \in Nat /\ (n + 1) * w <= MAX_FRAGMENTS * w /\ (n + 1) * w = n * w + w
    BY <1>1, <1>2, <2>1, Multiples
  <2> DEFINE x == n * w
             y == MAX_FRAGMENTS * w
             z == (n + 1) * w
  <2>3. x \in Nat /\ z <= y /\ z = x + w /\ y <= u
    BY <1>2, <2>2
  <2>4. y \in Nat
    BY <1>1, <1>2, Multiples
  <2> HIDE DEF x, y, z
  <2>5. x \in 0 .. u - 1
    BY <1>1, <2>3, <2>4
  <2>6. x % u = x
    BY <1>1, <2>5, Z3
  <2> QED  BY <2>1, <2>5, <2>6 DEF x
<1>4. q \in 0 .. c - 1 /\ p \in 0 .. c - 1
  BY DEF c
<1>5. Xor(m.id, q * w) = Xor(m.id, p * w)
  BY <1>3, <1>4 DEF SliceKey, w, u
<1>6. q * w = p * w
  <2> DEFINE x == q * w
             y == p * w
  <2>1. x \in 0 .. IdSpace - 1 /\ y \in 0 .. IdSpace - 1 /\ Xor(m.id, x) = Xor(m.id, y)
    BY <1>3, <1>4, <1>5 DEF u
  <2>2. m.id \in Nat
    BY DEF IsMessage
  <2> HIDE DEF x, y
  <2>3. x = y
    BY <2>1, <2>2, XorTellsApart
  <2> QED  BY <2>3 DEF x, y
<1>7. ASSUME NEW a \in Nat, NEW b \in Nat, a < b PROVE a * w # b * w
  <2>1. (a + 1) * w = a * w + w /\ a * w \in Nat
    BY <1>1, Multiples
  <2>2. (a + 1) * w <= b * w
    BY <1>1, <1>7, Multiples
  <2>3. b * w \in Nat
    BY <1>1, Multiples
  <2> DEFINE x == a * w
             y == b * w
             z == (a + 1) * w
  <2>4. x \in Nat /\ y \in Nat /\ z = x + w /\ z <= y
    BY <2>1, <2>2, <2>3
  <2> HIDE DEF x, y, z
  <2>5. x # y
    BY <1>1, <2>4
  <2> QED  BY <2>5 DEF x, y
<1>8. q \in Nat /\ p \in Nat
  BY <1>3, <1>4
<1> QED  BY <1>6, <1>7, <1>8

\* A receiver that has the slices M of m and nothing else.
Midway(x, m, t, g, M) ==
  /\ x.up = <<>> /\ IsEngine(x.relay) /\ x.relay.self_addr = m.to
  /\ x.relay.slots = Gathering(m, t, g, M)
  /\ IsRing(x.relay.seen)
  /\ \A y : Contains(x.relay.seen, y) => \E q \in M : y = SliceKey(m.id, q)

SliceFrame(m, t, addr, g, q) == [transport |-> t, addr |-> addr, message |-> SliceOf(m, t, g, q)]

\* One more slice: it is no duplicate, and the last one completes the message.
Advances(y, m, t, g, M) ==
  /\ M # 0 .. SliceCount(m, t) - 1 => Midway(y, m, t, g, M)
  /\ M = 0 .. SliceCount(m, t) - 1 => y.up = <<Over(m, t)>>

LEMMA SliceFed ==
  ASSUME NEW m, NEW t, Cuttable(m, t), IsMessage(m), NEW g \in Nat, NEW addr,
         NEW M, M \subseteq 0 .. SliceCount(m, t) - 1,
         NEW q \in 0 .. SliceCount(m, t) - 1, q \notin M,
         NEW x, Midway(x, m, t, g, M),
         NEW y, y = Fed(x.relay, x.up, SliceFrame(m, t, addr, g, q))
  PROVE  Advances(y, m, t, g, M \cup {q})
<1> DEFINE r == x.relay
           msg == SliceOver(m, t, g, q)
           key == SliceKey(m.id, q)
           frame == SliceOf(m, t, g, q)
           i == Ingest(r.slots, msg)
           result == IngestFrame(r, t, frame)
           all == 0 .. SliceCount(m, t) - 1
<1>1. msg = Received(frame, t)
  BY DEF Received, SliceOf, SliceOver, Header
<1>2. key = DedupKey(msg)
  <2>1. msg.frag # NoFrag /\ msg.frag.seq = q
    BY SliceIsValid
  <2>2. msg.id = m.id
    BY DEF SliceOver
  <2> QED  BY <2>1, <2>2, Zenon DEF DedupKey, SliceKey
<1>3. ~Contains(r.seen, key)
  <2> SUFFICES ASSUME Contains(r.seen, key) PROVE FALSE
    OBVIOUS
  <2>1. PICK p \in M : key = SliceKey(m.id, p)
    BY DEF Midway
  <2>2. p = q
    BY <2>1, SliceKeysDiffer
  <2> QED  BY <2>1, <2>2
<1>4. IsEngine(r) /\ r.self_addr = m.to /\ r.slots = Gathering(m, t, g, M) /\ IsRing(r.seen) /\ x.up = <<>>
  BY DEF Midway
<1>5. /\ M \cup {q} # all => i.slots = Gathering(m, t, g, M \cup {q}) /\ i.out = Buffered
      /\ M \cup {q} = all => i.out = Complete(Over(m, t))
  <2> HIDE DEF r
  <2>1. Gains(Ingest(r.slots, msg), m, t, g, M, q)
    BY <1>4, OneMore
  <2> QED  BY <2>1 DEF Gains
<1> HIDE DEF msg, key, frame, r, all
<1>6. /\ IsEngine(result.relay) /\ result.relay.self_addr = r.self_addr
      /\ result.relay.seen = Insert(r.seen, key) /\ result.relay.slots = i.slots
      /\ result.out = Directed(r, i.out)
  BY <1>1, <1>2, <1>3, <1>4, NewFrame
<1>7. y = [relay |-> result.relay, up |-> IF HandsUp(result.out) THEN Append(<<>>, result.out.msg) ELSE <<>>]
  <2>1. SliceFrame(m, t, addr, g, q).transport = t /\ SliceFrame(m, t, addr, g, q).message = frame
    BY DEF SliceFrame, frame
  <2> HIDE DEF result
  <2> QED  BY <1>4, <2>1 DEF Fed, r, result
<1> HIDE DEF result, i
<1>8. ASSUME M \cup {q} # all PROVE Midway(y, m, t, g, M \cup {q})
  <2>1. result.out = Buffered
    BY <1>5, <1>6, <1>8 DEF Directed, Buffered
  <2>2. ~HandsUp(result.out)
    BY <2>1 DEF HandsUp, Buffered
  <2>3. y.up = <<>> /\ y.relay = result.relay
    BY <1>7, <2>2
  <2>4. /\ IsRing(Insert(r.seen, key))
        /\ \A z : Contains(Insert(r.seen, key), z) => z = key \/ Contains(r.seen, z)
    BY <1>4, InsertAddsOne
  <2>5. ASSUME NEW z, Contains(y.relay.seen, z) PROVE \E p \in M \cup {q} : z = SliceKey(m.id, p)
    <3>1. z = key \/ Contains(r.seen, z)
      BY <1>6, <2>3, <2>4, <2>5
    <3>2. CASE z = key
      BY <3>2 DEF key
    <3>3. CASE Contains(r.seen, z)
      BY <3>3 DEF Midway, r
    <3> QED  BY <3>1, <3>2, <3>3
  <2>6. IsEngine(y.relay) /\ y.relay.self_addr = m.to /\ IsRing(y.relay.seen)
        /\ y.relay.slots = Gathering(m, t, g, M \cup {q})
    BY <1>4, <1>5, <1>6, <1>8, <2>3, <2>4
  <2> QED  BY <2>3, <2>5, <2>6 DEF Midway
<1>9. ASSUME M \cup {q} = all PROVE y.up = <<Over(m, t)>>
  <2>1. i.out = Complete(Over(m, t))
    BY <1>5, <1>9
  <2>2. result.out = [tag |-> "Complete", msg |-> Over(m, t)]
    <3>1. i.out \in {Passthrough(Over(m, t)), Complete(Over(m, t))}
      BY <2>1
    <3> QED  BY <1>4, <1>6, <3>1, WholeIsHandedUp
  <2>3. HandsUp(result.out) /\ result.out.msg = Over(m, t)
    BY <2>2 DEF HandsUp
  <2> DEFINE z == Over(m, t)
  <2> HIDE DEF z
  <2>4. y.up = Append(<<>>, z)
    BY <1>7, <2>3 DEF z
  <2> QED  BY <2>4 DEF z
<1> QED  BY <1>8, <1>9 DEF all, Advances

\* The slices of m in some order, num[j] being the number of the j-th.
SlicesIn(s, m, t, addr, g, num) ==
  /\ Len(s) \in Nat /\ num \in [1 .. Len(s) -> 0 .. SliceCount(m, t) - 1]
  /\ \A j \in 1 .. Len(s) : s[j] = SliceFrame(m, t, addr, g, num[j])
  /\ \A i, j \in 1 .. Len(s) : num[i] = num[j] => i = j
  /\ \A q \in 0 .. SliceCount(m, t) - 1 : \E j \in 1 .. Len(s) : num[j] = q

\* In whatever order the slices come, the message is handed up once, with the last.
LEMMA SlicesRoundTrip ==
  ASSUME NEW m, NEW t, Cuttable(m, t), IsMessage(m), NEW g \in Nat, NEW addr,
         NEW s, NEW num, SlicesIn(s, m, t, addr, g, num)
  PROVE  Receive(s, m.to) = <<Over(m, t)>>
<1> DEFINE n == Len(s)
           all == 0 .. SliceCount(m, t) - 1
           M(k) == {num[j] : j \in 1 .. k}
<1>1. /\ n \in Nat /\ num \in [1 .. n -> all]
      /\ \A j \in 1 .. n : s[j] = SliceFrame(m, t, addr, g, num[j])
      /\ \A i, j \in 1 .. n : num[i] = num[j] => i = j
      /\ \A q \in all : \E j \in 1 .. n : num[j] = q
  BY DEF SlicesIn
<1>2. n # 0
  <2>1. SliceCount(m, t) \in Nat /\ SliceCount(m, t) > 1
    BY SlicesAreSeveral DEF Cuttable, Sliced
  <2>2. 0 \in all
    BY <2>1
  <2> QED  BY <1>1, <2>2
<1>3. PICK f : Feeds(f, s, m.to, n) /\ Receive(s, m.to) = f[n].up
  BY <1>1, ReceiveFeeds
<1> HIDE DEF n, all
<1>4. \A k \in 0 .. n : f[k] = IF k = 0 THEN [relay |-> NewRelay(m.to, 0), up |-> <<>>]
                               ELSE Fed(f[k - 1].relay, f[k - 1].up, s[k])
  BY <1>3, Zenon DEF Feeds
<1>5. ASSUME NEW k \in 0 .. n PROVE M(k) \subseteq all
  <2>1. \A j \in 1 .. k : j \in 1 .. n
    BY <1>1
  <2> QED  BY <1>1, <2>1
<1>6. ASSUME NEW k \in 1 .. n
      PROVE  num[k] \in all /\ num[k] \notin M(k - 1) /\ M(k) = M(k - 1) \cup {num[k]}
  <2>1. k \in 1 .. k /\ \A j : j \in 1 .. k <=> j \in 1 .. k - 1 \/ j = k
    BY <1>1
  <2>2. \A j \in 1 .. k - 1 : j \in 1 .. n /\ j # k
    BY <1>1
  <2> QED  BY <1>1, <2>1, <2>2
<1>7. M(n) = all
  BY <1>1, <1>5
<1>8. ASSUME NEW k \in 1 .. n, k # n PROVE M(k) # all
  <2>1. k + 1 \in 1 .. n /\ (k + 1) - 1 = k
    BY <1>1, <1>8
  <2>2. num[k + 1] \in all /\ num[k + 1] \notin M(k)
    BY <1>6, <2>1
  <2> QED  BY <2>2
<1> DEFINE Here(k) == Midway(f[k], m, t, g, M(k))
<1>9. Here(0)
  <2>1. f[0] = [relay |-> NewRelay(m.to, 0), up |-> <<>>]
    BY <1>1, <1>4
  <2>2. M(0) = {}
    OBVIOUS
  <2>3. f[0].relay = NewRelay(m.to, 0) /\ f[0].up = <<>>
    BY <2>1
  <2> HIDE DEF M
  <2> QED  BY <2>2, <2>3, NewRelayFacts DEF Midway, Gathering
<1>10. ASSUME NEW k \in 1 .. n, Here(k - 1)
       PROVE  (k # n => Here(k)) /\ (k = n => f[k].up = <<Over(m, t)>>)
  <2> DEFINE x == f[k - 1]
             y == f[k]
             q == num[k]
             P == M(k - 1)
  <2>1. y = Fed(x.relay, x.up, SliceFrame(m, t, addr, g, q))
    <3>1. k \in 0 .. n /\ k # 0
      BY <1>1
    <3> QED  BY <1>1, <1>4, <3>1
  <2>2. P \subseteq all /\ q \in all /\ q \notin P /\ M(k) = P \cup {q}
    <3>1. k - 1 \in 0 .. n
      BY <1>1
    <3> HIDE DEF M
    <3> QED  BY <1>5, <1>6, <3>1
  <2>3. Midway(x, m, t, g, P)
    BY <1>10
  <2> HIDE DEF x, y, q, P, M
  <2>4. /\ P \cup {q} # all => Midway(y, m, t, g, P \cup {q})
        /\ P \cup {q} = all => y.up = <<Over(m, t)>>
    <3>1. P \subseteq 0 .. SliceCount(m, t) - 1 /\ q \in 0 .. SliceCount(m, t) - 1 /\ q \notin P
      BY <2>2 DEF all
    <3>2. Advances(y, m, t, g, P \cup {q})
      BY <2>1, <2>3, <3>1, SliceFed
    <3> QED  BY <3>2 DEF Advances, all
  <2>5. CASE k # n
    <3>1. M(k) # all
      BY <1>8, <2>5
    <3>2. Here(k)
      BY <2>2, <2>4, <3>1 DEF y
    <3> QED  BY <2>5, <3>2
  <2>6. CASE k = n
    <3>1. M(k) = all
      BY <1>7, <2>6
    <3>2. f[k].up = <<Over(m, t)>>
      BY <2>2, <2>4, <3>1 DEF y
    <3> QED  BY <2>6, <3>2
  <2> QED  BY <2>5, <2>6
<1> HIDE DEF Here, M
<1>11. \A k \in 0 .. n - 1 : Here(k)
  <2> DEFINE D == {k \in 0 .. n - 1 : ~Here(k)}
  <2> SUFFICES ASSUME D # {} PROVE FALSE
    OBVIOUS
  <2>1. D \subseteq Nat
    BY <1>1
  <2>2. PICK k \in D : \A j \in D : k <= j
    <3> HIDE DEF D
    <3> QED  BY <2>1, LeastExists
  <2>3. k \in 0 .. n - 1 /\ ~Here(k) /\ k # 0
    BY <1>9, <2>2
  <2>4. k - 1 \in 0 .. n - 1 /\ ~(k <= k - 1) /\ k \in 1 .. n /\ k # n
    BY <1>1, <2>3
  <2>5. Here(k - 1)
    BY <2>2, <2>4
  <2> QED  BY <1>10, <2>3, <2>4, <2>5
<1>12. f[n].up = <<Over(m, t)>>
  <2>1. n - 1 \in 0 .. n - 1 /\ n \in 1 .. n
    BY <1>1, <1>2
  <2>2. Here(n - 1)
    BY <1>11, <2>1
  <2> QED  BY <1>10, <2>1, <2>2
<1> QED  BY <1>3, <1>12

\* A message that needs no slices is handed up when its frame comes.
LEMMA WholeRoundTrip ==
  ASSUME NEW m, IsMessage(m), NEW t, NEW addr,
         NEW s, Len(s) = 1, s[1] = [transport |-> t, addr |-> addr, message |-> m]
  PROVE  Receive(s, m.to) = <<Over(m, t)>>
<1> DEFINE r == NewRelay(m.to, 0)
           msg == Over(m, t)
           i == Ingest(r.slots, msg)
           result == IngestFrame(r, t, m)
<1> DEFINE l == Len(s)
<1>0. l \in Nat /\ l = 1
  OBVIOUS
<1>1. PICK f : Feeds(f, s, m.to, 1) /\ Receive(s, m.to) = f[1].up
  <2>1. \E f : Feeds(f, s, m.to, Len(s)) /\ Receive(s, m.to) = f[Len(s)].up
    BY <1>0, ReceiveFeeds
  <2> QED  BY <1>0, <2>1
<1>2. \A k \in 0 .. 1 : f[k] = IF k = 0 THEN [relay |-> NewRelay(m.to, 0), up |-> <<>>]
                               ELSE Fed(f[k - 1].relay, f[k - 1].up, s[k])
  BY <1>1, Zenon DEF Feeds
<1>3. f[0] = [relay |-> r, up |-> <<>>] /\ f[1] = Fed(f[0].relay, f[0].up, s[1])
  <2>1. 0 \in 0 .. 1 /\ 1 \in 0 .. 1 /\ 1 - 1 = 0 /\ 1 # 0
    OBVIOUS
  <2> HIDE DEF r
  <2>2. f[1] = Fed(f[1 - 1].relay, f[1 - 1].up, s[1])
    BY <1>2, <2>1, Zenon
  <2>3. f[0] = [relay |-> r, up |-> <<>>]
    BY <1>2, <2>1, Zenon DEF r
  <2> QED  BY <2>1, <2>2, <2>3
<1>4. IsEngine(r) /\ r.self_addr = m.to /\ \A x : ~Contains(r.seen, x)
  BY NewRelayFacts
<1>5. msg = Received(m, t) /\ msg.frag = NoFrag
  BY MessageReceived DEF Over
<1>6. i.out = Passthrough(msg)
  BY <1>5 DEF Ingest
<1> HIDE DEF r, msg
<1>7. result.out = Directed(r, i.out)
  <2> DEFINE key == DedupKey(msg)
  <2>1. ~Contains(r.seen, key)
    BY <1>4
  <2> HIDE DEF key
  <2> QED  BY <1>4, <1>5, <2>1, NewFrame DEF key
<1>8. result.out = [tag |-> "Complete", msg |-> msg]
  <2>1. i.out \in {Passthrough(Over(m, t)), Complete(Over(m, t))}
    BY <1>6 DEF msg
  <2> HIDE DEF i, result
  <2> QED  BY <1>4, <1>7, <2>1, WholeIsHandedUp DEF msg
<1>9. HandsUp(result.out) /\ result.out.msg = msg
  BY <1>8 DEF HandsUp
<1>10. f[1] = [relay |-> result.relay, up |-> IF HandsUp(result.out) THEN Append(<<>>, result.out.msg) ELSE <<>>]
  <2>1. s[1].transport = t /\ s[1].message = m /\ f[0].relay = r /\ f[0].up = <<>>
    BY <1>3
  <2> QED  BY <1>3, <2>1, Zenon DEF Fed
<1> HIDE DEF result
<1>11. f[1].up = Append(<<>>, msg)
  BY <1>9, <1>10
<1> QED  BY <1>1, <1>11 DEF msg

-----------------------------------------------------------------------------
(* The frames of a plan, in any order.                                       *)

\* Concatenated, sequences without repetition and without a common element repeat nothing.
LEMMA FlattenOnce ==
  ASSUME NEW T, NEW ss \in Seq(Seq(T)), Len(ss) # 0,
         \A j \in 1 .. Len(ss) : Once(ss[j]),
         \A i, j \in 1 .. Len(ss) : \A x : In(x, ss[i]) /\ In(x, ss[j]) => i = j
  PROVE  Once(Ext!FlattenSeq(ss))
<1> DEFINE n == Len(ss)
<1>1. n \in Nat \ {0} /\ \A j \in 1 .. n : ss[j] \in Seq(T)
  BY ElementOfSeq
<1>2. PICK g : JoinsTo(g, ss, n)
  BY <1>1, JoinExists
<1>3. \A i \in 1 .. n : g[i] = IF i = 1 THEN ss[i] ELSE g[i - 1] \o ss[i]
  BY <1>2, Zenon DEF JoinsTo
<1>4. Ext!FlattenSeq(ss) = g[n]
  <2>1. Joins(g, ss)
    BY <1>2 DEF Joins, JoinsTo
  <2> QED  BY <1>1, <2>1, ConcatIsJoin DEF Concat
<1>5. \A j \in 1 .. n : Once(ss[j])
  OBVIOUS
<1>6. \A i, j \in 1 .. n : \A x : In(x, ss[i]) /\ In(x, ss[j]) => i = j
  OBVIOUS
<1> HIDE DEF n
<1> DEFINE Right(i) == /\ g[i] \in Seq(T) /\ Once(g[i])
                       /\ \A x : In(x, g[i]) <=> \E j \in 1 .. i : In(x, ss[j])
           D == {i \in 1 .. n : ~Right(i)}
<1>7. D = {}
  <2> SUFFICES ASSUME D # {} PROVE FALSE
    OBVIOUS
  <2>1. D \subseteq Nat
    OBVIOUS
  <2>2. PICK i \in D : \A j \in D : i <= j
    <3> HIDE DEF D
    <3> QED  BY <2>1, LeastExists
  <2>3. i \in 1 .. n /\ (i # 1 => i - 1 \in 1 .. n) /\ ~Right(i)
    <3>1. i \in 1 .. n /\ ~Right(i)
      <4> HIDE DEF Right
      <4> QED  BY <2>2
    <3> QED  BY <1>1, <3>1
  <2>4. i # 1 => Right(i - 1)
    <3>1. i # 1 => ~(i <= i - 1)
      BY <2>3
    <3> QED  BY <2>2, <2>3, <3>1
  <2>5. CASE i = 1
    <3>1. g[i] = ss[i] /\ \A j \in 1 .. i : j = i
      BY <1>3, <2>3, <2>5
    <3>2. Right(i)
      BY <1>1, <1>5, <2>3, <2>5, <3>1
    <3> QED  BY <2>3, <3>2
  <2>6. CASE i # 1
    <3>1. g[i] = g[i - 1] \o ss[i]
      BY <1>3, <2>3, <2>6
    <3>2. /\ g[i - 1] \in Seq(T) /\ Once(g[i - 1])
          /\ \A x : In(x, g[i - 1]) <=> \E j \in 1 .. i - 1 : In(x, ss[j])
      BY <2>4, <2>6
    <3>3. ss[i] \in Seq(T) /\ Once(ss[i])
      BY <1>1, <1>5, <2>3
    <3>4. g[i] \in Seq(T) /\ \A x : In(x, g[i]) <=> In(x, g[i - 1]) \/ In(x, ss[i])
      BY <3>1, <3>2, <3>3, InBoth
    <3>5. \A j : j \in 1 .. i <=> j \in 1 .. i - 1 \/ j = i
      BY <1>1, <2>3
    <3>6. \A x : In(x, g[i]) <=> \E j \in 1 .. i : In(x, ss[j])
      BY <3>2, <3>4, <3>5, Zenon
    <3>7. \A x : ~(In(x, g[i - 1]) /\ In(x, ss[i]))
      <4>1. \A j \in 1 .. i - 1 : j \in 1 .. n /\ j # i
        BY <1>1, <2>3
      <4> QED  BY <1>6, <2>3, <3>2, <4>1
    <3>8. Once(g[i])
      BY <3>1, <3>2, <3>3, <3>7, OnceBoth
    <3>9. Right(i)
      BY <3>4, <3>6, <3>8
    <3> QED  BY <2>3, <3>9
  <2> QED  BY <2>5, <2>6
<1>8. n \in 1 .. n
  BY <1>1
<1>9. Right(n)
  BY <1>7, <1>8
<1> QED  BY <1>4, <1>9 DEF n

\* The orders of the frames on one transport have each of them once, and no other.
LEMMA OrderHasEach ==
  ASSUME NEW frames, Len(frames) \in Nat, DOMAIN frames = 1 .. Len(frames), Once(frames),
         NEW t, NEW order \in Orders(frames, t)
  PROVE  /\ Len(order) \in Nat /\ Once(order)
         /\ \A x : In(x, order) <=> In(x, frames) /\ x.transport = t
<1> DEFINE I == {k \in DOMAIN frames : frames[k].transport = t}
           n == Cardinality(I)
<1>1. IsFiniteSet(I) /\ n \in Nat
  <2>1. IsFiniteSet(1 .. Len(frames))
    BY FS_Interval
  <2>2. I \subseteq 1 .. Len(frames)
    OBVIOUS
  <2> QED  BY <2>1, <2>2, FS_Subset, FS_CardinalityType
<1>2. PICK p \in Ext!SetToSeqs(I) : order = [j \in DOMAIN p |-> frames[p[j]]]
  BY DEF Orders
<1>3. p \in [1 .. n -> I] /\ \A i, j \in 1 .. n : i # j => p[i] # p[j]
  <2>1. Ext!Cardinality(I) = n
    BY DEF Ext!Cardinality, Cardinality
  <2> HIDE DEF n, I
  <2> QED  BY <1>2, <2>1 DEF Ext!SetToSeqs
<1>4. \A k \in I : k \in 1 .. Len(frames) /\ frames[k].transport = t
  OBVIOUS
<1>5. \A k \in 1 .. Len(frames) : frames[k].transport = t => k \in I
  OBVIOUS
<1>6. \A k \in I : \E j \in 1 .. n : p[j] = k
  <2>1. IsFiniteSet(1 .. n) /\ Cardinality(1 .. n) = n
    BY <1>1, FS_Interval
  <2> HIDE DEF I
  <2>2. p \in Injection(1 .. n, I)
    BY <1>3 DEF Injection, IsInjective
  <2>3. p \in Surjection(1 .. n, I)
    <3> DEFINE J == 1 .. n
    <3>1. IsFiniteSet(J) /\ IsFiniteSet(I) /\ Cardinality(J) = Cardinality(I) /\ p \in Injection(J, I)
      BY <1>1, <2>1, <2>2
    <3> HIDE DEF J, n
    <3>2. p \in Surjection(J, I)
      BY <3>1, FS_Injection, FS_Surjection
    <3> QED  BY <3>2 DEF J
  <2> QED  BY <2>3 DEF Surjection
<1> HIDE DEF n, I
<1>7. Len(order) = n /\ \A j \in 1 .. n : order[j] = frames[p[j]]
  BY <1>1, <1>2, <1>3
<1>8. Once(order)
  <2>1. ASSUME NEW i \in 1 .. n, NEW j \in 1 .. n, order[i] = order[j] PROVE i = j
    <3>1. p[i] \in 1 .. Len(frames) /\ p[j] \in 1 .. Len(frames) /\ frames[p[i]] = frames[p[j]]
      BY <1>3, <1>4, <1>7, <2>1
    <3>2. p[i] = p[j]
      BY <3>1 DEF Once
    <3> QED  BY <1>3, <3>2
  <2> QED  BY <1>7, <2>1 DEF Once
<1>9. ASSUME NEW x, In(x, order) PROVE In(x, frames) /\ x.transport = t
  <2>1. PICK j \in 1 .. n : order[j] = x
    BY <1>7, <1>9 DEF In
  <2> QED  BY <1>3, <1>4, <1>7, <2>1 DEF In
<1>10. ASSUME NEW x, In(x, frames), x.transport = t PROVE In(x, order)
  <2>1. PICK k \in 1 .. Len(frames) : frames[k] = x
    BY <1>10 DEF In
  <2>2. PICK j \in 1 .. n : p[j] = k
    BY <1>5, <1>6, <1>10, <2>1
  <2> QED  BY <1>7, <2>1, <2>2 DEF In
<1> QED  BY <1>1, <1>7, <1>8, <1>9, <1>10

WholeFrame(m, t, addr) == [transport |-> t, addr |-> addr, message |-> m]

\* The frames over t are the pieces of m, cut for t under group g if it must be cut.
Carries(frames, m, t, addr, g) ==
  \/ /\ Mtu(t) # 0 /\ Len(m.payload) <= Mtu(t)
     /\ \A x : In(x, frames) /\ x.transport = t <=> x = WholeFrame(m, t, addr)
  \/ /\ Cuttable(m, t)
     /\ \A x : In(x, frames) /\ x.transport = t <=>
          \E q \in 0 .. SliceCount(m, t) - 1 : x = SliceFrame(m, t, addr, g, q)

LEMMA SplitCarries ==
  ASSUME NEW t \in Transport, NEW m, IsMessage(m), NEW addr, NEW g, Split(m, t, g) # <<>>
  PROVE  Carries(Planned(t, addr, Split(m, t, g)), m, t, addr, g) /\ Once(Planned(t, addr, Split(m, t, g)))
<1> DEFINE s == Split(m, t, g)
           frames == Planned(t, addr, s)
           c == SliceCount(m, t)
<1>1. m.frag = NoFrag /\ m.payload \in Seq(Nat) /\ FitsMessage(m.payload)
  BY MessageReceived DEF IsMessage
<1>2. ~Unfragmentable(m, t) /\ Mtu(t) # 0 /\ Mtu(t) \in Nat /\ Len(m.payload) \in Nat
  BY <1>1, MtuIsNat DEF Split, Unfragmentable
<1>3. CASE Len(m.payload) <= Mtu(t)
  <2>1. s = <<m>>
    BY <1>2, <1>3 DEF Split
  <2>2. frames = <<WholeFrame(m, t, addr)>>
    BY <2>1 DEF Planned, WholeFrame
  <2> DEFINE w == WholeFrame(m, t, addr)
  <2>3. w.transport = t
    BY DEF WholeFrame
  <2> HIDE DEF frames, w
  <2>4. Len(frames) = 1 /\ frames[1] = w
    BY <2>2 DEF w
  <2>5. Once(frames) /\ \A x : In(x, frames) <=> x = w
    BY <2>4 DEF Once, In
  <2>6. Carries(frames, m, t, addr, g)
    BY <1>2, <1>3, <2>3, <2>5 DEF Carries, w
  <2> QED  BY <2>5, <2>6 DEF frames
<1>4. CASE ~(Len(m.payload) <= Mtu(t))
  <2>1. c \in Nat /\ c > 1
    BY <1>1, <1>2, <1>4, SlicesAreSeveral
  <2>2. Cuttable(m, t)
    <3>1. c <= MAX_FRAGMENTS
      BY <1>1, <1>2, <1>4, <2>1, FragmenterAssumption DEF Unfragmentable, FragmenterAssumption
    <3>2. Len(m.payload) > Mtu(t)
      BY <1>2, <1>4
    <3> QED  BY <1>1, <1>2, <3>1, <3>2 DEF Cuttable, Sliced
  <2>3. s = [k \in 1 .. c |-> SliceOf(m, t, g, k - 1)]
    BY <1>1, <1>2, <1>4 DEF Split
  <2> HIDE DEF c, s
  <2>4. frames = [k \in 1 .. c |-> SliceFrame(m, t, addr, g, k - 1)]
    BY <2>3 DEF Planned, SliceFrame
  <2> HIDE DEF frames
  <2>5. Len(frames) = c /\ \A k \in 1 .. c : frames[k] = SliceFrame(m, t, addr, g, k - 1)
    BY <2>1, <2>4
  <2>6. \A q : SliceFrame(m, t, addr, g, q).transport = t /\ SliceFrame(m, t, addr, g, q).message.frag.seq = q
    BY DEF SliceFrame, SliceOf
  <2>7. Once(frames)
    <3>1. ASSUME NEW i \in 1 .. c, NEW j \in 1 .. c, frames[i] = frames[j] PROVE i = j
      <4>1. i - 1 = j - 1
        BY <2>5, <2>6, <3>1
      <4> QED  BY <2>1, <4>1
    <3> QED  BY <2>5, <3>1 DEF Once
  <2>8. ASSUME NEW x, In(x, frames)
        PROVE  \E q \in 0 .. c - 1 : x = SliceFrame(m, t, addr, g, q)
    <3>1. PICK k \in 1 .. c : frames[k] = x
      BY <2>5, <2>8 DEF In
    <3>2. k - 1 \in 0 .. c - 1
      BY <2>1
    <3> QED  BY <2>5, <3>1, <3>2
  <2>9. ASSUME NEW x, NEW q \in 0 .. c - 1, x = SliceFrame(m, t, addr, g, q)
        PROVE  In(x, frames) /\ x.transport = t
    <3>1. q + 1 \in 1 .. c /\ (q + 1) - 1 = q
      BY <2>1
    <3>2. frames[q + 1] = x
      BY <2>5, <2>9, <3>1
    <3> QED  BY <2>5, <2>6, <2>9, <3>1, <3>2 DEF In
  <2>10. \A x : In(x, frames) /\ x.transport = t <=> \E q \in 0 .. c - 1 : x = SliceFrame(m, t, addr, g, q)
    BY <2>8, <2>9
  <2>11. Carries(frames, m, t, addr, g)
    BY <2>2, <2>10 DEF Carries, c
  <2> QED  BY <2>7, <2>11 DEF frames, s
<1> QED  BY <1>3, <1>4

\* The frames that carry a message fit their transport, and give it back in any order.
LEMMA CarriedRoundTrip ==
  ASSUME NEW t \in Transport, NEW m, IsMessage(m), NEW addr, NEW g \in Nat, NEW frames,
         Len(frames) \in Nat, DOMAIN frames = 1 .. Len(frames), Once(frames),
         Carries(frames, m, t, addr, g)
  PROVE  /\ \A k \in DOMAIN frames : frames[k].transport = t => Len(frames[k].message.payload) <= Mtu(t)
         /\ \A order \in Orders(frames, t) : Receive(order, m.to) = <<Over(m, t)>>
<1> DEFINE c == SliceCount(m, t)
           sf(q) == SliceFrame(m, t, addr, g, q)
           w == WholeFrame(m, t, addr)
<1>1. ASSUME NEW order \in Orders(frames, t)
      PROVE  /\ Len(order) \in Nat /\ Once(order)
             /\ \A x : In(x, order) <=> In(x, frames) /\ x.transport = t
  BY <1>1, OrderHasEach
<1>2. ASSUME NEW k \in DOMAIN frames PROVE In(frames[k], frames)
  BY DEF In
<1>3. CASE /\ Mtu(t) # 0 /\ Len(m.payload) <= Mtu(t)
           /\ \A x : In(x, frames) /\ x.transport = t <=> x = w
  <2>1. ASSUME NEW k \in DOMAIN frames, frames[k].transport = t
        PROVE  Len(frames[k].message.payload) <= Mtu(t)
    <3>1. frames[k] = w
      BY <1>2, <1>3, <2>1
    <3>2. w.message = m
      BY DEF WholeFrame
    <3> QED  BY <1>3, <3>1, <3>2
  <2>2. ASSUME NEW order \in Orders(frames, t) PROVE Receive(order, m.to) = <<Over(m, t)>>
    <3> HIDE DEF w
    <3>1. \A x : In(x, order) <=> x = w
      BY <1>1, <1>3
    <3>2. Len(order) \in Nat /\ Once(order)
      BY <1>1
    <3>3. PICK j \in 1 .. Len(order) : order[j] = w
      BY <3>1 DEF In
    <3>4. \A i \in 1 .. Len(order) : order[i] = w
      BY <3>1 DEF In
    <3>5. \A i \in 1 .. Len(order) : i = j
      BY <3>2, <3>3, <3>4 DEF Once
    <3>6. 1 \in 1 .. Len(order) /\ Len(order) \in 1 .. Len(order)
      BY <3>2, <3>3
    <3>7. Len(order) = 1 /\ order[1] = w
      BY <3>2, <3>4, <3>5, <3>6
    <3>8. order[1] = [transport |-> t, addr |-> addr, message |-> m]
      BY <3>7 DEF w, WholeFrame
    <3> QED  BY <3>7, <3>8, WholeRoundTrip
  <2> QED  BY <2>1, <2>2
<1>4. CASE /\ Cuttable(m, t)
           /\ \A x : In(x, frames) /\ x.transport = t <=> \E q \in 0 .. c - 1 : x = sf(q)
  <2>1. c \in Nat /\ c > 1 /\ Mtu(t) # 0 /\ Len(m.payload) # 0 /\ m.payload \in Seq(Nat)
    BY <1>4, SlicesAreSeveral DEF Cuttable, Sliced
  <2>2. \A q : sf(q).message.payload = CutSlice(m, t, q) /\ sf(q).message.frag.seq = q
    BY DEF SliceFrame, SliceOf
  <2> HIDE DEF sf
  <2>3. ASSUME NEW k \in DOMAIN frames, frames[k].transport = t
        PROVE  Len(frames[k].message.payload) <= Mtu(t)
    <3>1. PICK q \in 0 .. c - 1 : frames[k] = sf(q)
      BY <1>2, <1>4, <2>3
    <3>2. q + 1 \in 1 .. SliceCount(m, t) /\ (q + 1) - 1 = q
      BY <2>1
    <3>3. Len(CutSlice(m, t, (q + 1) - 1)) <= Mtu(t)
      BY <2>1, <3>2, SliceFits
    <3> QED  BY <2>2, <3>1, <3>2, <3>3
  <2>4. ASSUME NEW order \in Orders(frames, t) PROVE Receive(order, m.to) = <<Over(m, t)>>
    <3>1. \A x : In(x, order) <=> \E q \in 0 .. c - 1 : x = sf(q)
      BY <1>1, <1>4
    <3>2. Len(order) \in Nat /\ Once(order)
      BY <1>1
    <3> DEFINE num == [j \in 1 .. Len(order) |-> order[j].message.frag.seq]
    <3>3. ASSUME NEW j \in 1 .. Len(order) PROVE num[j] \in 0 .. c - 1 /\ order[j] = sf(num[j])
      <4>1. In(order[j], order)
        BY DEF In
      <4>2. PICK q \in 0 .. c - 1 : order[j] = sf(q)
        BY <3>1, <4>1
      <4>3. num[j] = q
        BY <2>2, <4>2
      <4> QED  BY <4>2, <4>3
    <3>4. num \in [1 .. Len(order) -> 0 .. c - 1]
      BY <3>3
    <3> HIDE DEF num
    <3>5. \A i, j \in 1 .. Len(order) : num[i] = num[j] => i = j
      BY <3>2, <3>3 DEF Once
    <3>6. ASSUME NEW q \in 0 .. c - 1 PROVE \E j \in 1 .. Len(order) : num[j] = q
      <4>1. PICK j \in 1 .. Len(order) : order[j] = sf(q)
        BY <3>1 DEF In
      <4>2. sf(num[j]) = sf(q)
        BY <3>3, <4>1
      <4>3. num[j] = q
        BY <2>2, <4>2
      <4> QED  BY <4>3
    <3>7. SlicesIn(order, m, t, addr, g, num)
      BY <3>2, <3>3, <3>4, <3>5, <3>6 DEF SlicesIn, c, sf
    <3> QED  BY <1>4, <3>7, SlicesRoundTrip
  <2> QED  BY <2>3, <2>4
<1> QED  BY <1>3, <1>4 DEF Carries

\* A plan whose frames on each transport it uses are the pieces of one message to a
\* destination, with a payload.
PlanFor(frames, to, payload) ==
  /\ Len(frames) \in Nat /\ DOMAIN frames = 1 .. Len(frames) /\ Once(frames)
  /\ \A t \in Used(frames) :
       /\ t \in Transport
       /\ \E m, addr : \E g \in Nat :
            /\ IsMessage(m) /\ m.to = to /\ m.payload = payload
            /\ Carries(frames, m, t, addr, g)

LEMMA PlanRoundTrip ==
  ASSUME NEW frames, NEW to, NEW payload, PlanFor(frames, to, payload), NEW t \in Used(frames)
  PROVE  /\ \A k \in DOMAIN frames : frames[k].transport = t => Len(frames[k].message.payload) <= Mtu(t)
         /\ \A order \in Orders(frames, t) :
              LET up == Receive(order, to)
              IN  Len(up) = 1 /\ up[1].payload = payload /\ up[1].to = to
<1>1. PICK m, addr : \E g \in Nat :
        IsMessage(m) /\ m.to = to /\ m.payload = payload /\ Carries(frames, m, t, addr, g)
  BY DEF PlanFor
<1> PICK g \in Nat : Carries(frames, m, t, addr, g)
  BY <1>1
<1>2. t \in Transport /\ Len(frames) \in Nat /\ DOMAIN frames = 1 .. Len(frames) /\ Once(frames)
  BY DEF PlanFor
<1>3. /\ \A k \in DOMAIN frames : frames[k].transport = t => Len(frames[k].message.payload) <= Mtu(t)
      /\ \A order \in Orders(frames, t) : Receive(order, m.to) = <<Over(m, t)>>
  BY <1>1, <1>2, CarriedRoundTrip
<1>4. Over(m, t).payload = payload /\ Over(m, t).to = to
  BY <1>1 DEF Over
<1>5. ASSUME NEW order \in Orders(frames, t)
      PROVE  LET up == Receive(order, to)
             IN  Len(up) = 1 /\ up[1].payload = payload /\ up[1].to = to
  <2> DEFINE o == Over(m, t)
             up == Receive(order, to)
  <2>1. up = <<o>>
    BY <1>1, <1>3
  <2> HIDE DEF o, up
  <2>2. Len(up) = 1 /\ up[1] = o
    BY <2>1
  <2> QED  BY <1>4, <2>2 DEF o, up
<1> QED  BY <1>3, <1>5

LEMMA NoPlan ==
  ASSUME NEW to, NEW payload
  PROVE  PlanFor(<<>>, to, payload)
BY DEF PlanFor, Once, Used

\* plan_send: for each target the pieces of the message made for it.
LEMMA PlanSendCarries ==
  ASSUME NEW r, NEW payload \in Seq(Nat), NEW dest, NextId(r) \in Nat,
         \A k \in 1 .. Len(ResolveTargets(r, dest)) : GroupFor(r, k) \in Nat
  PROVE  PlanFor(PlanSend(r, "Text", payload, dest).frames, dest, payload)
<1> DEFINE ts == ResolveTargets(r, dest)
           plan == PlanSend(r, "Text", payload, dest)
           made(k) == Made(r, ts[k], payload, dest)
           split(k) == Split(made(k), ts[k], GroupFor(r, k))
           failing == {k \in DOMAIN ts : split(k) = <<>>}
           part(k) == Planned(ts[k], dest, split(k))
           ss == [k \in DOMAIN ts |-> part(k)]
<1>1. plan = IF r.registered = {} THEN Refused(r, "NoPortsRegistered")
             ELSE IF ts = <<>> THEN Refused(r, "UnknownReceiver")
             ELSE IF ~FitsMessage(payload) THEN Refused(TakeIds(r, 1), "PayloadTooLarge")
             ELSE IF failing # {} THEN Refused(TakeIds(r, 1 + First(failing)), "PayloadUnfragmentable")
             ELSE [relay |-> TakeIds(r, 1 + Len(ts)), frames |-> Ext!FlattenSeq(ss), err |-> "Ok"]
  BY Zenon DEF PlanSend, Made
<1>2. ts \in Seq(Transport) /\ Len(ts) \in Nat /\ DOMAIN ts = 1 .. Len(ts)
      /\ (\A k \in 1 .. Len(ts) : ts[k] \in Transport) /\ Once(ts)
  <2>1. ts \in Seq(Transport) /\ Once(ts)
    BY OrderedTransports DEF ResolveTargets
  <2> HIDE DEF ts
  <2> QED  BY <2>1, ElementOfSeq
<1>3. \A k \in 1 .. Len(ts) : GroupFor(r, k) \in Nat
  OBVIOUS
<1> HIDE DEF ts, plan
<1>4. \/ plan.frames = <<>>
      \/ FitsMessage(payload) /\ failing = {} /\ Len(ts) # 0 /\ plan.frames = Ext!FlattenSeq(ss)
  <2> HIDE DEF failing, ss
  <2>1. \/ \E x, err : plan = Refused(x, err)
        \/ /\ ts # <<>> /\ FitsMessage(payload) /\ failing = {}
           /\ plan = [relay |-> TakeIds(r, 1 + Len(ts)), frames |-> Ext!FlattenSeq(ss), err |-> "Ok"]
    BY <1>1, Zenon
  <2>2. ts # <<>> => Len(ts) # 0
    BY <1>2
  <2> QED  BY <2>1, <2>2 DEF Refused
<1>5. CASE plan.frames = <<>>
  BY <1>5, NoPlan DEF plan
<1>6. CASE FitsMessage(payload) /\ failing = {} /\ Len(ts) # 0 /\ plan.frames = Ext!FlattenSeq(ss)
  <2> DEFINE frames == plan.frames
             T(k) == [transport : {ts[k]}, addr : {dest}, message : Pieces(made(k), ts[k], GroupFor(r, k))]
             U == UNION {T(k) : k \in 1 .. Len(ts)}
  <2>1. \A k \in 1 .. Len(ts) : split(k) # <<>>
    BY <1>2, <1>6
  <2> HIDE DEF failing
  <2>2. ASSUME NEW k \in 1 .. Len(ts)
        PROVE  /\ IsMessage(made(k)) /\ made(k).to = dest /\ made(k).payload = payload
               /\ made(k).frag = NoFrag
    <3> DEFINE m == made(k)
    <3>1. /\ m.id = NextId(r) /\ m.ttl = DEFAULT_TTL /\ m.origin = ts[k] /\ m.from = r.self_addr
          /\ m.to = dest /\ m.kind = "Text" /\ m.payload = payload /\ m.frag = NoFrag
      BY DEF Made, Prepare
    <3>2. m = Prepare(NextId(r), DEFAULT_TTL, ts[k], r.self_addr, dest, "Text", payload)
      BY DEF Made
    <3> HIDE DEF m
    <3> QED  BY <1>6, <3>1, <3>2 DEF IsMessage, m
  <2> HIDE DEF made
  <2>3. ASSUME NEW k \in 1 .. Len(ts)
        PROVE  /\ part(k) \in Seq(T(k)) /\ Once(part(k))
               /\ \A x : In(x, part(k)) => x.transport = ts[k]
               /\ Carries(part(k), made(k), ts[k], dest, GroupFor(r, k))
    <3> DEFINE m == made(k)
               t == ts[k]
               g == GroupFor(r, k)
    <3>1. m.payload \in Seq(Nat) /\ m.frag = NoFrag /\ t \in Transport /\ IsMessage(m) /\ Split(m, t, g) # <<>>
      BY <1>2, <2>1, <2>2
    <3> HIDE DEF m, t, g
    <3>2. /\ Planned(t, dest, Split(m, t, g)) \in Seq([transport : {t}, addr : {dest}, message : Pieces(m, t, g)])
          /\ \A x : In(x, Planned(t, dest, Split(m, t, g))) => FrameOf(x, t, m, g)
      BY <3>1, PlannedFrames
    <3>3. Carries(Planned(t, dest, Split(m, t, g)), m, t, dest, g) /\ Once(Planned(t, dest, Split(m, t, g)))
      BY <3>1, SplitCarries
    <3>4. \A x : In(x, Planned(t, dest, Split(m, t, g))) => x.transport = t
      BY <3>2 DEF FrameOf
    <3> QED  BY <3>2, <3>3, <3>4 DEF m, t, g
  <2> HIDE DEF part, split, T
  <2>4. ss \in Seq(Seq(U)) /\ Len(ss) = Len(ts) /\ \A k \in 1 .. Len(ts) : ss[k] = part(k)
    <3>1. \A k \in 1 .. Len(ts) : part(k) \in Seq(U)
      <4> SUFFICES ASSUME NEW k \in 1 .. Len(ts) PROVE part(k) \in Seq(U)
        OBVIOUS
      <4>1. T(k) \subseteq U
        OBVIOUS
      <4> HIDE DEF U
      <4> QED  BY <2>3, <4>1, ElementOfSeq
    <3> HIDE DEF U
    <3> QED  BY <1>2, <3>1
  <2> HIDE DEF ss, U
  <2>5. frames \in Seq(U) /\ \A x : In(x, frames) <=> \E k \in 1 .. Len(ts) : In(x, part(k))
    BY <1>6, <2>4, FlattenElements
  <2>6. Once(frames)
    <3>1. ASSUME NEW i \in 1 .. Len(ts), NEW j \in 1 .. Len(ts), NEW x, In(x, part(i)), In(x, part(j))
          PROVE  i = j
      <4>1. ts[i] = ts[j]
        BY <2>3, <3>1
      <4> QED  BY <1>2, <4>1 DEF Once
    <3>2. \A j \in 1 .. Len(ss) : Once(ss[j])
      BY <2>3, <2>4
    <3>3. \A i, j \in 1 .. Len(ss) : \A x : In(x, ss[i]) /\ In(x, ss[j]) => i = j
      BY <2>4, <3>1
    <3>4. Once(Ext!FlattenSeq(ss))
      BY <1>6, <2>4, <3>2, <3>3, FlattenOnce
    <3> QED  BY <1>6, <3>4
  <2>7. Len(frames) \in Nat /\ DOMAIN frames = 1 .. Len(frames)
    <3> HIDE DEF frames
    <3> QED  BY <2>5
  <2> HIDE DEF frames
  <2>8. ASSUME NEW t \in Used(frames)
        PROVE  t \in Transport /\ \E m, addr : \E g \in Nat :
                 IsMessage(m) /\ m.to = dest /\ m.payload = payload /\ Carries(frames, m, t, addr, g)
    <3>1. PICK i \in 1 .. Len(frames) : frames[i].transport = t
      BY <2>7 DEF Used
    <3>2. In(frames[i], frames)
      BY DEF In
    <3>3. PICK k \in 1 .. Len(ts) : In(frames[i], part(k))
      BY <2>5, <3>2
    <3>4. t = ts[k] /\ t \in Transport
      BY <1>2, <2>3, <3>1, <3>3
    <3>5. \A x : In(x, frames) /\ x.transport = t <=> In(x, part(k)) /\ x.transport = t
      <4>1. ASSUME NEW x, In(x, frames), x.transport = t PROVE In(x, part(k))
        <5>1. PICK j \in 1 .. Len(ts) : In(x, part(j))
          BY <2>5, <4>1
        <5>2. ts[j] = ts[k]
          BY <2>3, <3>4, <4>1, <5>1
        <5>3. j = k
          BY <1>2, <5>2 DEF Once
        <5> QED  BY <5>1, <5>3
      <4> QED  BY <2>5, <4>1
    <3> DEFINE m == made(k)
               g == GroupFor(r, k)
               p == part(k)
    <3>6. Carries(p, m, t, dest, g) /\ IsMessage(m) /\ m.to = dest /\ m.payload = payload /\ g \in Nat
      BY <1>3, <2>2, <2>3, <3>4
    <3>7. \A x : In(x, frames) /\ x.transport = t <=> In(x, p) /\ x.transport = t
      BY <3>5
    <3> HIDE DEF m, g, p
    <3>8. Carries(frames, m, t, dest, g)
      BY <3>6, <3>7, Zenon DEF Carries
    <3> QED  BY <3>4, <3>6, <3>8
  <2>9. PlanFor(frames, dest, payload)
    BY <2>6, <2>7, <2>8 DEF PlanFor
  <2> QED  BY <2>9 DEF frames, plan
<1> QED  BY <1>4, <1>5, <1>6

\* The pieces of one message on one transport.
LEMMA EmitCarries ==
  ASSUME NEW r, NEW t \in Transport, NEW m, IsMessage(m), NextId(r) \in Nat
  PROVE  PlanFor(EmitOn(r, t, m).frames, m.to, m.payload)
<1> DEFINE g == NextId(r)
           s == Split(m, t, g)
           frames == Planned(t, m.to, s)
<1>1. EmitOn(r, t, m).frames = frames
  BY DEF EmitOn
<1>2. m.payload \in Seq(Nat) /\ m.frag = NoFrag /\ g \in Nat
  BY MessageReceived DEF IsMessage
<1> HIDE DEF g
<1>3. CASE s = <<>>
  <2>1. frames = <<>>
    BY <1>3 DEF Planned
  <2> QED  BY <1>1, <2>1, NoPlan
<1>4. CASE s # <<>>
  <2>1. /\ frames \in Seq([transport : {t}, addr : {m.to}, message : Pieces(m, t, g)])
        /\ \A x : In(x, frames) => FrameOf(x, t, m, g)
    BY <1>2, PlannedFrames
  <2> DEFINE dest == m.to
  <2>2. Carries(frames, m, t, m.to, g) /\ Once(frames)
    <3>1. Split(m, t, g) # <<>>
      BY <1>4
    <3> HIDE DEF dest
    <3>2. Carries(Planned(t, dest, Split(m, t, g)), m, t, dest, g) /\ Once(Planned(t, dest, Split(m, t, g)))
      BY <3>1, SplitCarries
    <3> QED  BY <3>2 DEF dest
  <2> HIDE DEF frames
  <2>3. Len(frames) \in Nat /\ DOMAIN frames = 1 .. Len(frames)
    BY <2>1
  <2>4. ASSUME NEW u \in Used(frames) PROVE u = t
    <3>1. PICK k \in 1 .. Len(frames) : frames[k].transport = u
      BY <2>3 DEF Used
    <3>2. In(frames[k], frames)
      BY DEF In
    <3> QED  BY <2>1, <3>1, <3>2 DEF FrameOf
  <2>5. PlanFor(frames, m.to, m.payload)
    BY <1>2, <2>2, <2>3, <2>4 DEF PlanFor
  <2> QED  BY <1>1, <2>5
<1> QED  BY <1>3, <1>4

\* plan_forward: the pieces of the message handed up, its budget one hop smaller.
LEMMA ForwardCarries ==
  ASSUME HandedUpIsSent, HandsUp(ret), NEW t \in Transport, NEW r, NextId(r) \in Nat
  PROVE  PlanFor(PlanForward(r, ret.msg, t).frames, ret.msg.to, ret.msg.payload)
<1>1. PICK m \in Foreign : ret.msg = [m EXCEPT !.origin = ret.msg.origin]
  BY DEF HandedUpIsSent
<1> DEFINE o == ret.msg.origin
           e == [id |-> m.id, ttl |-> m.ttl, origin |-> m.origin, from |-> m.from, to |-> m.to,
                 kind |-> m.kind, payload |-> m.payload, frag |-> NoFrag]
           e1 == [id |-> m.id, ttl |-> m.ttl, origin |-> o, from |-> m.from, to |-> m.to,
                  kind |-> m.kind, payload |-> m.payload, frag |-> NoFrag]
           e2 == [id |-> m.id, ttl |-> m.ttl - 1, origin |-> o, from |-> m.from, to |-> m.to,
                  kind |-> m.kind, payload |-> m.payload, frag |-> NoFrag]
<1>2. m = e /\ m.payload \in Seq(Nat) /\ FitsMessage(m.payload) /\ m.id \in 0 .. IdSpace - 1
  BY EnvironmentAssumption DEF EnvironmentAssumption, Prepare
<1> HIDE DEF o
<1>3. [e EXCEPT !.origin = o] = e1
  OBVIOUS
<1>4. [e1 EXCEPT !.ttl = m.ttl - 1] = e2 /\ e1.ttl = m.ttl /\ e1.to = m.to /\ e1.payload = m.payload
  OBVIOUS
<1>5. IsMessage(e2) /\ e2.to = m.to /\ e2.payload = m.payload
  <2>1. /\ e2.id = m.id /\ e2.ttl = m.ttl - 1 /\ e2.origin = o /\ e2.from = m.from /\ e2.to = m.to
        /\ e2.kind = m.kind /\ e2.payload = m.payload
    OBVIOUS
  <2>2. e2 = Prepare(e2.id, e2.ttl, e2.origin, e2.from, e2.to, e2.kind, e2.payload)
    BY DEF Prepare
  <2>3. m.id \in Nat
    BY <1>2, IdNumbers
  <2> HIDE DEF e2
  <2> QED  BY <1>2, <2>1, <2>2, <2>3 DEF IsMessage
<1> HIDE DEF e, e1, e2
<1>6. ret.msg = e1
  <2>1. [m EXCEPT !.origin = o] = [e EXCEPT !.origin = o]
    BY <1>2, Zenon
  <2> QED  BY <1>1, <1>3, <2>1, Zenon DEF o
<1>7. PreparedForRelay(ret.msg) = e2
  <2>1. PreparedForRelay(e1) = [e1 EXCEPT !.ttl = e1.ttl - 1]
    BY DEF PreparedForRelay
  <2> QED  BY <1>4, <1>6, <2>1, Zenon
<1> DEFINE result == PlanForward(r, ret.msg, t)
<1>8. result = Refused(r, "Ok") \/ result = EmitOn(r, t, e2)
  BY <1>7 DEF PlanForward
<1> HIDE DEF result
<1>9. CASE result = Refused(r, "Ok")
  <2>1. result.frames = <<>>
    BY <1>9 DEF Refused
  <2> QED  BY <2>1, NoPlan DEF result
<1>10. CASE result = EmitOn(r, t, e2)
  <2>1. PlanFor(EmitOn(r, t, e2).frames, e2.to, e2.payload)
    BY <1>5, EmitCarries
  <2> QED  BY <1>4, <1>5, <1>6, <1>10, <2>1 DEF result
<1> QED  BY <1>8, <1>9, <1>10

\* The ids a call may take are numbers.
LEMMA IdsAreNumbers ==
  ASSUME EngineOK, IdsInv
  PROVE  /\ NextId(relay) \in Nat
         /\ \A dest : \A k \in 1 .. Len(ResolveTargets(relay, dest)) : GroupFor(relay, k) \in Nat
<1>1. \A n \in 0 .. 1 + Len(ALL) : NthId(relay, n) \in Nat
  <2> SUFFICES ASSUME NEW n \in 0 .. 1 + Len(ALL) PROVE NthId(relay, n) \in Nat
    OBVIOUS
  <2> DEFINE j == relay.id_ctr + n
  <2>1. j \in 0 .. IdSpace - 1 /\ NthId(relay, n) = IdAt(j)
    BY IdsAhead
  <2>2. IdBase \in Nat /\ IdSpace \in Nat \ {0}
    BY IdNumbers
  <2> HIDE DEF j
  <2>3. IdAt(j) \in Nat
    <3> DEFINE s == IdSpace
               b == IdBase
    <3>1. j \in Nat /\ b \in Nat /\ s \in Nat \ {0}
      BY <2>1, <2>2
    <3> HIDE DEF s, b
    <3>2. (b + j) % s \in Nat
      BY <3>1
    <3> QED  BY <3>2 DEF IdAt, s, b
  <2> QED  BY <2>1, <2>3
<1>2. 0 \in 0 .. 1 + Len(ALL) /\ Len(ALL) \in Nat
  BY IdNumbers
<1>3. ASSUME NEW dest, NEW k \in 1 .. Len(ResolveTargets(relay, dest))
      PROVE  k \in 0 .. 1 + Len(ALL)
  <2> DEFINE ts == ResolveTargets(relay, dest)
  <2>1. Len(ts) <= Len(ALL) /\ ts \in Seq(Transport)
    BY OrderedTransports DEF ResolveTargets
  <2> HIDE DEF ts
  <2>2. Len(ts) \in Nat
    BY <2>1
  <2>3. k \in 1 .. Len(ts)
    BY DEF ts
  <2> QED  BY <1>2, <2>1, <2>2, <2>3
<1> QED  BY <1>1, <1>2, <1>3 DEF NextId, GroupFor

\* The frames of a plan, in any order on each transport, give the receiver the message
\* once: split, the dedup keys, the reassembler and ingest fit together, for every
\* message, slice size, number of slices and order of arrival.
THEOREM PlansRoundTrip == Spec => []PlansReassemble
<1>1. Init => PlansReassemble
  <2> SUFFICES ASSUME Init PROVE ret.tag \notin {"plan_send", "plan_forward"}
    BY DEF PlansReassemble
  <2> QED  BY DEF Init
<1>2. ASSUME EngineOK, IdsInv, HandedUpIsSent, PlansReassemble, [Next]_vars
      PROVE  PlansReassemble'
  <2>0. ret'.tag \notin {"plan_send", "plan_forward"} => PlansReassemble'
    BY DEF PlansReassemble
  <2>1. CASE UNCHANGED vars
    BY <1>2, <2>1 DEF vars, PlansReassemble
  <2>2. ASSUME PlanFor(ret'.frames, ret'.of.to, ret'.of.payload) PROVE PlansReassemble'
    BY <2>2, PlanRoundTrip DEF PlansReassemble
  <2>3. ASSUME NEW payload \in Payload, NEW dest, PlanSendCall(payload, dest)
        PROVE  PlansReassemble'
    <3> DEFINE plan == PlanSend(relay, "Text", payload, dest)
    <3>1. ret' = [tag |-> "plan_send", of |-> [to |-> dest, payload |-> payload],
                  frames |-> plan.frames, err |-> plan.err]
      BY <2>3 DEF PlanSendCall, Emits
    <3>2. payload \in Seq(Nat)
      BY EnvironmentAssumption DEF EnvironmentAssumption
    <3>3. PlanFor(plan.frames, dest, payload)
      BY <1>2, <3>2, IdsAreNumbers, PlanSendCarries
    <3> HIDE DEF plan
    <3>4. ret'.frames = plan.frames /\ ret'.of.to = dest /\ ret'.of.payload = payload
      BY <3>1
    <3> QED  BY <2>2, <3>3, <3>4
  <2>4. ASSUME NEW t \in Port, PlanForwardCall(t) PROVE PlansReassemble'
    <3> DEFINE plan == PlanForward(relay, ret.msg, t)
    <3>1. HandsUp(ret) /\ ret' = [tag |-> "plan_forward", of |-> ret.msg, frames |-> plan.frames, err |-> plan.err]
      BY <2>4 DEF PlanForwardCall, Emits
    <3>2. t \in Transport
      BY EnvironmentAssumption DEF EnvironmentAssumption
    <3>3. PlanFor(plan.frames, ret.msg.to, ret.msg.payload)
      BY <1>2, <3>1, <3>2, IdsAreNumbers, ForwardCarries
    <3> HIDE DEF plan
    <3>4. ret'.frames = plan.frames /\ ret'.of = ret.msg
      BY <3>1
    <3> QED  BY <2>2, <3>3, <3>4
  <2>5. ASSUME NEW payload \in Payload, NEW dest, NEW t \in Port, SendCall(t, payload, dest)
        PROVE  ret'.tag \notin {"plan_send", "plan_forward"}
    BY <2>5 DEF SendCall, Emits
  <2>6. ASSUME NEW t \in Port, ForwardCall(t)
        PROVE  ret'.tag \notin {"plan_send", "plan_forward"}
    BY <2>6 DEF ForwardCall, Emits
  <2>7. ASSUME ret'.tag \notin CallTags PROVE ret'.tag \notin {"plan_send", "plan_forward"}
    BY <2>7 DEF CallTags
  <2>8. CASE Arrival
    BY <1>2, <2>0, <2>7, <2>8, ArrivalLearns DEF Learns
  <2>9. CASE PortChange
    BY <1>2, <2>0, <2>7, <2>9, PortsAndPeersChange DEF Rewires
  <2>10. ASSUME NEW p \in Declared, (\E t \in Port : AddPeer(p, t)) \/ RemovePeer(p)
         PROVE  PlansReassemble'
    BY <1>2, <2>0, <2>7, <2>10, PortsAndPeersChange DEF Learns, Forgets
  <2> QED  BY <1>2, <2>0, <2>1, <2>3, <2>4, <2>5, <2>6, <2>8, <2>9, <2>10 DEF Next
<1>3. ReceiveInv /\ IdsInv /\ HandedUpIsSent /\ PlansReassemble /\ [Next]_vars => PlansReassemble'
  BY <1>2 DEF ReceiveInv
<1> QED  BY <1>1, <1>3, ReceiveInvHolds, OnlySentIsHandedUp, IdsInvHolds, PTL DEF Spec

=============================================================================

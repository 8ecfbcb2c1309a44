----------------------------- MODULE RelayProofs -----------------------------
(***************************************************************************)
(* For every set of peers, messages, transports and groups, and every size *)
(* of the engine's buffers: what a relay engine hands up is what some node *)
(* sent, and the seen cache knows every slice the reassembler holds.       *)
(***************************************************************************)
EXTENDS RelaySpec, RelayLemmas

(* Reassembly of foreign messages: one lemma for a slice that is ingested.   *)

\* m as it arrives over t: whole, as a slice, and as the template of a slot.
Over(m, t) ==
  [id |-> m.id, ttl |-> m.ttl, origin |-> t, from |-> m.from, to |-> m.to, kind |-> m.kind,
   payload |-> m.payload, frag |-> NoFrag]
TemplateOf(m, t) ==
  [id |-> m.id, ttl |-> m.ttl, origin |-> t, from |-> m.from, to |-> m.to, kind |-> m.kind,
   payload |-> <<>>, frag |-> NoFrag]
Header(m, t, g, q) == [group_id |-> g, seq |-> q, total |-> SliceCount(m, t)]
SliceOver(m, t, g, q) ==
  [id |-> m.id, ttl |-> m.ttl, origin |-> t, from |-> m.from, to |-> m.to, kind |-> m.kind,
   payload |-> CutSlice(m, t, q), frag |-> Header(m, t, g, q)]

Sliced(m, t) == Mtu(t) # 0 /\ Len(m.payload) > Mtu(t)

SlotType ==
  [in_use : BOOLEAN, group_id : Nat, total : Nat, received : Nat,
   seen_mask : SUBSET Bucket, fragments : [Bucket -> Seq(Nat)],
   template : {NoTemplate} \cup {TemplateOf(m, t) : m \in Foreign, t \in Source}]

\* The slot holds a proper part of the slices of m, cut for t under group g.
Collects(slot, m, t, g) ==
  /\ Sliced(m, t)
  /\ slot.in_use /\ slot.group_id = g /\ slot.total = SliceCount(m, t)
  /\ slot.seen_mask \subseteq 0 .. SliceCount(m, t) - 1
  /\ slot.received = Cardinality(slot.seen_mask) /\ slot.received < slot.total
  /\ \A q \in slot.seen_mask : slot.fragments[q] = CutSlice(m, t, q)
  /\ slot.template = TemplateOf(m, t)

SlotsOK(sl) ==
  /\ sl \in [SlotIndex -> SlotType]
  /\ \A i \in SlotIndex : sl[i].in_use =>
       \E m \in Foreign, t \in Source : \E g \in GroupsOf[m][t] : Collects(sl[i], m, t, g)
  /\ \A i \in SlotIndex : sl[i].in_use \/ sl[i] = EmptySlot

Held(slot) == IF slot.in_use THEN slot.seen_mask ELSE {}

LEMMA ForeignMessage ==
  ASSUME NEW m \in Foreign, NEW t \in Source
  PROVE  /\ m.payload \in Seq(Nat) /\ m.frag = NoFrag /\ t \in Transport
         /\ Received(m, t) = Over(m, t)
         /\ GroupsOf[m][t] \subseteq Nat
<1> DEFINE e == [id |-> m.id, ttl |-> m.ttl, origin |-> m.origin, from |-> m.from, to |-> m.to,
                 kind |-> m.kind, payload |-> m.payload, frag |-> NoFrag]
<1>1. m = e /\ m.payload \in Seq(Nat) /\ t \in Transport /\ GroupsOf[m][t] \subseteq Nat
  BY EnvironmentAssumption DEF EnvironmentAssumption, Prepare
<1>2. e.frag = NoFrag
  OBVIOUS
<1>3. [e EXCEPT !.origin = t] = Over(m, t)
  BY DEF Over
<1> HIDE DEF e
<1>4. [m EXCEPT !.origin = t] = [e EXCEPT !.origin = t]
  BY <1>1, Zenon
<1> QED  BY <1>1, <1>2, <1>3, <1>4, Zenon DEF Received

LEMMA ReceivedSlice ==
  ASSUME NEW m \in Foreign, NEW t \in Source, NEW g, NEW q
  PROVE  Received(SliceOf(m, t, g, q), t) = SliceOver(m, t, g, q)
BY DEF Received, SliceOf, SliceOver, Header

\* The header of a slice names its group, its number and the number of slices.
LEMMA SliceHeader ==
  ASSUME NEW m \in Foreign, NEW t \in Source, NEW g \in GroupsOf[m][t], Sliced(m, t),
         NEW q \in 0 .. SliceCount(m, t) - 1
  PROVE  LET f == SliceOver(m, t, g, q).frag
         IN  /\ f.group_id = g /\ f.seq = q /\ f.total = SliceCount(m, t) /\ f # NoFrag
             /\ SliceCount(m, t) \in Nat /\ SliceCount(m, t) > 1 /\ g \in Nat /\ q \in Nat
             /\ ValidHeader(f) => q \in Bucket
<1>1. t \in Transport /\ m.payload \in Seq(Nat) /\ g \in Nat
  BY ForeignMessage
<1>2. SliceCount(m, t) \in Nat /\ SliceCount(m, t) > 1
  BY <1>1, SlicesAreSeveral DEF Sliced
<1>3. Header(m, t, g, q) \in [group_id : Nat, seq : Nat, total : Nat]
  BY <1>1, <1>2 DEF Header
<1>4. Header(m, t, g, q) # NoFrag
  BY <1>3, EnvironmentAssumption DEF EnvironmentAssumption
<1> QED  BY <1>1, <1>2, <1>4, ReassemblerAssumption
         DEF SliceOver, Header, ValidHeader, Bucket, ReassemblerAssumption

LEMMA EmptySlotType == EmptySlot \in SlotType /\ ~EmptySlot.in_use
<1>1. <<>> \in Seq(Nat) /\ {} \in SUBSET Bucket /\ 0 \in Nat
  OBVIOUS
<1> QED  BY <1>1 DEF EmptySlot, SlotType

\* A group belongs to one message and one transport.
LEMMA GroupIsUnique ==
  ASSUME NEW m \in Foreign, NEW t \in Source, NEW g \in GroupsOf[m][t],
         NEW n \in Foreign, NEW u \in Source, g \in GroupsOf[n][u]
  PROVE  m = n /\ t = u
BY EnvironmentAssumption DEF EnvironmentAssumption

\* The slot find_or_claim picks for a slice: it collects the slice's group, or was free.
LEMMA SlotOpened ==
  ASSUME NEW sl, SlotsOK(sl),
         NEW m \in Foreign, NEW t \in Source, NEW g \in GroupsOf[m][t], Sliced(m, t),
         NEW q \in 0 .. SliceCount(m, t) - 1,
         LET f == SliceOver(m, t, g, q).frag
         IN  ~(Existing(sl, f) = {} /\ FreeSlots(sl) = {})
  PROVE  LET i == SlotFor(sl, SliceOver(m, t, g, q).frag)
             o == FoundOrClaimed(sl, SliceOver(m, t, g, q))
         IN  /\ i \in SlotIndex /\ (sl[i].in_use => Collects(sl[i], m, t, g))
             /\ o \in SlotType /\ Collects(o, m, t, g) /\ o.seen_mask = Held(sl[i])
<1> DEFINE msg == SliceOver(m, t, g, q)
           f == msg.frag
           i == SlotFor(sl, f)
           o == FoundOrClaimed(sl, msg)
           c == SliceCount(m, t)
<1>1. /\ f.group_id = g /\ f.total = c /\ c \in Nat /\ c > 1 /\ g \in Nat
  BY SliceHeader
<1>2. CASE Existing(sl, f) # {}
  <2>1. i \in Existing(sl, f) /\ o = sl[i]
    BY <1>2, FirstIsIn DEF SlotFor, FoundOrClaimed, Existing
  <2>2. i \in SlotIndex /\ sl[i].in_use /\ sl[i].group_id = g /\ sl[i] \in SlotType
    BY <1>1, <2>1 DEF Existing, Matches, SlotsOK
  <2>3. PICK n \in Foreign, u \in Source : \E h \in GroupsOf[n][u] : Collects(sl[i], n, u, h)
    BY <2>2 DEF SlotsOK
  <2>4. n = m /\ u = t /\ Collects(sl[i], m, t, g)
    <3>1. PICK h \in GroupsOf[n][u] : Collects(sl[i], n, u, h)
      BY <2>3
    <3>2. h = g
      BY <2>2, <3>1 DEF Collects
    <3> QED  BY <3>1, <3>2, GroupIsUnique
  <2> QED  BY <2>1, <2>2, <2>4 DEF Held
<1>3. CASE Existing(sl, f) = {}
  <2>1. i \in FreeSlots(sl) /\ o = Claimed(sl[i], msg)
    BY <1>3, FirstIsIn DEF SlotFor, FoundOrClaimed, FreeSlots
  <2>2. i \in SlotIndex /\ sl[i] \in SlotType /\ ~sl[i].in_use
    BY <2>1 DEF FreeSlots, SlotsOK
  <2>3. [msg EXCEPT !.payload = <<>>, !.frag = NoFrag] = TemplateOf(m, t)
    <3> DEFINE e == [id |-> m.id, ttl |-> m.ttl, origin |-> t, from |-> m.from, to |-> m.to,
                     kind |-> m.kind, payload |-> <<>>, frag |-> Header(m, t, g, q)]
    <3>1. [msg EXCEPT !.payload = <<>>] = e
      BY DEF SliceOver
    <3>2. [e EXCEPT !.frag = NoFrag] = TemplateOf(m, t)
      BY DEF TemplateOf
    <3> QED  BY <3>1, <3>2
  <2>4. o = [in_use |-> TRUE, group_id |-> g, total |-> c,
             received |-> 0, seen_mask |-> {}, fragments |-> sl[i].fragments,
             template |-> TemplateOf(m, t)]
    BY <1>1, <2>1, <2>3 DEF Claimed
  <2>5. o \in SlotType
    BY <1>1, <2>2, <2>4 DEF SlotType
  <2>6. Cardinality({}) = 0
    BY FS_EmptySet
  <2>7. /\ o.in_use /\ o.group_id = g /\ o.total = c /\ o.received = 0
        /\ o.seen_mask = {} /\ o.template = TemplateOf(m, t)
    BY <2>4
  <2> HIDE DEF o, i, f, msg
  <2>8. Collects(o, m, t, g)
    BY <1>1, <2>6, <2>7 DEF Collects
  <2> QED  BY <2>2, <2>5, <2>7, <2>8 DEF Held, o, i, f, msg
<1> QED  BY <1>2, <1>3

LEMMA SliceSetSize ==
  ASSUME NEW n \in Nat
  PROVE  IsFiniteSet(0 .. n - 1) /\ Cardinality(0 .. n - 1) = n
<1>1. n - 1 \in Int /\ 0 \in Int
  OBVIOUS
<1> QED  BY <1>1, FS_Interval

\* A set of slice numbers counts fewer than all exactly when it misses one.
LEMMA MissesOne ==
  ASSUME NEW n \in Nat, NEW M, M \subseteq 0 .. n - 1
  PROVE  Cardinality(M) < n <=> M # 0 .. n - 1
<1>1. IsFiniteSet(0 .. n - 1) /\ Cardinality(0 .. n - 1) = n
  BY SliceSetSize
<1>2. /\ Cardinality(M) <= n /\ Cardinality(M) \in Nat
      /\ n = Cardinality(M) => M = 0 .. n - 1
  BY <1>1, FS_Subset, FS_CardinalityType
<1> QED  BY <1>1, <1>2

\* A slot that collects m, once it stored a slice it lacked: it still collects m, or
\* it has all the slices and assembles m's payload.
LEMMA SliceStored ==
  ASSUME NEW m \in Foreign, NEW t \in Source, NEW g \in GroupsOf[m][t], Sliced(m, t),
         NEW q \in 0 .. SliceCount(m, t) - 1, q \in Bucket,
         NEW o \in SlotType, Collects(o, m, t, g), q \notin o.seen_mask
  PROVE  LET s == Stored(o, SliceOver(m, t, g, q))
         IN  /\ s \in SlotType /\ s.seen_mask = o.seen_mask \cup {q}
             /\ s.template = TemplateOf(m, t)
             /\ s.received < s.total => Collects(s, m, t, g)
             /\ ~(s.received < s.total) => /\ s.seen_mask = 0 .. SliceCount(m, t) - 1
                                           /\ Assembled(s) = m.payload
<1> DEFINE s == Stored(o, SliceOver(m, t, g, q))
           c == SliceCount(m, t)
<1>1. /\ c \in Nat /\ g \in Nat /\ Mtu(t) # 0 /\ Len(m.payload) # 0
      /\ m.payload \in Seq(Nat) /\ t \in Transport
  BY SliceHeader, ForeignMessage, SlicesAreSeveral DEF Sliced
<1>2. q + 1 \in 1 .. c /\ (q + 1) - 1 = q
  BY <1>1
<1>3. CutSlice(m, t, q) \in Seq(Nat)
  BY <1>1, <1>2, SliceFits
<1>4. /\ o.fragments \in [Bucket -> Seq(Nat)] /\ o.seen_mask \in SUBSET Bucket
      /\ o.received \in Nat /\ o.total = c
  BY DEF SlotType, Collects
<1>5. s = [in_use |-> o.in_use, group_id |-> o.group_id, total |-> o.total,
           received |-> o.received + 1, seen_mask |-> o.seen_mask \cup {q},
           fragments |-> [o.fragments EXCEPT ![q] = CutSlice(m, t, q)],
           template |-> o.template]
  BY DEF Stored, SliceOver, Header
<1>6. s \in SlotType
  BY <1>3, <1>4, <1>5 DEF SlotType
<1>7. IsFiniteSet(0 .. c - 1) /\ Cardinality(0 .. c - 1) = c
  BY <1>1, SliceSetSize
<1>8. Cardinality(o.seen_mask \cup {q}) = o.received + 1
  <2>1. IsFiniteSet(o.seen_mask)
    BY <1>7, FS_Subset DEF Collects
  <2>2. Cardinality(o.seen_mask \cup {q}) = Cardinality(o.seen_mask) + 1
    BY <2>1, FS_AddElement
  <2> QED  BY <2>2 DEF Collects
<1>9. /\ s.seen_mask = o.seen_mask \cup {q} /\ s.seen_mask \subseteq 0 .. c - 1
      /\ s.received = Cardinality(s.seen_mask) /\ s.received \in Nat /\ s.total = c
      /\ s.in_use /\ s.group_id = g /\ s.template = TemplateOf(m, t)
      /\ \A p \in s.seen_mask : s.fragments[p] = CutSlice(m, t, p)
  BY <1>4, <1>5, <1>8 DEF Collects
<1> HIDE DEF s
<1>10. ASSUME ~(s.received < s.total)
       PROVE  s.seen_mask = 0 .. c - 1 /\ Assembled(s) = m.payload
  <2>1. s.seen_mask = 0 .. c - 1
    <3> HIDE DEF c
    <3>1. Cardinality(s.seen_mask) < c <=> s.seen_mask # 0 .. c - 1
      BY <1>1, <1>9, MissesOne
    <3> QED  BY <1>9, <1>10, <3>1
  <2>2. \A k \in 1 .. c : k - 1 \in s.seen_mask
    BY <1>1, <2>1
  <2>3. [k \in 1 .. s.total |-> s.fragments[k - 1]] = [k \in 1 .. c |-> CutSlice(m, t, k - 1)]
    BY <1>9, <2>2
  <2>4. Concat([k \in 1 .. c |-> CutSlice(m, t, k - 1)]) = m.payload
    BY <1>1, SlicesJoin
  <2> QED  BY <2>1, <2>3, <2>4 DEF Assembled
<1>11. s.received < s.total => Collects(s, m, t, g)
  BY <1>9 DEF Collects
<1> QED  BY <1>6, <1>9, <1>10, <1>11 DEF s

\* What ingest does with a slice of m that arrives over t under group g: it drops the
\* slice, or stores it in the group's slot or a free one, or completes the group.
Drops(sl, r) == r.slots = sl /\ r.out.tag = "Dropped"

Stores(sl, r, i, m, t, g, q) ==
  \E s \in SlotType :
    /\ r.slots = [sl EXCEPT ![i] = s] /\ r.out.tag = "Buffered"
    /\ Collects(s, m, t, g) /\ s.seen_mask = Held(sl[i]) \cup {q}

Completes(sl, r, i, m, t, q) ==
  /\ r.slots = [sl EXCEPT ![i] = EmptySlot]
  /\ Held(sl[i]) \cup {q} = 0 .. SliceCount(m, t) - 1
  /\ r.out.tag = "Dropped" \/ r.out = [tag |-> "Complete", msg |-> Over(m, t)]

LEMMA SliceIngested ==
  ASSUME NEW sl, SlotsOK(sl),
         NEW m \in Foreign, NEW t \in Source, NEW g \in GroupsOf[m][t], Sliced(m, t),
         NEW q \in 0 .. SliceCount(m, t) - 1
  PROVE  LET r == Ingest(sl, SliceOver(m, t, g, q))
         IN  \/ Drops(sl, r)
             \/ \E i \in SlotIndex :
                  /\ sl[i].in_use => Collects(sl[i], m, t, g)
                  /\ Stores(sl, r, i, m, t, g, q) \/ Completes(sl, r, i, m, t, q)
<1> DEFINE msg == SliceOver(m, t, g, q)
           f == msg.frag
           i == SlotFor(sl, f)
           o == FoundOrClaimed(sl, msg)
           s == Stored(o, msg)
           r == Ingest(sl, msg)
<1>1. f # NoFrag /\ f.seq = q /\ (ValidHeader(f) => q \in Bucket)
  BY SliceHeader
<1>2. CASE ~ValidHeader(f) \/ (Existing(sl, f) = {} /\ FreeSlots(sl) = {}) \/ AlreadyHas(o, f)
  BY <1>1, <1>2 DEF Ingest, Drops, Dropped
<1>3. CASE ~(~ValidHeader(f) \/ (Existing(sl, f) = {} /\ FreeSlots(sl) = {}) \/ AlreadyHas(o, f))
  <2>1. /\ i \in SlotIndex /\ (sl[i].in_use => Collects(sl[i], m, t, g))
        /\ o \in SlotType /\ Collects(o, m, t, g) /\ o.seen_mask = Held(sl[i])
    BY <1>3, SlotOpened
  <2>2. q \notin o.seen_mask /\ q \in Bucket
    BY <1>1, <1>3 DEF AlreadyHas
  <2>3. /\ s \in SlotType /\ s.seen_mask = Held(sl[i]) \cup {q}
        /\ s.template = TemplateOf(m, t)
        /\ s.received < s.total => Collects(s, m, t, g)
        /\ ~(s.received < s.total) => /\ s.seen_mask = 0 .. SliceCount(m, t) - 1
                                      /\ Assembled(s) = m.payload
    BY <2>1, <2>2, SliceStored
  <2>4. CASE s.received < s.total
    <3>1. r.slots = [sl EXCEPT ![i] = s] /\ r.out.tag = "Buffered"
      BY <1>1, <1>3, <2>4 DEF Ingest, Buffered
    <3>2. Stores(sl, r, i, m, t, g, q)
      BY <2>3, <2>4, <3>1 DEF Stores
    <3> QED  BY <2>1, <3>2
  <2>5. CASE ~(s.received < s.total)
    <3>1. r.slots = [sl EXCEPT ![i] = EmptySlot]
      BY <1>1, <1>3, <2>5 DEF Ingest
    <3>2. CASE Len(Assembled(s)) > MAX_PAYLOAD
      <4>1. r.out.tag = "Dropped"
        BY <1>1, <1>3, <2>5, <3>2 DEF Ingest, Dropped
      <4>2. Completes(sl, r, i, m, t, q)
        BY <2>3, <2>5, <3>1, <4>1 DEF Completes
      <4> QED  BY <2>1, <4>2
    <3>3. CASE ~(Len(Assembled(s)) > MAX_PAYLOAD)
      <4>1. r.out = Complete([s.template EXCEPT !.payload = Assembled(s)])
        BY <1>1, <1>3, <2>5, <3>3 DEF Ingest
      <4>2. [TemplateOf(m, t) EXCEPT !.payload = m.payload] = Over(m, t)
        BY DEF TemplateOf, Over
      <4>3. r.out = [tag |-> "Complete", msg |-> Over(m, t)]
        BY <2>3, <2>5, <4>1, <4>2 DEF Complete
      <4>4. Completes(sl, r, i, m, t, q)
        BY <2>3, <2>5, <3>1, <4>3 DEF Completes
      <4> QED  BY <2>1, <4>4
    <3> QED  BY <3>2, <3>3
  <2> QED  BY <2>4, <2>5
<1> QED  BY <1>2, <1>3

-----------------------------------------------------------------------------
(* The ring of seen keys: how far back a key lies.                           *)

IsRing(c) ==
  /\ c.next \in Slot
  /\ c.ids = [i \in Slot |-> c.ids[i]] /\ c.valid = [i \in Slot |-> c.valid[i]]

\* The slot written d insertions before the latest one.
Back(c, d) == (c.next + (N - 1 - d)) % N

\* The key is among the last d + 1 recorded.
Recent(c, key, d) ==
  \E e \in Slot : e <= d /\ c.valid[Back(c, e)] /\ c.ids[Back(c, e)] = key

\* Walking at most one turn from a slot wraps at most once.
LEMMA RingWalk ==
  ASSUME NEW i \in Slot, NEW d \in Slot
  PROVE  (i + d) % N = (IF i + d < N THEN i + d ELSE i + d - N) /\ (i + d) % N \in Slot
<1>1. N \in Nat \ {0} /\ i \in Nat /\ i < N /\ d \in Nat /\ d < N
  BY CacheAssumption DEF CacheAssumption, Slot
<1>2. CASE i + d < N
  BY <1>1, <1>2, Z3 DEF Slot
<1>3. CASE ~(i + d < N)
  BY <1>1, <1>3, Z3 DEF Slot
<1> QED  BY <1>2, <1>3

LEMMA NextSlot ==
  ASSUME NEW i \in Slot
  PROVE  (i + 1) % N = (IF i + 1 = N THEN 0 ELSE i + 1) /\ (i + 1) % N \in Slot
<1>1. N \in Nat \ {0} /\ i \in Nat /\ i < N
  BY CacheAssumption DEF CacheAssumption, Slot
<1>2. CASE i + 1 = N
  BY <1>1, <1>2, Z3 DEF Slot
<1>3. CASE i + 1 # N
  BY <1>1, <1>3, Z3 DEF Slot
<1> QED  BY <1>2, <1>3

LEMMA RecentIsContained ==
  ASSUME NEW c, IsRing(c), NEW key, NEW d, Recent(c, key, d)
  PROVE  Contains(c, key)
<1>1. PICK e \in Slot : c.valid[Back(c, e)] /\ c.ids[Back(c, e)] = key
  BY DEF Recent
<1>2. N - 1 - e \in Slot
  BY CacheAssumption DEF CacheAssumption, Slot
<1>3. Back(c, e) \in Slot
  BY <1>2, RingWalk DEF Back, IsRing
<1> QED  BY <1>1, <1>3 DEF Contains

\* An insertion puts its key in front and every other key one step back, until the
\* last of the N steps.
LEMMA InsertShifts ==
  ASSUME NEW c, IsRing(c), NEW key
  PROVE  LET c2 == Insert(c, key)
         IN  /\ IsRing(c2) /\ \A d \in Nat : Recent(c2, key, d)
             /\ \A k, d : d \in Nat /\ d + 1 < N /\ Recent(c, k, d) => Recent(c2, k, d + 1)
<1> DEFINE c2 == Insert(c, key)
<1>1. /\ N \in Nat \ {0} /\ c.next \in Slot /\ c.next \in Nat /\ c.next < N /\ 0 \in Slot
  BY CacheAssumption DEF CacheAssumption, IsRing, Slot
<1>2. c2.next = (IF c.next + 1 = N THEN 0 ELSE c.next + 1) /\ c2.next \in Slot
  BY <1>1, NextSlot DEF Insert
<1>3. \A i \in Slot : /\ c2.ids[i] = IF i = c.next THEN key ELSE c.ids[i]
                     /\ c2.valid[i] = IF i = c.next THEN TRUE ELSE c.valid[i]
  <2>1. c2.ids = [c.ids EXCEPT ![c.next] = key] /\ c2.valid = [c.valid EXCEPT ![c.next] = TRUE]
    BY DEF Insert
  <2> HIDE DEF c2
  <2>2. DOMAIN c.ids = Slot /\ DOMAIN c.valid = Slot
    BY DEF IsRing
  <2> QED  BY <2>1, <2>2, Zenon
<1>4. IsRing(c2)
  <2>1. /\ c2.ids = [i \in Slot |-> c2.ids[i]] /\ c2.valid = [i \in Slot |-> c2.valid[i]]
    BY DEF Insert, IsRing
  <2> QED  BY <1>2, <2>1 DEF IsRing
<1> HIDE DEF c2
<1>5. Back(c2, 0) = c.next
  <2>1. N - 1 - 0 \in Slot /\ N - 1 - 0 = N - 1
    BY <1>1 DEF Slot
  <2>2. (c2.next + (N - 1)) % N = IF c2.next + (N - 1) < N THEN c2.next + (N - 1) ELSE c2.next + (N - 1) - N
    BY <1>2, <2>1, RingWalk
  <2> QED  BY <1>1, <1>2, <2>1, <2>2 DEF Back
<1>6. ASSUME NEW e \in Slot, e + 1 < N
      PROVE  e + 1 \in Slot /\ Back(c2, e + 1) = Back(c, e) /\ Back(c, e) \in Slot /\ Back(c, e) # c.next
  <2>1. e \in Nat /\ e + 1 \in Slot /\ N - 1 - e \in Slot /\ N - 1 - (e + 1) \in Slot
    BY <1>1, <1>6 DEF Slot
  <2>2. /\ Back(c, e) \in Slot
        /\ Back(c, e) = IF c.next + (N - 1 - e) < N THEN c.next + (N - 1 - e)
                        ELSE c.next + (N - 1 - e) - N
    BY <1>1, <2>1, RingWalk DEF Back
  <2>3. Back(c2, e + 1) = IF c2.next + (N - 1 - (e + 1)) < N THEN c2.next + (N - 1 - (e + 1))
                          ELSE c2.next + (N - 1 - (e + 1)) - N
    BY <1>2, <2>1, RingWalk DEF Back
  <2> QED  BY <1>1, <1>2, <1>6, <2>1, <2>2, <2>3
<1>7. \A d \in Nat : Recent(c2, key, d)
  <2>1. c2.valid[Back(c2, 0)] /\ c2.ids[Back(c2, 0)] = key
    BY <1>1, <1>3, <1>5
  <2>2. \A d \in Nat : 0 <= d
    OBVIOUS
  <2> QED  BY <1>1, <2>1, <2>2 DEF Recent
<1>8. ASSUME NEW k, NEW d \in Nat, d + 1 < N, Recent(c, k, d)
      PROVE  Recent(c2, k, d + 1)
  <2>1. PICK e \in Slot : e <= d /\ c.valid[Back(c, e)] /\ c.ids[Back(c, e)] = k
    BY <1>8 DEF Recent
  <2>2. e + 1 < N /\ e + 1 <= d + 1
    BY <1>1, <1>8, <2>1 DEF Slot
  <2>3. e + 1 \in Slot /\ Back(c2, e + 1) = Back(c, e) /\ Back(c, e) \in Slot /\ Back(c, e) # c.next
    BY <1>6, <2>2
  <2> QED  BY <1>3, <2>1, <2>2, <2>3 DEF Recent
<1> QED  BY <1>4, <1>7, <1>8 DEF c2

-----------------------------------------------------------------------------
(* The inductive invariant of the receiving half.                            *)

SliceKey(id, q) == Xor(id, (q * Pow2[SeqBits]) % IdSpace)

EngineOK ==
  IsEngine(relay) /\ relay.self_addr = SelfAddr /\ SlotsOK(relay.slots) /\ IsRing(relay.seen)

AgesOK == age \in [Ids -> 0 .. Never]

\* The key was recorded no longer ago than the first frame of the message: what the
\* window of N accepted frames since then rests on.
Fresh(id, key) == age[id] # Never /\ (age[id] < N => Recent(relay.seen, key, age[id]))

HeldIsFresh ==
  \A i \in SlotIndex : relay.slots[i].in_use =>
    \A q \in relay.slots[i].seen_mask :
      Fresh(relay.slots[i].template.id, SliceKey(relay.slots[i].template.id, q))

ReceiveInv == EngineOK /\ AgesOK /\ HeldIsFresh

\* The key of a frame: the id of a whole message, id and number of a slice.
LEMMA KeyOfFrame ==
  ASSUME NEW m \in Foreign, NEW t \in Source
  PROVE  /\ DedupKey(Over(m, t)) = m.id
         /\ \A g \in GroupsOf[m][t] : \A q \in 0 .. SliceCount(m, t) - 1 :
              Sliced(m, t) => DedupKey(SliceOver(m, t, g, q)) = SliceKey(m.id, q)
<1>1. DedupKey(Over(m, t)) = m.id
  BY DEF DedupKey, Over
<1>2. ASSUME NEW g \in GroupsOf[m][t], NEW q \in 0 .. SliceCount(m, t) - 1, Sliced(m, t)
      PROVE  DedupKey(SliceOver(m, t, g, q)) = SliceKey(m.id, q)
  <2>1. SliceOver(m, t, g, q).frag # NoFrag /\ SliceOver(m, t, g, q).frag.seq = q
    BY <1>2, SliceHeader
  <2>2. SliceOver(m, t, g, q).id = m.id
    BY DEF SliceOver
  <2> QED  BY <2>1, <2>2, Zenon DEF DedupKey, SliceKey
<1> QED  BY <1>1, <1>2

\* One frame's ageing of one message, in numbers.
LEMMA AgeStep ==
  ASSUME NEW n \in Nat \ {0}, NEW a \in 0 .. n + 1, NEW first \in BOOLEAN, NEW b,
         b = IF a # n + 1 THEN IF a < n THEN a + 1 ELSE n ELSE IF first THEN 0 ELSE n + 1
  PROVE  /\ a \in Nat /\ b \in Nat /\ b \in 0 .. n + 1
         /\ first => b # n + 1
         /\ a # n + 1 => b # n + 1
         /\ a # n + 1 /\ b < n => b = a + 1 /\ a < n
<1>1. CASE a # n + 1 /\ a < n
  BY <1>1
<1>2. CASE a # n + 1 /\ ~(a < n)
  <2>1. b = n
    BY <1>2
  <2> QED  BY <1>2, <2>1
<1>3. CASE a = n + 1 /\ first
  <2>1. b = 0
    BY <1>3
  <2> QED  BY <1>3, <2>1
<1>4. CASE a = n + 1 /\ ~first
  <2>1. b = n + 1
    BY <1>4
  <2> QED  BY <1>4, <2>1
<1> QED  BY <1>1, <1>2, <1>3, <1>4

\* An accepted frame of message id ages every message whose first frame came before.
LEMMA AcceptedAges ==
  ASSUME AgesOK, NEW id \in Ids, age' = Aged(id, TRUE)
  PROVE  /\ AgesOK' /\ age'[id] # Never
         /\ \A x \in Ids :
              /\ age[x] \in Nat /\ age'[x] \in Nat
              /\ age[x] # Never => /\ age'[x] # Never
                                   /\ age'[x] < N => age'[x] = age[x] + 1 /\ age[x] < N
<1>1. N \in Nat \ {0} /\ Never = N + 1
  BY CacheAssumption DEF CacheAssumption, Never
<1>2. \A x \in Ids : age[x] \in 0 .. N + 1
  BY <1>1 DEF AgesOK
<1>3. \A x \in Ids : age'[x] = IF age[x] # N + 1 THEN IF age[x] < N THEN age[x] + 1 ELSE N
                               ELSE IF x = id THEN 0 ELSE N + 1
  BY <1>1 DEF Aged
<1>4. age' = [x \in Ids |-> age'[x]]
  BY DEF Aged
<1>5. ASSUME NEW x \in Ids
      PROVE  /\ age[x] \in Nat /\ age'[x] \in Nat /\ age'[x] \in 0 .. N + 1
             /\ x = id => age'[x] # N + 1
             /\ age[x] # N + 1 => age'[x] # N + 1
             /\ age[x] # N + 1 /\ age'[x] < N => age'[x] = age[x] + 1 /\ age[x] < N
  <2> DEFINE first == x = id
  <2>1. first \in BOOLEAN
    OBVIOUS
  <2>2. age'[x] = IF age[x] # N + 1 THEN IF age[x] < N THEN age[x] + 1 ELSE N
                  ELSE IF first THEN 0 ELSE N + 1
    BY <1>3
  <2>3. N \in Nat \ {0} /\ age[x] \in 0 .. N + 1
    BY <1>1, <1>2
  <2>4. first => age'[x] # N + 1
    <3> HIDE DEF first
    <3> QED  BY <2>1, <2>2, <2>3, AgeStep
  <2> HIDE DEF first
  <2>5. /\ age[x] \in Nat /\ age'[x] \in Nat /\ age'[x] \in 0 .. N + 1
        /\ age[x] # N + 1 => age'[x] # N + 1
        /\ age[x] # N + 1 /\ age'[x] < N => age'[x] = age[x] + 1 /\ age[x] < N
    BY <2>1, <2>2, <2>3, AgeStep
  <2> QED  BY <2>4, <2>5 DEF first
<1>6. AgesOK'
  BY <1>1, <1>4, <1>5 DEF AgesOK, Never, Ids
<1> QED  BY <1>1, <1>5, <1>6, Zenon

\* An accepted frame keeps what is fresh, and its own key is fresh for its message.
LEMMA FreshIsKept ==
  ASSUME ReceiveInv, NEW id \in Ids, age' = Aged(id, TRUE),
         NEW key, relay'.seen = Insert(relay.seen, key)
  PROVE  /\ Fresh(id, key)'
         /\ \A x \in Ids : \A k : Fresh(x, k) => Fresh(x, k)'
<1>1. /\ age'[id] # Never /\ age'[id] \in Nat
      /\ \A x \in Ids : /\ age[x] \in Nat
                        /\ age[x] # Never => /\ age'[x] # Never
                                             /\ age'[x] < N => age'[x] = age[x] + 1 /\ age[x] < N
  BY AcceptedAges DEF ReceiveInv
<1>2. /\ \A d \in Nat : Recent(relay'.seen, key, d)
      /\ \A k, d : d \in Nat /\ d + 1 < N /\ Recent(relay.seen, k, d) => Recent(relay'.seen, k, d + 1)
  BY InsertShifts DEF ReceiveInv, EngineOK
<1>3. Never' = Never
  BY DEF Never
<1>4. Fresh(id, key)'
  BY <1>1, <1>2, <1>3 DEF Fresh
<1>5. ASSUME NEW x \in Ids, NEW k, Fresh(x, k) PROVE Fresh(x, k)'
  <2>1. age[x] # Never /\ age[x] \in Nat /\ (age[x] < N => Recent(relay.seen, k, age[x]))
    BY <1>1, <1>5 DEF Fresh
  <2>2. ASSUME age'[x] < N PROVE Recent(relay'.seen, k, age'[x])
    <3>1. age'[x] = age[x] + 1 /\ age[x] < N /\ Recent(relay.seen, k, age[x])
      BY <1>1, <2>1, <2>2
    <3>2. age[x] + 1 < N
      BY <2>2, <3>1
    <3> QED  BY <1>2, <2>1, <3>1, <3>2
  <2>3. age'[x] # Never
    BY <1>1, <2>1
  <2> QED  BY <1>3, <2>2, <2>3 DEF Fresh
<1> QED  BY <1>4, <1>5

-----------------------------------------------------------------------------
(* What the arrival of a frame does: it is a duplicate, or it is accepted    *)
(* and the message handed up, a slice stored, or a slice dropped.            *)

Ignored ==
  /\ relay'.slots = relay.slots /\ relay'.seen = relay.seen
  /\ ret'.tag = "Duplicate" /\ age' = age /\ handedUp' = handedUp

Accepted(m, key) ==
  /\ ~Contains(relay.seen, key) /\ relay'.seen = Insert(relay.seen, key)
  /\ age' = Aged(m.id, TRUE)
  /\ handedUp' = IF HandsUp(ret') THEN handedUp \cup {ret'.msg.id} ELSE handedUp

HandedUp(m, t) == ret' = Direct(relay, Over(m, t))
KeptBack == ret'.tag \in {"Buffered", "Dropped"}

AcceptsWhole(m, t) == Accepted(m, m.id) /\ relay'.slots = relay.slots /\ HandedUp(m, t)

AcceptsSlice(m, t, g, q) ==
  /\ Sliced(m, t) /\ Accepted(m, SliceKey(m.id, q))
  /\ \/ relay'.slots = relay.slots /\ KeptBack
     \/ \E i \in SlotIndex :
          /\ relay.slots[i].in_use => Collects(relay.slots[i], m, t, g)
          /\ \/ /\ KeptBack
                /\ \E s \in SlotType :
                     /\ relay'.slots = [relay.slots EXCEPT ![i] = s]
                     /\ Collects(s, m, t, g) /\ s.seen_mask = Held(relay.slots[i]) \cup {q}
             \/ /\ relay'.slots = [relay.slots EXCEPT ![i] = EmptySlot]
                /\ Held(relay.slots[i]) \cup {q} = 0 .. SliceCount(m, t) - 1
                /\ KeptBack \/ HandedUp(m, t)

LEMMA FrameTaken ==
  ASSUME EngineOK, AgesOK, NEW m \in Foreign, NEW t, NEW frame, FrameArrives(m, frame, t)
  PROVE  LET msg == Received(frame, t)
             r   == Ingest(relay.slots, msg)
         IN  /\ IsEngine(relay') /\ relay'.self_addr = SelfAddr
             /\ \/ Ignored
                \/ /\ Accepted(m, DedupKey(msg))
                   /\ relay'.slots = r.slots /\ ret' = Directed(relay, r.out)
<1> DEFINE msg == Received(frame, t)
           key == DedupKey(msg)
           r   == Ingest(relay.slots, msg)
           x   == Learnt(relay, msg, t)
           learnt == [relay EXCEPT !.receivers = x]
           result == IngestFrame(relay, t, frame)
<1>1. IsEngine(learnt) /\ learnt.self_addr = SelfAddr /\ learnt.slots = relay.slots /\ learnt.seen = relay.seen
  BY EngineUpdates DEF EngineOK, SameBuffers
<1>2. /\ relay' = result.relay /\ ret' = result.out
      /\ age' = Aged(m.id, result.out.tag # "Duplicate")
      /\ handedUp' = IF HandsUp(result.out) THEN handedUp \cup {result.out.msg.id} ELSE handedUp
  BY DEF FrameArrives
<1>3. CASE Contains(relay.seen, key)
  <2>1. result.relay = learnt /\ result.out = [tag |-> "Duplicate"]
    BY <1>3 DEF IngestFrame
  <2> HIDE DEF learnt, result
  <2>2. Aged(m.id, FALSE) = age
    BY DEF Aged, AgesOK
  <2>3. ret' = [tag |-> "Duplicate"]
    BY <1>2, <2>1
  <2>4. ret'.tag = "Duplicate" /\ ~HandsUp(ret')
    BY <2>3 DEF HandsUp
  <2>5. age' = age /\ handedUp' = handedUp
    BY <1>2, <2>2, <2>4
  <2> QED  BY <1>1, <1>2, <2>1, <2>4, <2>5 DEF Ignored
<1>4. CASE ~Contains(relay.seen, key)
  <2>1. /\ result.relay = [learnt EXCEPT !.seen = CheckAndInsert(@, key), !.slots = r.slots]
        /\ result.out = Directed(relay, r.out)
    BY <1>4 DEF IngestFrame
  <2> HIDE DEF learnt, result, r, x, msg
  <2>2. [learnt EXCEPT !.seen = CheckAndInsert(@, key), !.slots = r.slots]
          = [learnt EXCEPT !.seen = CheckAndInsert(learnt.seen, key), !.slots = r.slots]
    OBVIOUS
  <2>3. CheckAndInsert(learnt.seen, key) = Insert(relay.seen, key)
    BY <1>1, <1>4 DEF CheckAndInsert
  <2>4. relay' = [learnt EXCEPT !.seen = Insert(relay.seen, key), !.slots = r.slots]
    BY <1>2, <2>1, <2>2, <2>3, Zenon
  <2>5. /\ IsEngine(relay') /\ relay'.self_addr = SelfAddr
        /\ relay'.seen = Insert(relay.seen, key) /\ relay'.slots = r.slots
    <3> DEFINE y == r.slots
               z == Insert(relay.seen, key)
    <3>1. relay' = Rebuffered(learnt, z, y)
      BY <2>4, Zenon DEF Rebuffered
    <3> HIDE DEF y, z
    <3>2. /\ IsEngine(relay') /\ relay'.self_addr = learnt.self_addr
          /\ relay'.seen = z /\ relay'.slots = y
      BY <1>1, <3>1, BuffersUpdate
    <3> QED  BY <1>1, <3>2 DEF y, z
  <2>6. ret'.tag # "Duplicate"
    BY <1>2, <2>1, IngestAnswers DEF Directed, Direct, r
  <2>7. age' = Aged(m.id, TRUE)
    BY <1>2, <2>6
  <2>8. Accepted(m, key)
    BY <1>2, <1>4, <2>5, <2>7 DEF Accepted
  <2> QED  BY <1>2, <2>1, <2>5, <2>8 DEF r, msg
<1> QED  BY <1>3, <1>4

LEMMA WholeArrives ==
  ASSUME EngineOK, AgesOK, NEW m \in Foreign, NEW t \in Source, FrameArrives(m, m, t)
  PROVE  IsEngine(relay') /\ relay'.self_addr = SelfAddr /\ (Ignored \/ AcceptsWhole(m, t))
<1> DEFINE r == Ingest(relay.slots, Over(m, t))
<1>1. Received(m, t) = Over(m, t) /\ DedupKey(Over(m, t)) = m.id
  BY ForeignMessage, KeyOfFrame
<1>2. Over(m, t).frag = NoFrag
  BY DEF Over
<1>3. r.slots = relay.slots /\ r.out = Passthrough(Over(m, t))
  BY <1>2 DEF Ingest
<1>4. Directed(relay, r.out) = Direct(relay, Over(m, t))
  <2> HIDE DEF r
  <2> QED  BY <1>3 DEF Directed, Passthrough
<1> HIDE DEF r
<1>5. /\ IsEngine(relay') /\ relay'.self_addr = SelfAddr
      /\ \/ Ignored
         \/ /\ Accepted(m, m.id) /\ relay'.slots = r.slots /\ ret' = Directed(relay, r.out)
  BY <1>1, FrameTaken DEF r
<1> QED  BY <1>3, <1>4, <1>5 DEF AcceptsWhole, HandedUp

LEMMA SliceArrives ==
  ASSUME EngineOK, AgesOK, NEW m \in Foreign, NEW t \in Source, NEW g \in GroupsOf[m][t],
         Sliced(m, t), NEW q \in 0 .. SliceCount(m, t) - 1,
         FrameArrives(m, SliceOf(m, t, g, q), t)
  PROVE  IsEngine(relay') /\ relay'.self_addr = SelfAddr /\ (Ignored \/ AcceptsSlice(m, t, g, q))
<1> DEFINE sl == relay.slots
           r  == Ingest(sl, SliceOver(m, t, g, q))
<1>1. /\ Received(SliceOf(m, t, g, q), t) = SliceOver(m, t, g, q)
      /\ DedupKey(SliceOver(m, t, g, q)) = SliceKey(m.id, q)
  BY ReceivedSlice, KeyOfFrame
<1>2. \/ Drops(sl, r)
      \/ \E i \in SlotIndex :
           /\ sl[i].in_use => Collects(sl[i], m, t, g)
           /\ Stores(sl, r, i, m, t, g, q) \/ Completes(sl, r, i, m, t, q)
  BY SliceIngested DEF EngineOK
<1> HIDE DEF r
<1>3. /\ IsEngine(relay') /\ relay'.self_addr = SelfAddr
      /\ \/ Ignored
         \/ /\ Accepted(m, SliceKey(m.id, q))
            /\ relay'.slots = r.slots /\ ret' = Directed(relay, r.out)
  BY <1>1, FrameTaken DEF r
<1>4. CASE Ignored
  BY <1>3, <1>4
<1>5. CASE /\ Accepted(m, SliceKey(m.id, q))
           /\ relay'.slots = r.slots /\ ret' = Directed(relay, r.out)
  <2>1. r.out.tag \in {"Dropped", "Buffered"} => KeptBack
    BY <1>5 DEF KeptBack, Directed
  <2>2. r.out = [tag |-> "Complete", msg |-> Over(m, t)] => HandedUp(m, t)
    BY <1>5 DEF HandedUp, Directed
  <2>3. CASE Drops(sl, r)
    BY <1>3, <1>5, <2>1, <2>3 DEF Drops, AcceptsSlice
  <2>4. ASSUME NEW i \in SlotIndex, sl[i].in_use => Collects(sl[i], m, t, g),
               Stores(sl, r, i, m, t, g, q) \/ Completes(sl, r, i, m, t, q)
        PROVE  AcceptsSlice(m, t, g, q)
    <3>1. CASE Stores(sl, r, i, m, t, g, q)
      BY <1>5, <2>1, <2>4, <3>1 DEF Stores, AcceptsSlice
    <3>2. CASE Completes(sl, r, i, m, t, q)
      BY <1>5, <2>1, <2>2, <2>4, <3>2 DEF Completes, AcceptsSlice
    <3> QED  BY <2>4, <3>1, <3>2
  <2> QED  BY <1>2, <1>3, <2>3, <2>4
<1> QED  BY <1>3, <1>4, <1>5

\* An arriving frame is a message as split sends it: whole or a slice.
LEMMA FrameOfSplit ==
  ASSUME NEW m \in Foreign, NEW t \in Source, NEW g, NEW k \in DOMAIN Split(m, t, g)
  PROVE  \/ Split(m, t, g)[k] = m
         \/ Sliced(m, t) /\ \E q \in 0 .. SliceCount(m, t) - 1 : Split(m, t, g)[k] = SliceOf(m, t, g, q)
<1>1. m.payload \in Seq(Nat) /\ m.frag = NoFrag /\ Mtu(t) \in Nat /\ Len(m.payload) \in Nat
  BY ForeignMessage, MtuIsNat
<1>2. ~Unfragmentable(m, t)
  BY DEF Split
<1>3. CASE Len(m.payload) <= Mtu(t)
  BY <1>1, <1>2, <1>3 DEF Split
<1>4. CASE ~(Len(m.payload) <= Mtu(t))
  <2>1. Sliced(m, t)
    BY <1>1, <1>2, <1>4 DEF Sliced, Unfragmentable
  <2>2. SliceCount(m, t) \in Nat
    BY <1>1, <2>1, ForeignMessage, SlicesAreSeveral DEF Sliced
  <2>3. k \in 1 .. SliceCount(m, t) /\ Split(m, t, g)[k] = SliceOf(m, t, g, k - 1)
    BY <1>1, <1>2, <1>4 DEF Split
  <2>4. k - 1 \in 0 .. SliceCount(m, t) - 1
    BY <2>2, <2>3
  <2> QED  BY <2>1, <2>3, <2>4
<1> QED  BY <1>3, <1>4

Accepts ==
  \E m \in Foreign, t \in Source :
    \/ AcceptsWhole(m, t)
    \/ \E g \in GroupsOf[m][t] : \E q \in 0 .. SliceCount(m, t) - 1 : AcceptsSlice(m, t, g, q)

LEMMA ArrivalCases ==
  ASSUME EngineOK, AgesOK, Arrival
  PROVE  IsEngine(relay') /\ relay'.self_addr = SelfAddr /\ (Ignored \/ Accepts)
<1>1. PICK m \in Foreign, t \in Source : \E g \in GroupsOf[m][t] : \E k \in DOMAIN Split(m, t, g) :
         FrameArrives(m, Split(m, t, g)[k], t)
  BY DEF Arrival
<1>2. PICK g \in GroupsOf[m][t] : \E k \in DOMAIN Split(m, t, g) :
         FrameArrives(m, Split(m, t, g)[k], t)
  BY <1>1
<1>3. PICK k \in DOMAIN Split(m, t, g) : FrameArrives(m, Split(m, t, g)[k], t)
  BY <1>2
<1>4. CASE Split(m, t, g)[k] = m
  <2>1. FrameArrives(m, m, t)
    BY <1>3, <1>4
  <2> QED  BY <2>1, WholeArrives DEF Accepts
<1>5. ASSUME Sliced(m, t), NEW q \in 0 .. SliceCount(m, t) - 1,
             Split(m, t, g)[k] = SliceOf(m, t, g, q)
      PROVE  IsEngine(relay') /\ relay'.self_addr = SelfAddr /\ (Ignored \/ Accepts)
  <2>1. FrameArrives(m, SliceOf(m, t, g, q), t)
    BY <1>3, <1>5
  <2> QED  BY <1>5, <2>1, SliceArrives DEF Accepts
<1> QED  BY <1>4, <1>5, FrameOfSplit

-----------------------------------------------------------------------------
(* An accepted frame preserves the invariant.                                *)

LEMMA SlotsUpdated ==
  ASSUME NEW sl, SlotsOK(sl), NEW i \in SlotIndex, NEW s \in SlotType,
         s = EmptySlot \/ \E m \in Foreign, t \in Source : \E g \in GroupsOf[m][t] : Collects(s, m, t, g)
  PROVE  LET sl2 == [sl EXCEPT ![i] = s]
         IN  SlotsOK(sl2) /\ sl2[i] = s /\ \A j \in SlotIndex \ {i} : sl2[j] = sl[j]
<1> DEFINE sl2 == [sl EXCEPT ![i] = s]
<1>1. sl2 \in [SlotIndex -> SlotType] /\ sl2[i] = s /\ \A j \in SlotIndex \ {i} : sl2[j] = sl[j]
  BY DEF SlotsOK
<1>2. s.in_use \/ s = EmptySlot
  BY DEF Collects
<1>3. s.in_use => \E m \in Foreign, t \in Source : \E g \in GroupsOf[m][t] : Collects(s, m, t, g)
  BY EmptySlotType
<1> HIDE DEF sl2
<1>4. SlotsOK(sl2)
  <2>1. ASSUME NEW j \in SlotIndex
        PROVE  /\ sl2[j].in_use => \E m \in Foreign, t \in Source : \E g \in GroupsOf[m][t] :
                                     Collects(sl2[j], m, t, g)
               /\ sl2[j].in_use \/ sl2[j] = EmptySlot
    <3>1. CASE j = i
      BY <1>1, <1>2, <1>3, <3>1
    <3>2. CASE j # i
      BY <1>1, <3>2 DEF SlotsOK
    <3> QED  BY <3>1, <3>2
  <2> QED  BY <1>1, <2>1 DEF SlotsOK
<1> QED  BY <1>1, <1>4 DEF sl2

\* What an accepted slice does to the slots: at most slot i changes.  It then is empty,
\* or it collects m and has the slice on top of what it held; if m is handed up, slot i
\* held all the other slices.
SlotTakes(i, m, t, q) ==
  LET old == relay.slots[i]
      new == relay'.slots[i]
  IN  /\ \A j \in SlotIndex \ {i} : relay'.slots[j] = relay.slots[j]
      /\ \/ new = old /\ KeptBack
         \/ /\ old.in_use => old.template = TemplateOf(m, t)
            /\ \/ /\ KeptBack /\ new.template = TemplateOf(m, t)
                  /\ new.seen_mask = Held(old) \cup {q}
               \/ /\ ~new.in_use
                  /\ KeptBack \/ (HandedUp(m, t) /\ Held(old) \cup {q} = 0 .. SliceCount(m, t) - 1)

LEMMA SliceTaken ==
  ASSUME ReceiveInv, NEW m \in Foreign, NEW t \in Source, NEW g \in GroupsOf[m][t],
         NEW q \in 0 .. SliceCount(m, t) - 1, AcceptsSlice(m, t, g, q)
  PROVE  SlotsOK(relay'.slots) /\ \E i \in SlotIndex : SlotTakes(i, m, t, q)
<1> DEFINE sl == relay.slots
<1>1. SlotsOK(sl) /\ 1 \in SlotIndex
  BY ReassemblerAssumption DEF ReceiveInv, EngineOK, ReassemblerAssumption, SlotIndex
<1>2. CASE relay'.slots = sl /\ KeptBack
  BY <1>1, <1>2, Zenon DEF SlotTakes
<1>3. ASSUME NEW i \in SlotIndex, sl[i].in_use => Collects(sl[i], m, t, g), KeptBack,
             NEW s \in SlotType, relay'.slots = [sl EXCEPT ![i] = s],
             Collects(s, m, t, g), s.seen_mask = Held(sl[i]) \cup {q}
      PROVE  SlotsOK(relay'.slots) /\ SlotTakes(i, m, t, q)
  <2>1. SlotsOK(relay'.slots) /\ relay'.slots[i] = s /\ \A j \in SlotIndex \ {i} : relay'.slots[j] = sl[j]
    BY <1>1, <1>3, SlotsUpdated
  <2>2. s.template = TemplateOf(m, t) /\ (sl[i].in_use => sl[i].template = TemplateOf(m, t))
    BY <1>3 DEF Collects
  <2> QED  BY <1>3, <2>1, <2>2, Zenon DEF SlotTakes
<1>4. ASSUME NEW i \in SlotIndex, sl[i].in_use => Collects(sl[i], m, t, g),
             relay'.slots = [sl EXCEPT ![i] = EmptySlot],
             Held(sl[i]) \cup {q} = 0 .. SliceCount(m, t) - 1, KeptBack \/ HandedUp(m, t)
      PROVE  SlotsOK(relay'.slots) /\ SlotTakes(i, m, t, q)
  <2>1. SlotsOK(relay'.slots) /\ relay'.slots[i] = EmptySlot /\ \A j \in SlotIndex \ {i} : relay'.slots[j] = sl[j]
    BY <1>1, <1>4, SlotsUpdated, EmptySlotType
  <2>2. ~relay'.slots[i].in_use /\ (sl[i].in_use => sl[i].template = TemplateOf(m, t))
    BY <1>4, <2>1, EmptySlotType DEF Collects
  <2> QED  BY <1>4, <2>1, <2>2, Zenon DEF SlotTakes
<1> QED  BY <1>2, <1>3, <1>4 DEF AcceptsSlice

\* A slot in use holds a message some node sent.
LEMMA HeldId ==
  ASSUME NEW sl, SlotsOK(sl), NEW i \in SlotIndex, sl[i].in_use
  PROVE  sl[i].template.id \in Ids
<1>1. PICK m \in Foreign, t \in Source : \E g \in GroupsOf[m][t] : Collects(sl[i], m, t, g)
  BY DEF SlotsOK
<1>2. sl[i].template.id = m.id
  BY <1>1 DEF Collects, TemplateOf
<1> QED  BY <1>2 DEF Ids

LEMMA WholeKeepsInv ==
  ASSUME ReceiveInv, IsEngine(relay'), relay'.self_addr = SelfAddr,
         NEW m \in Foreign, NEW t \in Source, AcceptsWhole(m, t)
  PROVE  ReceiveInv'
<1>1. m.id \in Ids
  BY DEF Ids
<1>2. /\ age' = Aged(m.id, TRUE) /\ relay'.seen = Insert(relay.seen, m.id)
      /\ relay'.slots = relay.slots
  BY DEF AcceptsWhole, Accepted
<1>3. AgesOK' /\ IsRing(relay'.seen)
  <2>1. AgesOK'
    BY <1>1, <1>2, AcceptedAges DEF ReceiveInv
  <2>2. IsRing(relay'.seen)
    BY <1>2, InsertShifts DEF ReceiveInv, EngineOK
  <2> QED  BY <2>1, <2>2
<1>4. \A x \in Ids : \A k : Fresh(x, k) => Fresh(x, k)'
  BY <1>1, <1>2, FreshIsKept
<1>5. EngineOK'
  BY <1>2, <1>3 DEF ReceiveInv, EngineOK
<1>6. HeldIsFresh'
  <2> SUFFICES ASSUME NEW i \in SlotIndex, relay'.slots[i].in_use, NEW q \in relay'.slots[i].seen_mask
               PROVE  Fresh(relay.slots[i].template.id, SliceKey(relay.slots[i].template.id, q))'
    BY <1>2 DEF HeldIsFresh
  <2>1. Fresh(relay.slots[i].template.id, SliceKey(relay.slots[i].template.id, q))
    BY <1>2 DEF ReceiveInv, HeldIsFresh
  <2>2. relay.slots[i].template.id \in Ids
    BY <1>2, HeldId DEF ReceiveInv, EngineOK
  <2> QED  BY <1>2, <1>4, <2>1, <2>2
<1> QED  BY <1>3, <1>5, <1>6 DEF ReceiveInv

LEMMA SliceKeepsInv ==
  ASSUME ReceiveInv, IsEngine(relay'), relay'.self_addr = SelfAddr,
         NEW m \in Foreign, NEW t \in Source, NEW g \in GroupsOf[m][t],
         NEW q \in 0 .. SliceCount(m, t) - 1, AcceptsSlice(m, t, g, q)
  PROVE  ReceiveInv'
<1>1. m.id \in Ids
  BY DEF Ids
<1>2. age' = Aged(m.id, TRUE) /\ relay'.seen = Insert(relay.seen, SliceKey(m.id, q))
  BY DEF AcceptsSlice, Accepted
<1>3. AgesOK' /\ IsRing(relay'.seen)
  <2>1. AgesOK'
    BY <1>1, <1>2, AcceptedAges DEF ReceiveInv
  <2>2. IsRing(relay'.seen)
    BY <1>2, InsertShifts DEF ReceiveInv, EngineOK
  <2> QED  BY <2>1, <2>2
<1>4. Fresh(m.id, SliceKey(m.id, q))' /\ \A x \in Ids : \A k : Fresh(x, k) => Fresh(x, k)'
  BY <1>1, <1>2, FreshIsKept
<1>5. SlotsOK(relay'.slots)
  BY SliceTaken
<1>6. EngineOK'
  BY <1>3, <1>5 DEF EngineOK
<1>7. PICK i \in SlotIndex : SlotTakes(i, m, t, q)
  BY SliceTaken
<1>8. ASSUME NEW j \in SlotIndex, relay'.slots[j].in_use, NEW p \in relay'.slots[j].seen_mask
      PROVE  LET id == relay'.slots[j].template.id
             IN  \/ id = m.id /\ p = q
                 \/ id \in Ids /\ Fresh(id, SliceKey(id, p))
  <2>1. ASSUME relay'.slots[j] = relay.slots[j]
        PROVE  LET id == relay'.slots[j].template.id
               IN  id \in Ids /\ Fresh(id, SliceKey(id, p))
    BY <1>8, <2>1, HeldId DEF ReceiveInv, HeldIsFresh, EngineOK
  <2>2. ASSUME j = i, relay'.slots[i].template = TemplateOf(m, t), p \in Held(relay.slots[i]),
               relay.slots[i].in_use => relay.slots[i].template = TemplateOf(m, t)
        PROVE  LET id == relay'.slots[j].template.id
               IN  id \in Ids /\ Fresh(id, SliceKey(id, p))
    <3>1. relay.slots[i].in_use /\ p \in relay.slots[i].seen_mask
          /\ relay.slots[i].template = relay'.slots[j].template
      BY <2>2 DEF Held
    <3> QED  BY <2>2, <3>1, HeldId DEF ReceiveInv, HeldIsFresh, EngineOK
  <2>3. TemplateOf(m, t).id = m.id
    BY DEF TemplateOf
  <2> QED  BY <1>7, <1>8, <2>1, <2>2, <2>3 DEF SlotTakes
<1>9. HeldIsFresh'
  <2> SUFFICES ASSUME NEW j \in SlotIndex, relay'.slots[j].in_use, NEW p \in relay'.slots[j].seen_mask
               PROVE  Fresh(relay.slots[j].template.id, SliceKey(relay.slots[j].template.id, p))'
    BY DEF HeldIsFresh
  <2> DEFINE id == relay'.slots[j].template.id
  <2>1. \/ id = m.id /\ p = q
        \/ id \in Ids /\ Fresh(id, SliceKey(id, p))
    BY <1>8
  <2> QED  BY <1>4, <2>1
<1> QED  BY <1>3, <1>6, <1>9 DEF ReceiveInv

-----------------------------------------------------------------------------
(* Every other call leaves the buffers, and what was handed up, alone.       *)

LEMMA SameIsSame ==
  ASSUME NEW r, IsEngine(r)
  PROVE  SameBuffers(r, r)
BY DEF SameBuffers

LEMMA SameTwice ==
  ASSUME NEW r, NEW r2, NEW r3, SameBuffers(r, r2), SameBuffers(r2, r3)
  PROVE  SameBuffers(r, r3)
BY DEF SameBuffers

LEMMA IdsTaken ==
  ASSUME NEW r, IsEngine(r), NEW n
  PROVE  SameBuffers(r, TakeIds(r, n))
<1> DEFINE x == (r.id_ctr + n) % IdSpace
<1>1. TakeIds(r, n) = [r EXCEPT !.id_ctr = x]
  BY DEF TakeIds
<1> HIDE DEF x
<1> QED  BY <1>1, EngineUpdates

LEMMA PortsAndPeersKeep ==
  ASSUME NEW r, IsEngine(r), NEW t, NEW p
  PROVE  /\ SameBuffers(r, RegisterPort(r, t)) /\ SameBuffers(r, UnregisterPort(r, t))
         /\ SameBuffers(r, AddReceiver(r, p, t)) /\ SameBuffers(r, RemoveReceiver(r, p))
<1> DEFINE reg == r.registered \cup {t}
           unreg == r.registered \ {t}
           added == Add(r.receivers, p, t)
           removed == Remove(r.receivers, p)
<1>1. RegisterPort(r, t) = [r EXCEPT !.registered = reg]
  BY DEF RegisterPort
<1>2. UnregisterPort(r, t) = [r EXCEPT !.registered = unreg]
  BY DEF UnregisterPort
<1>3. AddReceiver(r, p, t) = [r EXCEPT !.receivers = added]
  BY DEF AddReceiver
<1>4. RemoveReceiver(r, p) = [r EXCEPT !.receivers = removed]
  BY DEF RemoveReceiver
<1> HIDE DEF reg, unreg, added, removed
<1>5. SameBuffers(r, RegisterPort(r, t))
  BY <1>1, EngineUpdates
<1>6. SameBuffers(r, UnregisterPort(r, t))
  BY <1>2, EngineUpdates
<1>7. SameBuffers(r, AddReceiver(r, p, t))
  BY <1>3, EngineUpdates
<1>8. SameBuffers(r, RemoveReceiver(r, p))
  BY <1>4, EngineUpdates
<1> QED  BY <1>5, <1>6, <1>7, <1>8

LEMMA SendsKeep ==
  ASSUME NEW r, IsEngine(r), NEW t, NEW payload, NEW dest, NEW msg
  PROVE  /\ SameBuffers(r, PlanSend(r, "Text", payload, dest).relay)
         /\ SameBuffers(r, Send(r, t, "Text", payload, dest).relay)
         /\ SameBuffers(r, PlanForward(r, msg, t).relay)
<1>1. /\ SameBuffers(r, r) /\ SameBuffers(r, TakeIds(r, 1))
      /\ \A n : SameBuffers(r, TakeIds(r, n))
      /\ SameBuffers(r, TakeIds(TakeIds(r, 1), 1))
  <2>1. SameBuffers(TakeIds(r, 1), TakeIds(TakeIds(r, 1), 1))
    BY IdsTaken DEF SameBuffers
  <2> QED  BY <2>1, IdsTaken, SameIsSame, SameTwice
<1>2. \A q, m, u : EmitOn(q, u, m).relay = TakeIds(q, 1)
  BY DEF EmitOn
<1>3. SameBuffers(r, PlanSend(r, "Text", payload, dest).relay)
  <2>1. PICK n : \/ PlanSend(r, "Text", payload, dest).relay = r
                 \/ PlanSend(r, "Text", payload, dest).relay = TakeIds(r, n)
    BY DEF PlanSend, Refused
  <2> QED  BY <1>1, <2>1
<1>4. SameBuffers(r, Send(r, t, "Text", payload, dest).relay)
  <2>1. Send(r, t, "Text", payload, dest).relay \in {r, TakeIds(r, 1), TakeIds(TakeIds(r, 1), 1)}
    BY <1>2 DEF Send, Refused
  <2> QED  BY <1>1, <2>1
<1>5. SameBuffers(r, PlanForward(r, msg, t).relay)
  <2>1. PlanForward(r, msg, t).relay \in {r, TakeIds(r, 1)}
    BY <1>2 DEF PlanForward, Refused
  <2> QED  BY <1>1, <2>1
<1> QED  BY <1>3, <1>4, <1>5

\* The calls of the interface that are not the arrival of a frame.
OtherCall ==
  \/ PortChange
  \/ \E p \in Declared : (\E t \in Port : AddPeer(p, t)) \/ RemovePeer(p)
  \/ \E payload \in Payload, dest \in Peer \cup {BROADCAST_ADDR} :
       \/ PlanSendCall(payload, dest)
       \/ \E t \in Port : SendCall(t, payload, dest)
  \/ \E t \in Port : PlanForwardCall(t) \/ ForwardCall(t)

Quiet == SameBuffers(relay, relay') /\ age' = age /\ handedUp' = handedUp /\ ~HandsUp(ret')

LEMMA EmitsIsQuiet ==
  ASSUME NEW call \in {"plan_send", "send", "plan_forward", "forward"}, NEW msg, NEW result, NEW sent,
         Emits(call, msg, result, sent), SameBuffers(relay, result.relay)
  PROVE  Quiet
BY DEF Emits, Quiet, HandsUp

LEMMA OtherCallsAreQuiet ==
  ASSUME EngineOK, OtherCall
  PROVE  Quiet
<1> IsEngine(relay)
  BY DEF EngineOK
<1>1. CASE PortChange
  <2>1. PICK t \in Port : relay' \in {RegisterPort(relay, t), UnregisterPort(relay, t)}
    BY <1>1 DEF PortChange
  <2>2. SameBuffers(relay, relay')
    BY <2>1, PortsAndPeersKeep
  <2> QED  BY <1>1, <2>2 DEF PortChange, Quiet, HandsUp
<1>2. ASSUME NEW p \in Declared, NEW t \in Port, AddPeer(p, t) PROVE Quiet
  <2>1. SameBuffers(relay, relay')
    BY <1>2, PortsAndPeersKeep DEF AddPeer
  <2> QED  BY <1>2, <2>1 DEF AddPeer, AddAnswer, Quiet, HandsUp
<1>3. ASSUME NEW p \in Declared, RemovePeer(p) PROVE Quiet
  <2>1. SameBuffers(relay, relay')
    BY <1>3, PortsAndPeersKeep DEF RemovePeer
  <2> QED  BY <1>3, <2>1 DEF RemovePeer, Quiet, HandsUp
<1>4. ASSUME NEW payload, NEW dest, PlanSendCall(payload, dest) PROVE Quiet
  BY <1>4, SendsKeep, EmitsIsQuiet DEF PlanSendCall
<1>5. ASSUME NEW t \in Port, NEW payload, NEW dest, SendCall(t, payload, dest) PROVE Quiet
  BY <1>5, SendsKeep, EmitsIsQuiet DEF SendCall
<1>6. ASSUME NEW t \in Port, PlanForwardCall(t) PROVE Quiet
  BY <1>6, SendsKeep, EmitsIsQuiet DEF PlanForwardCall
<1>7. ASSUME NEW t \in Port, ForwardCall(t) PROVE Quiet
  BY <1>7, SendsKeep, EmitsIsQuiet DEF ForwardCall
<1> QED  BY <1>1, <1>2, <1>3, <1>4, <1>5, <1>6, <1>7 DEF OtherCall

LEMMA QuietKeepsInv ==
  ASSUME ReceiveInv, SameBuffers(relay, relay'), age' = age
  PROVE  ReceiveInv'
<1>1. EngineOK' /\ AgesOK'
  BY DEF ReceiveInv, EngineOK, AgesOK, SameBuffers, Never, Ids
<1>2. HeldIsFresh'
  BY DEF ReceiveInv, HeldIsFresh, Fresh, SameBuffers, Never
<1> QED  BY <1>1, <1>2 DEF ReceiveInv

-----------------------------------------------------------------------------
(* The invariant holds.                                                      *)

LEMMA InitHasInv == Init => ReceiveInv
<1> SUFFICES ASSUME Init PROVE ReceiveInv
  OBVIOUS
<1>1. /\ N \in Nat \ {0} /\ 0 \in Slot /\ SlotIndex # {}
  BY CacheAssumption, ReassemblerAssumption
     DEF CacheAssumption, ReassemblerAssumption, Slot, SlotIndex
<1>2. /\ IsEngine(relay) /\ relay.self_addr = SelfAddr
      /\ relay.slots = EmptySlots /\ relay.seen = EmptyCache
  BY DEF Init, NewRelay, IsEngine
<1>3. \A i \in SlotIndex : relay.slots[i] = EmptySlot /\ ~relay.slots[i].in_use
  BY <1>2, EmptySlotType DEF EmptySlots
<1>4. SlotsOK(relay.slots)
  BY <1>2, <1>3, EmptySlotType DEF EmptySlots, SlotsOK
<1>5. IsRing(relay.seen)
  BY <1>1, <1>2 DEF EmptyCache, IsRing
<1>6. AgesOK
  BY <1>1 DEF Init, AgesOK, Never
<1>7. HeldIsFresh
  BY <1>3 DEF HeldIsFresh
<1> QED  BY <1>2, <1>4, <1>5, <1>6, <1>7 DEF ReceiveInv, EngineOK

LEMMA NextCases ==
  ASSUME ReceiveInv, [Next]_vars
  PROVE  \/ UNCHANGED vars
         \/ Quiet
         \/ Ignored /\ SameBuffers(relay, relay')
         \/ Accepts /\ IsEngine(relay') /\ relay'.self_addr = SelfAddr
<1>1. CASE UNCHANGED vars
  BY <1>1
<1>2. CASE Arrival
  BY <1>2, ArrivalCases DEF ReceiveInv, EngineOK, Ignored, SameBuffers
<1>3. CASE OtherCall
  BY <1>3, OtherCallsAreQuiet DEF ReceiveInv
<1> QED  BY <1>1, <1>2, <1>3 DEF Next, OtherCall

LEMMA StepKeepsInv ==
  ASSUME ReceiveInv, [Next]_vars
  PROVE  ReceiveInv'
<1>1. CASE UNCHANGED vars
  <2>1. SameBuffers(relay, relay') /\ age' = age
    BY <1>1, SameIsSame DEF vars, ReceiveInv, EngineOK
  <2> QED  BY <2>1, QuietKeepsInv
<1>2. CASE Quiet
  BY <1>2, QuietKeepsInv DEF Quiet
<1>3. CASE Ignored /\ SameBuffers(relay, relay')
  BY <1>3, QuietKeepsInv DEF Ignored
<1>4. CASE Accepts /\ IsEngine(relay') /\ relay'.self_addr = SelfAddr
  BY <1>4, WholeKeepsInv, SliceKeepsInv DEF Accepts
<1> QED  BY <1>1, <1>2, <1>3, <1>4, NextCases

\* The engine's type, its slots (each free, or holding a proper part of the slices of
\* one message some node sent, under that message's group), the shape of the ring of
\* seen keys, and: the key of every slice held was recorded no longer ago than the first
\* frame of its message.
THEOREM ReceiveInvHolds == Spec => []ReceiveInv
<1>1. Init => ReceiveInv
  BY InitHasInv
<1>2. ReceiveInv /\ [Next]_vars => ReceiveInv'
  BY StepKeepsInv
<1> QED  BY <1>1, <1>2, PTL DEF Spec

\* The seen cache and the reassembler agree: ingest can hand the reassembler no slice a
\* slot already holds while the window of N accepted frames since its message's first
\* one is open.
THEOREM KnownSlices == Spec => []HeldSlicesAreKnown
<1>1. ReceiveInv => HeldSlicesAreKnown
  <2> SUFFICES ASSUME ReceiveInv, NEW i \in SlotIndex, NEW q \in relay.slots[i].seen_mask
               PROVE  LET slot == relay.slots[i]
                          held == [id |-> slot.template.id,
                                   frag |-> [group_id |-> slot.group_id, seq |-> q,
                                             total |-> slot.total]]
                      IN  age[held.id] < N => Contains(relay.seen, DedupKey(held))
    BY DEF HeldSlicesAreKnown
  <2> DEFINE slot == relay.slots[i]
             held == [id |-> slot.template.id,
                      frag |-> [group_id |-> slot.group_id, seq |-> q, total |-> slot.total]]
  <2>1. slot \in SlotType /\ (slot.in_use \/ slot = EmptySlot) /\ IsRing(relay.seen)
    BY DEF ReceiveInv, EngineOK, SlotsOK
  <2>2. slot.in_use
    BY <2>1 DEF EmptySlot
  <2>3. q \in Nat /\ slot.group_id \in Nat /\ slot.total \in Nat
    BY <2>1, ReassemblerAssumption DEF SlotType, Bucket, ReassemblerAssumption
  <2>4. Fresh(slot.template.id, SliceKey(slot.template.id, q))
    BY <2>2 DEF ReceiveInv, HeldIsFresh
  <2>5. held.frag # NoFrag
    BY <2>3, EnvironmentAssumption DEF EnvironmentAssumption
  <2>6. DedupKey(held) = SliceKey(slot.template.id, q)
    BY <2>5 DEF DedupKey, SliceKey
  <2>7. ASSUME age[slot.template.id] < N PROVE Contains(relay.seen, SliceKey(slot.template.id, q))
    BY <2>1, <2>4, <2>7, RecentIsContained DEF Fresh
  <2> QED  BY <2>6, <2>7
<1> QED  BY <1>1, ReceiveInvHolds, PTL

LEMMA UpIsSent ==
  ASSUME EngineOK, NEW m \in Foreign, NEW t \in Source, HandedUp(m, t)
  PROVE  HandedUpIsSent'
<1>1. [m EXCEPT !.origin = t] = Over(m, t) /\ Over(m, t).origin = t /\ Over(m, t).to = m.to
  BY ForeignMessage DEF Received, Over
<1>2. ret'.msg = Over(m, t) /\ (ret'.tag = "Complete" <=> m.to = SelfAddr \/ m.to = BROADCAST_ADDR)
  BY <1>1 DEF HandedUp, Direct, IsBroadcast, EngineOK
<1>3. ret'.msg = [m EXCEPT !.origin = ret'.msg.origin]
  BY <1>1, <1>2, Zenon
<1> QED  BY <1>2, <1>3 DEF HandedUpIsSent

\* What an engine hands up, from frames in any order, repeated or incomplete, is a
\* message some node sent, whole and unmixed with others, and labelled for this node
\* exactly when it is addressed to it or to all.
THEOREM OnlySentIsHandedUp == Spec => []HandedUpIsSent
<1>1. Init => HandedUpIsSent
  BY DEF Init, HandedUpIsSent, HandsUp
<1>2. ReceiveInv /\ HandedUpIsSent /\ [Next]_vars => HandedUpIsSent'
  <2> SUFFICES ASSUME ReceiveInv, HandedUpIsSent, [Next]_vars PROVE HandedUpIsSent'
    OBVIOUS
  <2>1. CASE UNCHANGED vars
    BY <2>1 DEF vars, HandedUpIsSent
  <2>2. CASE ~HandsUp(ret')
    BY <2>2 DEF HandedUpIsSent
  <2>3. CASE Accepts
    <3>1. PICK m \in Foreign, t \in Source :
            \/ AcceptsWhole(m, t)
            \/ \E g \in GroupsOf[m][t] : \E q \in 0 .. SliceCount(m, t) - 1 : AcceptsSlice(m, t, g, q)
      BY <2>3 DEF Accepts
    <3>2. HandedUp(m, t) \/ KeptBack
      BY <3>1 DEF AcceptsWhole, AcceptsSlice
    <3>3. KeptBack => ~HandsUp(ret')
      BY DEF KeptBack, HandsUp
    <3> QED  BY <2>2, <3>2, <3>3, UpIsSent DEF ReceiveInv
  <2>4. Ignored => ~HandsUp(ret')
    BY DEF Ignored, HandsUp
  <2> QED  BY <2>1, <2>2, <2>3, <2>4, NextCases DEF Quiet
<1> QED  BY <1>1, <1>2, ReceiveInvHolds, PTL DEF Spec

-----------------------------------------------------------------------------
(* Words: the powers of two, and an exclusive or with zero.                   *)

Doubles(f, n) == f = [k \in 0 .. n |-> IF k = 0 THEN 1 ELSE 2 * f[k - 1]]

LEMMA DoublesExists ==
  ASSUME NEW n \in Nat
  PROVE  \E f : Doubles(f, n)
<1> DEFINE S == {i \in Nat : ~\E f : Doubles(f, i)}
<1>1. S = {}
  <2> SUFFICES ASSUME S # {} PROVE FALSE
    OBVIOUS
  <2>1. S \subseteq Nat
    OBVIOUS
  <2>2. PICK i \in S : \A j \in S : i <= j
    <3> HIDE DEF S
    <3> QED  BY <2>1, LeastExists
  <2>3. i \in Nat /\ ~\E f : Doubles(f, i)
    BY <2>2
  <2>4. CASE i = 0
    <3>1. Doubles([k \in 0 .. i |-> 1], i)
      BY <2>4 DEF Doubles
    <3> QED  BY <2>3, <3>1
  <2>5. CASE i # 0
    <3>1. i - 1 \in Nat /\ ~(i <= i - 1)
      BY <2>3, <2>5
    <3>2. PICK f : Doubles(f, i - 1)
      BY <2>2, <3>1
    <3> DEFINE g == [k \in 0 .. i |-> IF k = i THEN 2 * f[i - 1] ELSE f[k]]
    <3>3. ASSUME NEW k \in 0 .. i PROVE g[k] = IF k = 0 THEN 1 ELSE 2 * g[k - 1]
      <4>1. CASE k = i
        <5>1. g[k] = 2 * f[i - 1] /\ g[k - 1] = f[i - 1]
          BY <3>1, <4>1
        <5> QED  BY <2>5, <4>1, <5>1
      <4>2. CASE k # i
        <5>1. k \in 0 .. i - 1 /\ g[k] = f[k]
          BY <2>3, <4>2
        <5>2. f[k] = IF k = 0 THEN 1 ELSE 2 * f[k - 1]
          BY <3>2, <5>1, Zenon DEF Doubles
        <5>3. k # 0 => g[k - 1] = f[k - 1]
          BY <2>3, <5>1
        <5> QED  BY <5>1, <5>2, <5>3
      <4> QED  BY <4>1, <4>2
    <3>4. Doubles(g, i)
      BY <3>3, Zenon DEF Doubles
    <3> QED  BY <2>3, <3>4
  <2> QED  BY <2>4, <2>5
<1> QED  BY <1>1

LEMMA DoublesAgree ==
  ASSUME NEW n \in Nat, NEW m \in Nat, n <= m, NEW f, NEW g, Doubles(f, n), Doubles(g, m)
  PROVE  f[n] = g[n]
<1> DEFINE D == {k \in 0 .. n : f[k] # g[k]}
<1>1. D = {}
  <2> SUFFICES ASSUME D # {} PROVE FALSE
    OBVIOUS
  <2>1. D \subseteq Nat
    OBVIOUS
  <2>2. PICK i \in D : \A j \in D : i <= j
    <3> HIDE DEF D
    <3> QED  BY <2>1, LeastExists
  <2>3. i \in 0 .. n /\ i \in 0 .. m /\ i \in Nat
    BY <2>2
  <2>4. /\ f[i] = IF i = 0 THEN 1 ELSE 2 * f[i - 1]
        /\ g[i] = IF i = 0 THEN 1 ELSE 2 * g[i - 1]
    BY <2>3, Zenon DEF Doubles
  <2>5. i # 0 => f[i - 1] = g[i - 1]
    <3>1. i # 0 => i - 1 \in 0 .. n /\ ~(i <= i - 1)
      BY <2>3
    <3> QED  BY <2>2, <3>1
  <2> QED  BY <2>2, <2>4, <2>5
<1> QED  BY <1>1

LEMMA Powers ==
  /\ Pow2[0] = 1
  /\ \A k \in Nat : Pow2[k] \in Nat \ {0} /\ Pow2[k + 1] = 2 * Pow2[k]
<1> DEFINE F(n) == CHOOSE f : Doubles(f, n)
           h == [k \in Nat |-> F(k)[k]]
<1>1. \A n \in Nat : Doubles(F(n), n)
  BY DoublesExists
<1> HIDE DEF F
<1>2. ASSUME NEW k \in Nat PROVE h[k] = IF k = 0 THEN 1 ELSE 2 * h[k - 1]
  <2>1. Doubles(F(k), k) /\ k \in 0 .. k
    BY <1>1
  <2>2. F(k)[k] = IF k = 0 THEN 1 ELSE 2 * F(k)[k - 1]
    BY <2>1, Zenon DEF Doubles
  <2>3. CASE k # 0
    <3>1. k - 1 \in Nat /\ k - 1 <= k
      BY <2>3
    <3>2. F(k - 1)[k - 1] = F(k)[k - 1]
      BY <1>1, <2>1, <3>1, DoublesAgree
    <3> QED  BY <2>2, <2>3, <3>1, <3>2
  <2> QED  BY <2>2, <2>3
<1>3. h = [k \in Nat |-> IF k = 0 THEN 1 ELSE 2 * h[k - 1]]
  BY <1>2, Zenon
<1> HIDE DEF h
<1>4. Pow2 = [k \in Nat |-> IF k = 0 THEN 1 ELSE 2 * Pow2[k - 1]]
  BY <1>3, Zenon DEF Pow2
<1>5. \A k \in Nat : Pow2[k] = IF k = 0 THEN 1 ELSE 2 * Pow2[k - 1]
  BY <1>4, Zenon
<1> DEFINE D == {k \in Nat : Pow2[k] \notin Nat \ {0}}
<1>6. D = {}
  <2> SUFFICES ASSUME D # {} PROVE FALSE
    OBVIOUS
  <2>1. D \subseteq Nat
    OBVIOUS
  <2>2. PICK i \in D : \A j \in D : i <= j
    <3> HIDE DEF D
    <3> QED  BY <2>1, LeastExists
  <2>3. i \in Nat /\ Pow2[i] = IF i = 0 THEN 1 ELSE 2 * Pow2[i - 1]
    BY <1>5, <2>2
  <2>4. i # 0 => Pow2[i - 1] \in Nat \ {0}
    <3>1. i # 0 => i - 1 \in Nat /\ ~(i <= i - 1)
      BY <2>3
    <3> QED  BY <2>2, <3>1
  <2> QED  BY <2>2, <2>3, <2>4
<1>7. ASSUME NEW k \in Nat PROVE Pow2[k] \in Nat \ {0} /\ Pow2[k + 1] = 2 * Pow2[k]
  <2>1. k + 1 \in Nat /\ k + 1 # 0 /\ (k + 1) - 1 = k
    OBVIOUS
  <2>2. Pow2[k + 1] = 2 * Pow2[(k + 1) - 1]
    BY <1>5, <2>1, Zenon
  <2> QED  BY <1>6, <2>1, <2>2
<1> QED  BY <1>5, <1>7

\* The remainder modulo 2p has the bit of weight p on top of the remainder modulo p.
LEMMA TopBit ==
  ASSUME NEW a \in Nat, NEW p \in Nat \ {0}
  PROVE  LET v == (a \div p) % 2
         IN  v \in {0, 1} /\ (0 \div p) % 2 = 0 /\ a % (2 * p) = (a % p) + v * p
<1> DEFINE q == a \div p
           r == a % p
           u == q \div 2
           v == q % 2
<1>1. q \in Nat /\ r \in Nat /\ r < p /\ a = q * p + r /\ (0 \div p) % 2 = 0
  BY Z3
<1> HIDE DEF q, r
<1>2. u \in Nat /\ v \in {0, 1} /\ q = 2 * u + v
  BY <1>1, Z3
<1> HIDE DEF u, v
<1>3. a = u * (2 * p) + (v * p + r)
  BY <1>1, <1>2, Z3
<1>4. v * p + r \in Nat /\ v * p + r < 2 * p
  BY <1>1, <1>2, Z3
<1>5. a % (2 * p) = v * p + r
  <2> DEFINE d == 2 * p
             s == v * p + r
  <2>1. d \in Nat \ {0} /\ s \in Nat /\ s < d /\ a = u * d + s
    BY <1>3, <1>4
  <2> HIDE DEF d, s
  <2>2. a % d = s
    BY <1>2, <2>1, Z3
  <2> QED  BY <2>2 DEF d, s
<1>6. a % (2 * p) = r + v * p
  BY <1>1, <1>2, <1>5, Z3
<1> QED  BY <1>1, <1>2, <1>6, Zenon DEF q, r, v

LEMMA XorZero ==
  ASSUME NEW a \in 0 .. IdSpace - 1
  PROVE  Xor(a, 0) = a
<1> DEFINE Low(f) == f = [k \in Nat |-> IF k = 0 THEN 0
                            ELSE f[k - 1] + ((Bit(a, k - 1) + Bit(0, k - 1)) % 2) * Pow2[k - 1]]
           w == [k \in Nat |-> a % Pow2[k]]
           low == CHOOSE f : Low(f)
<1>1. a \in Nat /\ IdBits \in Nat /\ a < Pow2[IdBits] /\ Pow2[IdBits] \in Nat \ {0}
  BY RelayAssumption, Powers DEF RelayAssumption, IdSpace
<1>2. ASSUME NEW k \in Nat
      PROVE  w[k] = IF k = 0 THEN 0
                    ELSE w[k - 1] + ((Bit(a, k - 1) + Bit(0, k - 1)) % 2) * Pow2[k - 1]
  <2>1. CASE k = 0
    BY <1>1, <2>1, Powers, Z3
  <2>2. CASE k # 0
    <3>1. k - 1 \in Nat /\ (k - 1) + 1 = k
      BY <2>2
    <3>2. Pow2[k - 1] \in Nat \ {0} /\ Pow2[k] = 2 * Pow2[k - 1]
      BY <3>1, Powers
    <3> DEFINE p == Pow2[k - 1]
               v == (a \div p) % 2
    <3>3. v \in {0, 1} /\ (0 \div p) % 2 = 0 /\ a % (2 * p) = (a % p) + v * p
      BY <1>1, <3>2, TopBit
    <3>4. w[k] = a % Pow2[k] /\ w[k - 1] = a % p
      BY <3>1, Zenon
    <3>5. Bit(a, k - 1) = v /\ Bit(0, k - 1) = 0
      BY <3>3, Zenon DEF Bit
    <3> HIDE DEF w, v, p
    <3>6. (Bit(a, k - 1) + Bit(0, k - 1)) % 2 = v
      BY <3>3, <3>5
    <3>7. w[k] = w[k - 1] + v * p
      BY <3>2, <3>3, <3>4 DEF p
    <3> QED  BY <2>2, <3>6, <3>7, Zenon DEF p
  <2> QED  BY <2>1, <2>2
<1>3. Low(w)
  BY <1>2, Zenon
<1>4. Low(low)
  BY <1>3, Zenon
<1>5. \A k \in Nat : low[k] = IF k = 0 THEN 0
                              ELSE low[k - 1] + ((Bit(a, k - 1) + Bit(0, k - 1)) % 2) * Pow2[k - 1]
  BY <1>4, Zenon
<1> HIDE DEF low, w
<1> DEFINE D == {k \in Nat : low[k] # w[k]}
<1>6. D = {}
  <2> SUFFICES ASSUME D # {} PROVE FALSE
    OBVIOUS
  <2>1. D \subseteq Nat
    OBVIOUS
  <2>2. PICK i \in D : \A j \in D : i <= j
    <3> HIDE DEF D
    <3> QED  BY <2>1, LeastExists
  <2>3. i \in Nat /\ low[i] # w[i]
    BY <2>2
  <2>4. i # 0 => low[i - 1] = w[i - 1]
    <3>1. i # 0 => i - 1 \in Nat /\ ~(i <= i - 1)
      BY <2>3
    <3> QED  BY <2>2, <3>1
  <2>5. CASE i = 0
    BY <1>2, <1>5, <2>3, <2>5, Zenon
  <2>6. CASE i # 0
    BY <1>2, <1>5, <2>3, <2>4, <2>6, Zenon
  <2> QED  BY <2>5, <2>6
<1>7. low[IdBits] = a % Pow2[IdBits]
  BY <1>1, <1>6 DEF w
<1>8. a % Pow2[IdBits] = a
  BY <1>1, Z3
<1>9. Xor(a, 0) = low[IdBits]
  BY DEF Xor, low
<1> QED  BY <1>7, <1>8, <1>9

-----------------------------------------------------------------------------
(* Slice 0 of a message and the whole message have one key, the id: what was *)
(* handed up is still known, and slice 0 is held in one slot at most.        *)

HoldsFirst(slot, id) == slot.in_use /\ slot.template.id = id /\ 0 \in slot.seen_mask

UpIsFresh == handedUp \subseteq Ids /\ \A id \in handedUp : Fresh(id, id)

OneFirstSlice ==
  \A id \in Ids : age[id] < N =>
    /\ id \in handedUp => \A i \in SlotIndex : ~HoldsFirst(relay.slots[i], id)
    /\ \A i, j \in SlotIndex :
         HoldsFirst(relay.slots[i], id) /\ HoldsFirst(relay.slots[j], id) => i = j

UpInv == ReceiveInv /\ UpIsFresh /\ OneFirstSlice

\* The first slice's key is the message's own.
LEMMA FirstKey ==
  ASSUME NEW id \in Ids
  PROVE  SliceKey(id, 0) = id
<1>1. id \in 0 .. IdSpace - 1
  BY EnvironmentAssumption DEF EnvironmentAssumption, Ids
<1>2. /\ IdSpace \in Nat \ {0} /\ Pow2[SeqBits] \in Nat \ {0}
  BY RelayAssumption, Powers DEF RelayAssumption, IdSpace
<1>3. (0 * Pow2[SeqBits]) % IdSpace = 0
  <2>1. 0 * Pow2[SeqBits] = 0
    BY <1>2, Z3
  <2>2. 0 % IdSpace = 0
    BY <1>2, Z3
  <2> QED  BY <2>1, <2>2, Zenon
<1>4. Xor(id, 0) = id
  BY <1>1, XorZero
<1> QED  BY <1>3, <1>4, Zenon DEF SliceKey

\* A message handed up, or whose first slice is held, is fresh under its id: while its
\* window is open the cache knows the id, and it was open before the last frame.
LEMMA FirstIsKnown ==
  ASSUME UpInv, NEW id \in Ids,
         id \in handedUp \/ \E i \in SlotIndex : HoldsFirst(relay.slots[i], id)
  PROVE  Fresh(id, id) /\ (age[id] < N => Contains(relay.seen, id))
<1>1. Fresh(id, id)
  BY FirstKey DEF UpInv, UpIsFresh, ReceiveInv, HeldIsFresh, HoldsFirst
<1>2. IsRing(relay.seen)
  BY DEF UpInv, ReceiveInv, EngineOK
<1> QED  BY <1>1, <1>2, RecentIsContained DEF Fresh

LEMMA WindowWasOpen ==
  ASSUME UpInv, NEW id \in Ids, NEW new \in Ids, age' = Aged(new, TRUE), age'[id] < N,
         id \in handedUp \/ \E i \in SlotIndex : HoldsFirst(relay.slots[i], id)
  PROVE  age[id] < N /\ Contains(relay.seen, id)
<1>1. age[id] # Never
  BY FirstIsKnown DEF Fresh
<1>2. age[id] < N
  BY <1>1, AcceptedAges DEF UpInv, ReceiveInv
<1> QED  BY <1>2, FirstIsKnown

LEMMA DirectHandsUp ==
  ASSUME NEW m \in Foreign, NEW t \in Source, HandedUp(m, t)
  PROVE  HandsUp(ret') /\ ret'.msg.id = m.id
BY DEF HandedUp, Direct, HandsUp, Over

LEMMA WholeKeepsUp ==
  ASSUME UpInv, ReceiveInv', NEW m \in Foreign, NEW t \in Source, AcceptsWhole(m, t)
  PROVE  UpInv'
<1>1. m.id \in Ids
  BY DEF Ids
<1>2. /\ age' = Aged(m.id, TRUE) /\ relay'.seen = Insert(relay.seen, m.id)
      /\ relay'.slots = relay.slots /\ ~Contains(relay.seen, m.id)
      /\ handedUp' = handedUp \cup {m.id}
  BY DirectHandsUp DEF AcceptsWhole, Accepted
<1>3. Fresh(m.id, m.id)' /\ \A x \in Ids : \A k : Fresh(x, k) => Fresh(x, k)'
  BY <1>1, <1>2, FreshIsKept DEF UpInv
<1>4. UpIsFresh'
  <2>1. Ids' = Ids
    BY DEF Ids
  <2>2. handedUp' \subseteq Ids
    BY <1>1, <1>2 DEF UpInv, UpIsFresh
  <2>3. \A id \in handedUp' : Fresh(id, id)'
    BY <1>1, <1>2, <1>3 DEF UpInv, UpIsFresh
  <2> QED  BY <2>1, <2>2, <2>3 DEF UpIsFresh
<1>5. ASSUME NEW id \in Ids, age'[id] < N
      PROVE  /\ id \in handedUp' => \A i \in SlotIndex : ~HoldsFirst(relay'.slots[i], id)
             /\ \A i, j \in SlotIndex :
                  HoldsFirst(relay'.slots[i], id) /\ HoldsFirst(relay'.slots[j], id) => i = j
  <2>1. id \in handedUp \/ (\E i \in SlotIndex : HoldsFirst(relay.slots[i], id)) =>
          age[id] < N /\ id # m.id
    BY <1>1, <1>2, <1>5, WindowWasOpen
  <2> QED  BY <1>2, <1>5, <2>1 DEF UpInv, OneFirstSlice
<1>6. OneFirstSlice'
  BY <1>5 DEF OneFirstSlice, Ids
<1> QED  BY <1>4, <1>6 DEF UpInv

\* After an accepted slice a slot holds the first slice only if it did before, or if
\* this was the first slice; then, within the window, nobody had it and m was not up.
LEMMA FirstsAfterSlice ==
  ASSUME UpInv, NEW m \in Foreign, NEW t \in Source, NEW g \in GroupsOf[m][t],
         NEW q \in 0 .. SliceCount(m, t) - 1, AcceptsSlice(m, t, g, q),
         NEW i \in SlotIndex, SlotTakes(i, m, t, q)
  PROVE  /\ \A j \in SlotIndex, id \in Ids :
              HoldsFirst(relay'.slots[j], id) =>
                HoldsFirst(relay.slots[j], id) \/ (q = 0 /\ id = m.id /\ j = i)
         /\ q = 0 /\ age'[m.id] < N =>
              m.id \notin handedUp /\ \A j \in SlotIndex : ~HoldsFirst(relay.slots[j], m.id)
         /\ \/ handedUp' = handedUp
            \/ /\ handedUp' = handedUp \cup {m.id} /\ ~relay'.slots[i].in_use
               /\ q = 0 \/ HoldsFirst(relay.slots[i], m.id)
<1>1. m.id \in Ids /\ TemplateOf(m, t).id = m.id
  BY DEF Ids, TemplateOf
<1>2. /\ age' = Aged(m.id, TRUE) /\ ~Contains(relay.seen, SliceKey(m.id, q))
      /\ handedUp' = IF HandsUp(ret') THEN handedUp \cup {ret'.msg.id} ELSE handedUp
  BY DEF AcceptsSlice, Accepted
<1>3. ASSUME NEW j \in SlotIndex, NEW id \in Ids, HoldsFirst(relay'.slots[j], id)
      PROVE  HoldsFirst(relay.slots[j], id) \/ (q = 0 /\ id = m.id /\ j = i)
  <2>1. CASE relay'.slots[j] = relay.slots[j]
    BY <1>3, <2>1
  <2>2. CASE relay'.slots[j] # relay.slots[j]
    <3>1. j = i /\ relay'.slots[i] # relay.slots[i]
      BY <2>2 DEF SlotTakes
    <3>2. relay'.slots[i].in_use
      BY <1>3, <3>1 DEF HoldsFirst
    <3>3. /\ relay.slots[i].in_use => relay.slots[i].template = TemplateOf(m, t)
          /\ relay'.slots[i].template = TemplateOf(m, t)
          /\ relay'.slots[i].seen_mask = Held(relay.slots[i]) \cup {q}
      BY <3>1, <3>2 DEF SlotTakes
    <3>4. id = m.id /\ (q = 0 \/ 0 \in Held(relay.slots[i]))
      BY <1>1, <1>3, <3>1, <3>3 DEF HoldsFirst
    <3> QED  BY <1>1, <3>1, <3>3, <3>4 DEF HoldsFirst, Held
  <2> QED  BY <2>1, <2>2
<1>4. ASSUME q = 0, age'[m.id] < N
      PROVE  m.id \notin handedUp /\ \A j \in SlotIndex : ~HoldsFirst(relay.slots[j], m.id)
  <2>1. ~Contains(relay.seen, m.id)
    BY <1>1, <1>2, <1>4, FirstKey
  <2> QED  BY <1>1, <1>2, <1>4, <2>1, WindowWasOpen
<1>5. ASSUME KeptBack PROVE handedUp' = handedUp
  BY <1>2, <1>5 DEF KeptBack, HandsUp
<1>6. ASSUME ~KeptBack
      PROVE  /\ handedUp' = handedUp \cup {m.id} /\ ~relay'.slots[i].in_use
             /\ q = 0 \/ HoldsFirst(relay.slots[i], m.id)
  <2>1. /\ relay.slots[i].in_use => relay.slots[i].template = TemplateOf(m, t)
        /\ ~relay'.slots[i].in_use /\ HandedUp(m, t)
        /\ Held(relay.slots[i]) \cup {q} = 0 .. SliceCount(m, t) - 1
    BY <1>6 DEF SlotTakes
  <2>2. handedUp' = handedUp \cup {m.id}
    BY <1>2, <2>1, DirectHandsUp
  <2>3. 0 \in 0 .. SliceCount(m, t) - 1
    <3>1. SliceCount(m, t) \in Nat /\ SliceCount(m, t) > 1
      BY SliceHeader DEF AcceptsSlice
    <3> QED  BY <3>1
  <2>4. q = 0 \/ 0 \in Held(relay.slots[i])
    BY <2>1, <2>3
  <2>5. q = 0 \/ HoldsFirst(relay.slots[i], m.id)
    BY <1>1, <2>1, <2>4 DEF HoldsFirst, Held
  <2> QED  BY <2>1, <2>2, <2>5
<1>7. \/ handedUp' = handedUp
      \/ /\ handedUp' = handedUp \cup {m.id} /\ ~relay'.slots[i].in_use
         /\ q = 0 \/ HoldsFirst(relay.slots[i], m.id)
  BY <1>5, <1>6
<1> QED  BY <1>3, <1>4, <1>7

LEMMA SliceKeepsUp ==
  ASSUME UpInv, ReceiveInv', NEW m \in Foreign, NEW t \in Source, NEW g \in GroupsOf[m][t],
         NEW q \in 0 .. SliceCount(m, t) - 1, AcceptsSlice(m, t, g, q)
  PROVE  UpInv'
<1>1. m.id \in Ids /\ Ids' = Ids
  BY DEF Ids
<1>2. age' = Aged(m.id, TRUE) /\ relay'.seen = Insert(relay.seen, SliceKey(m.id, q))
  BY DEF AcceptsSlice, Accepted
<1>3. PICK i \in SlotIndex : SlotTakes(i, m, t, q)
  BY SliceTaken DEF UpInv
<1>4. \A j \in SlotIndex, id \in Ids :
        HoldsFirst(relay'.slots[j], id) =>
          HoldsFirst(relay.slots[j], id) \/ (q = 0 /\ id = m.id /\ j = i)
  BY <1>3, FirstsAfterSlice
<1>5. q = 0 /\ age'[m.id] < N =>
        m.id \notin handedUp /\ \A j \in SlotIndex : ~HoldsFirst(relay.slots[j], m.id)
  BY <1>3, FirstsAfterSlice
<1>6. \/ handedUp' = handedUp
      \/ /\ handedUp' = handedUp \cup {m.id} /\ ~relay'.slots[i].in_use
         /\ q = 0 \/ HoldsFirst(relay.slots[i], m.id)
  BY <1>3, FirstsAfterSlice
<1>7. UpIsFresh'
  <2>1. Fresh(m.id, SliceKey(m.id, q))' /\ \A x \in Ids : \A k : Fresh(x, k) => Fresh(x, k)'
    BY <1>1, <1>2, FreshIsKept DEF UpInv
  <2>2. \A id \in handedUp : id \in Ids /\ Fresh(id, id)'
    BY <2>1 DEF UpInv, UpIsFresh
  <2>3. q = 0 => Fresh(m.id, m.id)'
    BY <1>1, <2>1, FirstKey
  <2>4. HoldsFirst(relay.slots[i], m.id) => Fresh(m.id, m.id)'
    BY <1>1, <2>1, FirstIsKnown
  <2>5. \A id \in handedUp' : id \in Ids /\ Fresh(id, id)'
    BY <1>1, <1>6, <2>2, <2>3, <2>4
  <2> QED  BY <1>1, <2>5 DEF UpIsFresh
<1>8. ASSUME NEW id \in Ids, age'[id] < N
      PROVE  /\ id \in handedUp' => \A j \in SlotIndex : ~HoldsFirst(relay'.slots[j], id)
             /\ \A j, k \in SlotIndex :
                  HoldsFirst(relay'.slots[j], id) /\ HoldsFirst(relay'.slots[k], id) => j = k
  <2>1. id \in handedUp \/ (\E j \in SlotIndex : HoldsFirst(relay.slots[j], id)) => age[id] < N
    BY <1>1, <1>2, <1>8, WindowWasOpen
  <2>2. /\ id \in handedUp => \A j \in SlotIndex : ~HoldsFirst(relay.slots[j], id)
        /\ \A j, k \in SlotIndex :
             HoldsFirst(relay.slots[j], id) /\ HoldsFirst(relay.slots[k], id) => j = k
    BY <2>1 DEF UpInv, OneFirstSlice
  <2>3. ~relay'.slots[i].in_use => ~HoldsFirst(relay'.slots[i], id)
    BY DEF HoldsFirst
  <2>4. \A j, k \in SlotIndex :
          HoldsFirst(relay'.slots[j], id) /\ HoldsFirst(relay'.slots[k], id) => j = k
    BY <1>4, <1>5, <1>8, <2>2
  <2>5. ASSUME id \in handedUp', NEW j \in SlotIndex, HoldsFirst(relay'.slots[j], id) PROVE FALSE
    <3>1. CASE id \in handedUp
      BY <1>4, <1>5, <1>8, <2>2, <2>5, <3>1
    <3>2. CASE id \notin handedUp
      <4>1. id = m.id /\ j # i /\ (q = 0 \/ HoldsFirst(relay.slots[i], id))
        BY <1>6, <2>3, <2>5, <3>2
      <4>2. HoldsFirst(relay.slots[j], id)
        BY <1>4, <2>5, <4>1
      <4> QED  BY <1>5, <1>8, <2>2, <4>1, <4>2
    <3> QED  BY <3>1, <3>2
  <2> QED  BY <2>4, <2>5
<1>9. OneFirstSlice'
  BY <1>1, <1>8 DEF OneFirstSlice
<1> QED  BY <1>7, <1>9 DEF UpInv

LEMMA QuietKeepsUp ==
  ASSUME UpInv, ReceiveInv', SameBuffers(relay, relay'), age' = age, handedUp' = handedUp
  PROVE  UpInv'
BY DEF UpInv, UpIsFresh, OneFirstSlice, Fresh, SameBuffers, Ids, Never

LEMMA StepKeepsUp ==
  ASSUME UpInv, [Next]_vars
  PROVE  UpInv'
<1>1. ReceiveInv'
  BY StepKeepsInv DEF UpInv
<1>2. CASE UNCHANGED vars
  <2>1. SameBuffers(relay, relay') /\ age' = age /\ handedUp' = handedUp
    BY <1>2, SameIsSame DEF vars, UpInv, ReceiveInv, EngineOK
  <2> QED  BY <1>1, <2>1, QuietKeepsUp
<1>3. CASE Quiet
  BY <1>1, <1>3, QuietKeepsUp DEF Quiet
<1>4. CASE Ignored /\ SameBuffers(relay, relay')
  BY <1>1, <1>4, QuietKeepsUp DEF Ignored
<1>5. CASE Accepts
  BY <1>1, <1>5, WholeKeepsUp, SliceKeepsUp DEF Accepts
<1> QED  BY <1>2, <1>3, <1>4, <1>5, NextCases DEF UpInv

\* While the window of a message that was handed up is open, the cache knows the key of
\* its first slice and no slot holds that slice; before, at most one slot holds it.
THEOREM UpInvHolds == Spec => []UpInv
<1>1. Init => UpInv
  <2> SUFFICES ASSUME Init PROVE UpInv
    OBVIOUS
  <2>1. ReceiveInv
    BY InitHasInv
  <2>2. handedUp = {}
    BY DEF Init
  <2>3. \A id \in Ids : age[id] = Never /\ ~(age[id] < N)
    BY CacheAssumption DEF CacheAssumption, Init, Never
  <2> QED  BY <2>1, <2>2, <2>3 DEF UpInv, UpIsFresh, OneFirstSlice
<1>2. UpInv /\ [Next]_vars => UpInv'
  BY StepKeepsUp
<1> QED  BY <1>1, <1>2, PTL DEF Spec

\* At most once: while no more than N frames were accepted since the first one of a
\* message, it is not handed up again, whole or in slices, over whatever transports and
\* split under whatever groups.
THEOREM AtMostOnce == Spec => HandedUpOnce
<1> DEFINE Again == HandsUp(ret') /\ ret'.msg.id \in handedUp => age[ret'.msg.id] >= N
<1>1. UpInv /\ [Next]_vars => [Again]_vars
  <2> SUFFICES ASSUME UpInv, Accepts, HandsUp(ret'), ret'.msg.id \in handedUp
               PROVE  age[ret'.msg.id] >= N
    BY NextCases DEF UpInv, Quiet, Ignored, HandsUp
  <2>1. PICK m \in Foreign, t \in Source :
          \/ AcceptsWhole(m, t)
          \/ \E g \in GroupsOf[m][t] : \E q \in 0 .. SliceCount(m, t) - 1 : AcceptsSlice(m, t, g, q)
    BY DEF Accepts
  <2>2. ret'.msg.id = m.id /\ m.id \in Ids
    <3>1. HandedUp(m, t) \/ KeptBack
      BY <2>1 DEF AcceptsWhole, AcceptsSlice
    <3> QED  BY <3>1, DirectHandsUp DEF KeptBack, HandsUp, Ids
  <2>3. ~(age[m.id] < N)
    <3> SUFFICES ASSUME age[m.id] < N PROVE FALSE
      OBVIOUS
    <3>1. Contains(relay.seen, m.id)
      BY <2>2, FirstIsKnown
    <3>2. CASE AcceptsWhole(m, t)
      BY <3>1, <3>2 DEF AcceptsWhole, Accepted
    <3>3. ASSUME NEW g \in GroupsOf[m][t], NEW q \in 0 .. SliceCount(m, t) - 1, AcceptsSlice(m, t, g, q)
          PROVE  FALSE
      <4>1. PICK i \in SlotIndex : SlotTakes(i, m, t, q)
        BY <3>3, SliceTaken DEF UpInv
      <4>2. ~KeptBack
        BY DEF KeptBack, HandsUp
      <4>3. /\ relay.slots[i].in_use => relay.slots[i].template = TemplateOf(m, t)
            /\ Held(relay.slots[i]) \cup {q} = 0 .. SliceCount(m, t) - 1
        BY <4>1, <4>2 DEF SlotTakes
      <4>4. SliceCount(m, t) \in Nat /\ SliceCount(m, t) > 1
        BY <3>3, SliceHeader DEF AcceptsSlice
      <4>5. CASE q = 0
        BY <2>2, <3>1, <3>3, <4>5, FirstKey DEF AcceptsSlice, Accepted
      <4>6. CASE q # 0
        <5>1. 0 \in Held(relay.slots[i])
          BY <4>3, <4>4, <4>6
        <5>2. HoldsFirst(relay.slots[i], m.id)
          BY <4>3, <5>1 DEF Held, HoldsFirst, TemplateOf
        <5> QED  BY <2>2, <5>2 DEF UpInv, OneFirstSlice
      <4> QED  BY <4>5, <4>6
    <3> QED  BY <2>1, <3>2, <3>3
  <2>4. age[m.id] \in Nat /\ N \in Nat
    BY <2>2, CacheAssumption DEF CacheAssumption, UpInv, ReceiveInv, AgesOK, Never
  <2> QED  BY <2>2, <2>3, <2>4
<1> QED  BY <1>1, UpInvHolds, PTL DEF Spec, HandedUpOnce

=============================================================================

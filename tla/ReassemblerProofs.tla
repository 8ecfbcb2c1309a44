-------------------------- MODULE ReassemblerProofs --------------------------
(***************************************************************************)
(* For every number of slots, every fragment bound and every set of        *)
(* streams: the slots stay consistent, what is handed out as complete is   *)
(* an original message, and the slot array implements ReassemblyPool.      *)
(***************************************************************************)
EXTENDS ReassemblerSpec, FiniteSetTheorems, FunctionTheorems, WellFoundedInduction, TLAPS

\* The first index of a non-empty set of indices is one of them.
LEMMA FirstIsIn ==
  ASSUME NEW S, S \subseteq SlotIndex, S # {}
  PROVE  First(S) \in S
<1>1. S \subseteq Nat
  BY ReassemblerAssumption DEF ReassemblerAssumption, SlotIndex
<1>2. \A T \in SUBSET Nat : T # {} =>
        \E i \in T : \A j \in T : ~(<<j, i>> \in {p \in Nat \X Nat : p[1] < p[2]})
  BY NatLessThanWellFounded, WFMin, Zenon DEF OpToRel
<1>3. PICK i \in S : \A j \in S : ~(<<j, i>> \in {p \in Nat \X Nat : p[1] < p[2]})
  BY <1>1, <1>2
<1>4. \A j \in S : ~(j < i)
  BY <1>1, <1>3
<1>5. \A j \in S : i <= j
  BY <1>1, <1>4
<1> QED  BY <1>5 DEF First

\* A slice that a stream's split produced has a header ingest accepts.
LEMMA FrameIsValid ==
  ASSUME NEW st \in Stream, NEW q \in 0 .. Len(st.slices) - 1
  PROVE  /\ Frame(st, q).frag # NoFrag /\ ValidHeader(Frame(st, q).frag)
         /\ q \in Bucket /\ Len(st.slices) \in Nat /\ st.group_id \in Nat
         /\ q \in 0 .. Len(st.slices) - 1
<1>1. Len(st.slices) \in 1 .. PER_SLOT /\ PER_SLOT \in 1 .. 64
  BY StreamAssumption, ReassemblerAssumption DEF StreamAssumption, ReassemblerAssumption
<1> QED  BY <1>1, StreamAssumption DEF StreamAssumption, ValidHeader, Frame, Bucket

\* The slot that takes a slice of st, as find_or_claim leaves it: it collects st,
\* or is about to, and no other slot does.
LEMMA SlotOpened ==
  ASSUME SlotsInv, NEW st \in Stream, NEW q \in 0 .. Len(st.slices) - 1,
         ~(Existing(slots, Frame(st, q).frag) = {} /\ FreeSlots(slots) = {})
  PROVE  LET i == SlotFor(slots, Frame(st, q).frag)
             o == FoundOrClaimed(slots, Frame(st, q))
         IN  /\ i \in SlotIndex
             /\ o \in SlotType /\ o.in_use
             /\ o.group_id = st.group_id /\ o.total = Len(st.slices)
             /\ o.seen_mask \subseteq 0 .. o.total - 1
             /\ o.received = Cardinality(o.seen_mask) /\ o.received < o.total
             /\ \A p \in o.seen_mask : o.fragments[p] = st.slices[p + 1]
             /\ o.template = Template(st)
             /\ \A j \in InUse : slots[j].group_id = st.group_id
                                   /\ slots[j].total = Len(st.slices) => i = j
<1> DEFINE f == Frame(st, q).frag
           i == SlotFor(slots, f)
           o == FoundOrClaimed(slots, Frame(st, q))
<1>1. /\ f.group_id = st.group_id /\ f.total = Len(st.slices)
      /\ Len(st.slices) \in Nat /\ Len(st.slices) > 0 /\ st.group_id \in Nat
  BY FrameIsValid, StreamAssumption, ReassemblerAssumption
     DEF Frame, StreamAssumption, ReassemblerAssumption
<1>2. CASE Existing(slots, f) # {}
  <2>1. i \in Existing(slots, f) /\ o = slots[i]
    BY <1>2, FirstIsIn DEF SlotFor, FoundOrClaimed, Existing
  <2>2. i \in InUse /\ slots[i].group_id = st.group_id /\ slots[i].total = Len(st.slices)
    BY <1>1, <2>1 DEF Existing, Matches, InUse
  <2>3. slots[i] # EmptySlot
    BY <2>2 DEF InUse, EmptySlot
  <2>4. PICK s \in Stream : Collecting(slots[i], s)
    BY <2>2, <2>3 DEF SlotsInv, SlotsConsistent, InUse
  <2>5. s = st
    BY <2>2, <2>4, StreamAssumption DEF Collecting, StreamAssumption
  <2>6. slots[i] \in SlotType
    BY <2>2 DEF SlotsInv, TypeOK, InUse
  <2> QED  BY <2>1, <2>2, <2>4, <2>5, <2>6 DEF Collecting, SlotsInv, SlotsConsistent, InUse
<1>3. CASE Existing(slots, f) = {}
  <2>1. i \in FreeSlots(slots) /\ o = Claimed(slots[i], Frame(st, q))
    BY <1>3, FirstIsIn DEF SlotFor, FoundOrClaimed, FreeSlots
  <2>2. i \in SlotIndex /\ slots[i] \in SlotType
    BY <2>1 DEF FreeSlots, SlotsInv, TypeOK
  <2>3. [Frame(st, q) EXCEPT !.payload = <<>>, !.frag = NoFrag] = Template(st)
    <3>1. [Frame(st, q) EXCEPT !.payload = <<>>] = [head |-> st.head, payload |-> <<>>, frag |-> f]
      BY DEF Frame
    <3>2. [[head |-> st.head, payload |-> <<>>, frag |-> f] EXCEPT !.frag = NoFrag] = Template(st)
      BY DEF Template
    <3> QED  BY <3>1, <3>2
  <2>4. o = [in_use |-> TRUE, group_id |-> st.group_id, total |-> Len(st.slices),
             received |-> 0, seen_mask |-> {}, fragments |-> slots[i].fragments,
             template |-> Template(st)]
    BY <1>1, <2>1, <2>3 DEF Claimed
  <2>5. /\ o \in SlotType /\ o.in_use /\ o.group_id = st.group_id /\ o.total = Len(st.slices)
        /\ o.seen_mask = {} /\ o.received = 0 /\ o.template = Template(st)
    BY <1>1, <2>2, <2>4 DEF SlotType
  <2>6. Cardinality({}) = 0
    BY FS_EmptySet
  <2>7. \A j \in InUse : ~(slots[j].group_id = st.group_id /\ slots[j].total = Len(st.slices))
    BY <1>1, <1>3 DEF Existing, Matches, InUse
  <2> QED  BY <1>1, <2>2, <2>5, <2>6, <2>7
<1> QED  BY <1>2, <1>3

LEMMA SliceSetSize ==
  ASSUME NEW n \in Nat
  PROVE  IsFiniteSet(0 .. n - 1) /\ Cardinality(0 .. n - 1) = n
<1>1. n - 1 \in Int /\ 0 \in Int
  OBVIOUS
<1> QED  BY <1>1, FS_Interval

\* A slot that collects st, or is about to, once it stored a slice it did not have.
LEMMA SliceStored ==
  ASSUME NEW st \in Stream, NEW q \in 0 .. Len(st.slices) - 1,
         NEW o \in SlotType, o.in_use,
         o.group_id = st.group_id, o.total = Len(st.slices),
         o.seen_mask \subseteq 0 .. o.total - 1,
         o.received = Cardinality(o.seen_mask), o.received < o.total,
         \A p \in o.seen_mask : o.fragments[p] = st.slices[p + 1],
         o.template = Template(st),
         ~AlreadyHas(o, Frame(st, q).frag)
  PROVE  LET s == Stored(o, Frame(st, q))
         IN  /\ s \in SlotType /\ s.in_use /\ s # EmptySlot
             /\ s.group_id = st.group_id /\ s.total = Len(st.slices)
             /\ s.seen_mask = o.seen_mask \cup {q}
             /\ s.seen_mask \subseteq 0 .. s.total - 1
             /\ s.received = Cardinality(s.seen_mask) /\ 0 < s.received
             /\ \A p \in s.seen_mask : s.fragments[p] = st.slices[p + 1]
             /\ s.template = Template(st)
<1> DEFINE s == Stored(o, Frame(st, q))
<1>1. /\ q \in Bucket /\ Len(st.slices) \in Nat /\ q \notin o.seen_mask
      /\ st.slices \in Seq(Seq(Nat)) /\ q + 1 \in 1 .. Len(st.slices)
  BY FrameIsValid, StreamAssumption DEF AlreadyHas, Frame, StreamAssumption
<1>2. /\ o.fragments \in [Bucket -> Seq(Nat)] /\ o.seen_mask \in SUBSET Bucket
      /\ o.received \in Nat /\ st.slices[q + 1] \in Seq(Nat)
  BY <1>1 DEF SlotType
<1>3. s = [in_use |-> o.in_use, group_id |-> o.group_id, total |-> o.total,
           received |-> o.received + 1, seen_mask |-> o.seen_mask \cup {q},
           fragments |-> [o.fragments EXCEPT ![q] = st.slices[q + 1]],
           template |-> o.template]
  BY DEF Stored, Frame
<1>4. s \in SlotType
  BY <1>1, <1>2, <1>3 DEF SlotType
<1>5. IsFiniteSet(o.seen_mask)
  <2>1. IsFiniteSet(0 .. o.total - 1)
    BY <1>1, SliceSetSize
  <2> QED  BY <2>1, FS_Subset
<1>6. Cardinality(o.seen_mask \cup {q}) = o.received + 1
  <2>1. Cardinality(o.seen_mask \cup {q}) = Cardinality(o.seen_mask) + 1
    BY <1>1, <1>5, FS_AddElement
  <2> QED  BY <2>1
<1>7. \A p \in s.seen_mask : s.fragments[p] = st.slices[p + 1]
  BY <1>1, <1>2, <1>3
<1>8. s # EmptySlot
  BY <1>3 DEF EmptySlot
<1> QED  BY <1>1, <1>2, <1>3, <1>4, <1>6, <1>7, <1>8

\* The first slice of a group opens a slot; a slot that lacks no slice is complete.
LEMMA FullSlotHoldsAll ==
  ASSUME NEW st \in Stream, NEW s \in SlotType, s.total = Len(st.slices),
         s.seen_mask \subseteq 0 .. s.total - 1, s.received = Cardinality(s.seen_mask),
         \A p \in s.seen_mask : s.fragments[p] = st.slices[p + 1],
         ~(s.received < s.total)
  PROVE  Assembled(s) = Concat(st.slices)
<1>1. s.total \in Nat /\ st.slices \in Seq(Seq(Nat))
  BY StreamAssumption DEF StreamAssumption, SlotType
<1>2. IsFiniteSet(0 .. s.total - 1) /\ Cardinality(0 .. s.total - 1) = s.total
  BY <1>1, SliceSetSize
<1>3. s.seen_mask = 0 .. s.total - 1
  BY <1>1, <1>2, FS_Subset, FS_CardinalityType
<1>4. \A k \in 1 .. s.total : k - 1 \in s.seen_mask /\ (k - 1) + 1 = k
  BY <1>1, <1>3
<1>5. [k \in 1 .. s.total |-> s.fragments[k - 1]] = [k \in 1 .. Len(st.slices) |-> st.slices[k]]
  BY <1>4
<1>6. [k \in 1 .. Len(st.slices) |-> st.slices[k]] = st.slices
  BY <1>1
<1> QED  BY <1>5, <1>6 DEF Assembled

\* Putting a well-formed slot back at i keeps the array consistent.
LEMMA PutBack ==
  ASSUME SlotsInv, NEW i \in SlotIndex, NEW s \in SlotType, NEW st \in Stream,
         slots' = [slots EXCEPT ![i] = s],
         \/ s = EmptySlot
         \/ /\ s.in_use /\ Collecting(s, st)
            /\ \A j \in InUse : slots[j].group_id = st.group_id
                                  /\ slots[j].total = Len(st.slices) => i = j
  PROVE  SlotsInv'
<1>1. slots \in [SlotIndex -> SlotType]
  BY DEF SlotsInv, TypeOK
<1>2. TypeOK'
  BY <1>1 DEF TypeOK
<1>3. \A j \in SlotIndex : slots'[j] = IF j = i THEN s ELSE slots[j]
  BY <1>1
<1>4. \A j \in SlotIndex : slots'[j] # EmptySlot =>
         slots'[j].in_use /\ \E t \in Stream : Collecting(slots'[j], t)
  BY <1>3 DEF SlotsInv, SlotsConsistent
<1>5. ~EmptySlot.in_use
  BY DEF EmptySlot
<1>6. \A j \in InUse' : j \in SlotIndex /\ (j # i => j \in InUse) /\ (j = i => s # EmptySlot)
  BY <1>3, <1>5 DEF InUse
<1>7. ASSUME NEW j \in InUse', NEW k \in InUse',
             slots'[j].group_id = slots'[k].group_id, slots'[j].total = slots'[k].total
      PROVE  j = k
  <2>1. CASE j # i /\ k # i
    BY <1>3, <1>6, <1>7, <2>1 DEF SlotsInv, SlotsConsistent
  <2>2. CASE j = i \/ k = i
    <3>1. s.group_id = st.group_id /\ s.total = Len(st.slices)
      BY <1>6, <2>2 DEF Collecting
    <3> QED  BY <1>3, <1>6, <1>7, <2>2, <3>1
  <2> QED  BY <2>1, <2>2
<1> QED  BY <1>2, <1>4, <1>7 DEF SlotsInv, SlotsConsistent

LEMMA EmptySlotType == EmptySlot \in SlotType
<1>1. <<>> \in Seq(Nat) /\ {} \in SUBSET Bucket /\ 0 \in Nat
  OBVIOUS
<1> QED  BY <1>1 DEF EmptySlot, SlotType

LEMMA SameSlots ==
  ASSUME SlotsInv, slots' = slots
  PROVE  SlotsInv'
BY DEF SlotsInv, SlotsConsistent, TypeOK, InUse

\* The outcome is not a complete message, so nothing is claimed about it.
LEMMA NotComplete ==
  ASSUME out'.tag # "Complete"
  PROVE  CompleteIsOriginal'
BY DEF CompleteIsOriginal

\* A slice of st keeps the array consistent, and completes st's message or none.
LEMMA SliceStep ==
  ASSUME SlotsInv, NEW st \in Stream, NEW q \in 0 .. Len(st.slices) - 1, SliceArrives(st, q)
  PROVE  SlotsInv' /\ CompleteIsOriginal'
<1> DEFINE m == Frame(st, q)
           f == m.frag
           i == SlotFor(slots, f)
           o == FoundOrClaimed(slots, m)
           s == Stored(o, m)
<1>1. f # NoFrag /\ ValidHeader(f)
  BY FrameIsValid
<1>2. slots' = Ingest(slots, m).slots /\ out' = Ingest(slots, m).out
  BY DEF SliceArrives, IngestCall
<1>3. CASE Existing(slots, f) = {} /\ FreeSlots(slots) = {}
  <2>1. slots' = slots /\ out' = Dropped("NoSlot")
    BY <1>1, <1>2, <1>3 DEF Ingest
  <2> QED  BY <2>1, SameSlots, NotComplete DEF Dropped
<1>4. CASE ~(Existing(slots, f) = {} /\ FreeSlots(slots) = {})
  <2>1. /\ i \in SlotIndex /\ o \in SlotType /\ o.in_use
        /\ o.group_id = st.group_id /\ o.total = Len(st.slices)
        /\ o.seen_mask \subseteq 0 .. o.total - 1
        /\ o.received = Cardinality(o.seen_mask) /\ o.received < o.total
        /\ \A p \in o.seen_mask : o.fragments[p] = st.slices[p + 1]
        /\ o.template = Template(st)
        /\ \A j \in InUse : slots[j].group_id = st.group_id
                              /\ slots[j].total = Len(st.slices) => i = j
    BY <1>4, SlotOpened
  <2>2. CASE AlreadyHas(o, f)
    <3>1. slots' = slots /\ out' = Dropped("DuplicateSlice")
      BY <1>1, <1>2, <1>4, <2>2 DEF Ingest
    <3> QED  BY <3>1, SameSlots, NotComplete DEF Dropped
  <2>3. CASE ~AlreadyHas(o, f)
    <3>1. /\ s \in SlotType /\ s.in_use /\ s # EmptySlot
          /\ s.group_id = st.group_id /\ s.total = Len(st.slices)
          /\ s.seen_mask \subseteq 0 .. s.total - 1
          /\ s.received = Cardinality(s.seen_mask) /\ 0 < s.received
          /\ \A p \in s.seen_mask : s.fragments[p] = st.slices[p + 1]
          /\ s.template = Template(st)
      BY <2>1, <2>3, SliceStored
    <3>2. CASE s.received < s.total
      <4>1. slots' = [slots EXCEPT ![i] = s] /\ out' = Buffered
        BY <1>1, <1>2, <1>4, <2>3, <3>2 DEF Ingest
      <4>2. Collecting(s, st)
        BY <3>1, <3>2 DEF Collecting
      <4>3. SlotsInv'
        BY <2>1, <3>1, <4>1, <4>2, PutBack
      <4> QED  BY <4>1, <4>3, NotComplete DEF Buffered
    <3>3. CASE ~(s.received < s.total) /\ Len(Assembled(s)) > MAX_PAYLOAD
      <4>1. slots' = [slots EXCEPT ![i] = EmptySlot] /\ out' = Dropped("PayloadTooLarge")
        BY <1>1, <1>2, <1>4, <2>3, <3>3 DEF Ingest
      <4>2. SlotsInv'
        BY <2>1, <4>1, EmptySlotType, PutBack
      <4> QED  BY <4>1, <4>2, NotComplete DEF Dropped
    <3>4. CASE ~(s.received < s.total) /\ ~(Len(Assembled(s)) > MAX_PAYLOAD)
      <4>1. /\ slots' = [slots EXCEPT ![i] = EmptySlot]
            /\ out' = Complete([s.template EXCEPT !.payload = Assembled(s)])
        BY <1>1, <1>2, <1>4, <2>3, <3>4 DEF Ingest
      <4>2. SlotsInv'
        BY <2>1, <4>1, EmptySlotType, PutBack
      <4>3. Assembled(s) = Concat(st.slices)
        BY <3>1, <3>4, FullSlotHoldsAll
      <4>4. [Template(st) EXCEPT !.payload = Concat(st.slices)] = Original(st)
        BY DEF Template, Original
      <4>5. out'.msg = Original(st)
        BY <3>1, <4>1, <4>3, <4>4 DEF Complete
      <4> QED  BY <4>2, <4>5 DEF CompleteIsOriginal
    <3> QED  BY <3>2, <3>3, <3>4
  <2> QED  BY <2>2, <2>3
<1> QED  BY <1>3, <1>4

\* Every step keeps the array consistent and hands out originals only.
LEMMA EveryStep ==
  ASSUME SlotsInv, Next
  PROVE  SlotsInv' /\ CompleteIsOriginal'
<1>1. ASSUME NEW st \in Stream, NEW q \in 0 .. Len(st.slices) - 1, SliceArrives(st, q)
      PROVE  SlotsInv' /\ CompleteIsOriginal'
  BY <1>1, SliceStep
<1>2. ASSUME NEW st \in Stream, NEW h \in BadHeader, BadHeaderArrives(st, h)
      PROVE  SlotsInv' /\ CompleteIsOriginal'
  <2> DEFINE m == [Frame(st, 0) EXCEPT !.frag = h]
  <2>1. m.frag = h /\ h # NoFrag /\ ~ValidHeader(h)
    BY StreamAssumption DEF StreamAssumption, Frame
  <2>2. slots' = Ingest(slots, m).slots /\ out' = Ingest(slots, m).out
    BY <1>2 DEF BadHeaderArrives, IngestCall
  <2> HIDE DEF m
  <2>3. slots' = slots /\ out' = Dropped("BadHeader")
    BY <2>1, <2>2 DEF Ingest
  <2> QED  BY <2>3, SameSlots, NotComplete DEF Dropped
<1>3. ASSUME NEW m \in Whole, WholeArrives(m)
      PROVE  SlotsInv' /\ CompleteIsOriginal'
  <2>1. m.frag = NoFrag
    BY StreamAssumption DEF StreamAssumption
  <2>2. slots' = slots /\ out' = Passthrough(m)
    BY <1>3, <2>1 DEF WholeArrives, IngestCall, Ingest
  <2> QED  BY <2>2, SameSlots, NotComplete DEF Passthrough
<1>4. ASSUME NEW st \in Stream, EvictCall(st.group_id)
      PROVE  SlotsInv' /\ CompleteIsOriginal'
  <2> DEFINE E == Evictable(slots, st.group_id)
  <2>1. out'.tag # "Complete"
    BY <1>4 DEF EvictCall
  <2>2. CASE E = {}
    BY <1>4, <2>1, <2>2, SameSlots, NotComplete DEF EvictCall, Evict
  <2>3. CASE E # {}
    <3>1. First(E) \in SlotIndex
      BY <2>3, FirstIsIn DEF Evictable
    <3>2. slots' = [slots EXCEPT ![First(E)] = EmptySlot]
      BY <1>4, <2>3 DEF EvictCall, Evict
    <3> QED  BY <2>1, <3>1, <3>2, EmptySlotType, PutBack, NotComplete
  <2> QED  BY <2>2, <2>3
<1> QED  BY <1>1, <1>2, <1>3, <1>4 DEF Next

LEMMA InitiallyConsistent == Init => SlotsInv /\ CompleteIsOriginal
<1> SUFFICES ASSUME Init PROVE SlotsInv /\ CompleteIsOriginal
  OBVIOUS
<1>1. \A i \in SlotIndex : slots[i] = EmptySlot
  BY DEF Init, EmptySlots
<1>2. TypeOK
  BY EmptySlotType DEF TypeOK, Init, EmptySlots
<1>3. InUse = {}
  BY <1>1 DEF InUse, EmptySlot
<1>4. SlotsConsistent
  BY <1>1, <1>3 DEF SlotsConsistent
<1> QED  BY <1>2, <1>4 DEF SlotsInv, Init, CompleteIsOriginal

\* The slot array is consistent in every reachable state: no group is split over two
\* slots and no slot mixes slices of two groups, for any number of slots and streams.
THEOREM SlotsStayConsistent == Spec => []SlotsInv
<1>1. SlotsInv /\ [Next]_vars => SlotsInv'
  BY EveryStep, SameSlots DEF vars
<1> QED  BY InitiallyConsistent, <1>1, PTL DEF Spec

\* What ingest returns as complete is an original message, for every order in which
\* slices arrive, are repeated, are lost or have their group evicted.
THEOREM ReassemblyIsFaithful == Spec => []CompleteIsOriginal
<1>1. SlotsInv /\ CompleteIsOriginal /\ [Next]_vars => CompleteIsOriginal'
  BY EveryStep DEF vars, CompleteIsOriginal
<1> QED  BY InitiallyConsistent, SlotsStayConsistent, <1>1, PTL DEF Spec

-----------------------------------------------------------------------------
(* The array read as a pool, for any array value: Pending is PoolOf(slots).  *)
KeyAt(sl, i) == <<sl[i].group_id, sl[i].total>>
Busy(sl) == {i \in SlotIndex : sl[i].in_use}
Distinct(sl) == \A i, j \in Busy(sl) : KeyAt(sl, i) = KeyAt(sl, j) => i = j
Keys(sl) == {KeyAt(sl, i) : i \in Busy(sl)}
PoolOf(sl) == [k \in Keys(sl) |-> sl[CHOOSE i \in Busy(sl) : KeyAt(sl, i) = k].seen_mask]

LEMMA PendingIsPool == Pending = PoolOf(slots)
BY DEF Pending, SlotOf, InUse, PoolOf, Keys, KeyAt, Busy

\* Every busy slot is found under its key.
LEMMA PoolAt ==
  ASSUME NEW sl, Distinct(sl), NEW i \in Busy(sl)
  PROVE  KeyAt(sl, i) \in Keys(sl) /\ PoolOf(sl)[KeyAt(sl, i)] = sl[i].seen_mask
<1>1. KeyAt(sl, i) \in Keys(sl)
  BY DEF Keys
<1>2. \A j \in Busy(sl) : KeyAt(sl, j) = KeyAt(sl, i) => j = i
  BY DEF Distinct
<1>3. (CHOOSE j \in Busy(sl) : KeyAt(sl, j) = KeyAt(sl, i)) = i
  BY <1>2
<1> QED  BY <1>1, <1>3 DEF PoolOf

\* No two slots collect one group.
LEMMA SlotsAreDistinct ==
  ASSUME SlotsInv
  PROVE  Distinct(slots)
BY DEF SlotsInv, SlotsConsistent, InUse, Distinct, Busy, KeyAt

\* The pool has room exactly when the array has a free slot.
LEMMA RoomIsFreeSlot ==
  ASSUME NEW sl, Distinct(sl)
  PROVE  Cardinality(Keys(sl)) < SLOTS <=> FreeSlots(sl) # {}
<1>1. SLOTS \in Nat /\ 1 \in Int
  BY ReassemblerAssumption DEF ReassemblerAssumption
<1>2. IsFiniteSet(SlotIndex) /\ Cardinality(SlotIndex) = SLOTS
  BY <1>1, FS_Interval DEF SlotIndex
<1>3. Busy(sl) \in SUBSET SlotIndex
  BY DEF Busy
<1>4. /\ IsFiniteSet(Busy(sl)) /\ Cardinality(Busy(sl)) \in Nat /\ Cardinality(Busy(sl)) <= SLOTS
      /\ Cardinality(Busy(sl)) = SLOTS => Busy(sl) = SlotIndex
  BY <1>2, <1>3, FS_Subset, FS_CardinalityType
<1>5. Cardinality(Keys(sl)) = Cardinality(Busy(sl))
  <2> DEFINE f == [i \in Busy(sl) |-> KeyAt(sl, i)]
  <2>1. f \in [Busy(sl) -> Keys(sl)]
    BY DEF Keys
  <2>2. \A a, b \in Busy(sl) : f[a] = f[b] => a = b
    BY DEF Distinct
  <2>3. \A k \in Keys(sl) : \E i \in Busy(sl) : f[i] = k
    BY DEF Keys
  <2>4. f \in Bijection(Busy(sl), Keys(sl))
    BY <2>1, <2>2, <2>3, Fun_IsBij
  <2>5. ExistsBijection(Busy(sl), Keys(sl))
    BY <2>4 DEF ExistsBijection
  <2> QED  BY <1>4, <2>5, FS_Bijection
<1>6. FreeSlots(sl) = SlotIndex \ Busy(sl)
  BY DEF FreeSlots, Busy
<1>7. Busy(sl) = SlotIndex => Cardinality(Busy(sl)) = SLOTS
  BY <1>2
<1> QED  BY <1>1, <1>3, <1>4, <1>5, <1>6, <1>7

\* What the array holds of a stream is what the pool has got of it.
LEMMA ExistingIsOpen ==
  ASSUME SlotsInv, NEW st \in Stream, NEW q \in 0 .. Len(st.slices) - 1
  PROVE  LET f == Frame(st, q).frag
         IN  /\ Existing(slots, f) = {i \in Busy(slots) : KeyAt(slots, i) = <<st.group_id, Len(st.slices)>>}
             /\ Existing(slots, f) # {} <=> <<st.group_id, Len(st.slices)>> \in Keys(slots)
BY DEF Existing, Matches, Busy, KeyAt, Keys, Frame

Put(pool, k, mask) == [j \in DOMAIN pool \cup {k} |-> IF j = k THEN mask ELSE pool[j]]

\* A slot put in use for key k, whether it was free or collected that very group.
LEMMA PutInPool ==
  ASSUME NEW sl \in [SlotIndex -> SlotType], Distinct(sl), NEW i \in SlotIndex,
         NEW s \in SlotType, s.in_use, NEW k, k = <<s.group_id, s.total>>,
         i \in Busy(sl) => KeyAt(sl, i) = k,
         \A j \in Busy(sl) : KeyAt(sl, j) = k => j = i
  PROVE  PoolOf([sl EXCEPT ![i] = s]) = Put(PoolOf(sl), k, s.seen_mask)
<1> DEFINE sl2 == [sl EXCEPT ![i] = s]
<1>1. \A j \in SlotIndex : sl2[j] = IF j = i THEN s ELSE sl[j]
  OBVIOUS
<1> HIDE DEF sl2
<1>2. Busy(sl2) = Busy(sl) \cup {i}
  BY <1>1 DEF Busy
<1>3. KeyAt(sl2, i) = k /\ \A j \in Busy(sl) : j # i => KeyAt(sl2, j) = KeyAt(sl, j)
  BY <1>1 DEF KeyAt, Busy
<1>4. Distinct(sl2)
  BY <1>2, <1>3 DEF Distinct
<1>5. Keys(sl2) = Keys(sl) \cup {k}
  BY <1>2, <1>3 DEF Keys
<1>6. \A j \in Keys(sl2) : PoolOf(sl2)[j] = IF j = k THEN s.seen_mask ELSE PoolOf(sl)[j]
  <2> SUFFICES ASSUME NEW j \in Keys(sl2)
               PROVE  PoolOf(sl2)[j] = IF j = k THEN s.seen_mask ELSE PoolOf(sl)[j]
    OBVIOUS
  <2>1. PICK n \in Busy(sl2) : j = KeyAt(sl2, n)
    BY DEF Keys
  <2>2. PoolOf(sl2)[j] = sl2[n].seen_mask
    BY <1>4, <2>1, PoolAt
  <2>3. CASE n = i
    BY <1>1, <1>3, <2>1, <2>2, <2>3
  <2>4. CASE n # i
    <3>1. n \in Busy(sl) /\ j = KeyAt(sl, n) /\ j # k /\ sl2[n] = sl[n]
      BY <1>1, <1>2, <1>3, <2>1, <2>4 DEF Busy
    <3>2. PoolOf(sl)[j] = sl[n].seen_mask
      BY <3>1, PoolAt
    <3> QED  BY <2>2, <3>1, <3>2
  <2> QED  BY <2>3, <2>4
<1>7. PoolOf(sl2) = [j \in Keys(sl2) |-> PoolOf(sl2)[j]]
  BY DEF PoolOf
<1>8. DOMAIN PoolOf(sl) = Keys(sl)
  BY DEF PoolOf
<1> QED  BY <1>5, <1>6, <1>7, <1>8 DEF sl2, Put

\* A slot reset, whether it collected the group of key k or was free and k unknown.
LEMMA DropFromPool ==
  ASSUME NEW sl \in [SlotIndex -> SlotType], Distinct(sl), NEW i \in SlotIndex, NEW k,
         i \in Busy(sl) => KeyAt(sl, i) = k,
         \A j \in Busy(sl) : KeyAt(sl, j) = k => j = i
  PROVE  LET sl2 == [sl EXCEPT ![i] = EmptySlot]
         IN  PoolOf(sl2) = [j \in Keys(sl) \ {k} |-> PoolOf(sl)[j]]
<1> DEFINE sl2 == [sl EXCEPT ![i] = EmptySlot]
<1>1. \A j \in SlotIndex : sl2[j] = IF j = i THEN EmptySlot ELSE sl[j]
  OBVIOUS
<1>2. ~EmptySlot.in_use
  BY DEF EmptySlot
<1> HIDE DEF sl2
<1>3. Busy(sl2) = Busy(sl) \ {i}
  BY <1>1, <1>2 DEF Busy
<1>4. \A j \in Busy(sl2) : sl2[j] = sl[j] /\ KeyAt(sl2, j) = KeyAt(sl, j)
  BY <1>1, <1>3 DEF KeyAt, Busy
<1>5. Distinct(sl2)
  BY <1>3, <1>4 DEF Distinct
<1>6. Keys(sl2) = Keys(sl) \ {k}
  BY <1>3, <1>4 DEF Keys, Distinct
<1>7. \A j \in Keys(sl2) : PoolOf(sl2)[j] = PoolOf(sl)[j]
  <2> SUFFICES ASSUME NEW j \in Keys(sl2) PROVE PoolOf(sl2)[j] = PoolOf(sl)[j]
    OBVIOUS
  <2>1. PICK n \in Busy(sl2) : j = KeyAt(sl2, n)
    BY DEF Keys
  <2>2. PoolOf(sl2)[j] = sl2[n].seen_mask
    BY <1>5, <2>1, PoolAt
  <2>3. n \in Busy(sl) /\ j = KeyAt(sl, n) /\ sl2[n] = sl[n]
    BY <1>3, <1>4, <2>1
  <2>4. PoolOf(sl)[j] = sl[n].seen_mask
    BY <2>3, PoolAt
  <2> QED  BY <2>2, <2>3, <2>4
<1>8. PoolOf(sl2) = [j \in Keys(sl2) |-> PoolOf(sl2)[j]]
  BY DEF PoolOf
<1> QED  BY <1>6, <1>7, <1>8 DEF sl2

-----------------------------------------------------------------------------
(* Every step of the array is a step of the pool.                            *)

KeyOf(st) == <<st.group_id, Len(st.slices)>>
SentAs(st) == [group_id |-> st.group_id, total |-> Len(st.slices), head |-> st.head,
               payload |-> Concat(st.slices)]

\* The pool counts its groups with the same Cardinality.
LEMMA SameCardinality == \A S : Abstract!Cardinality(S) = Cardinality(S)
BY Zenon DEF Abstract!Cardinality, Cardinality

\* What the pool sees of a stream.
LEMMA PoolSees ==
  ASSUME NEW st \in Stream
  PROVE  /\ SentAs(st) \in Sent /\ Abstract!KeyOf(SentAs(st)) = KeyOf(st)
         /\ Abstract!Open(SentAs(st)) <=> KeyOf(st) \in Keys(slots)
         /\ Abstract!Got(SentAs(st)) = IF KeyOf(st) \in Keys(slots) THEN PoolOf(slots)[KeyOf(st)] ELSE {}
<1>1. DOMAIN PoolOf(slots) = Keys(slots)
  BY DEF PoolOf
<1>2. SentAs(st) \in Sent
  BY DEF Sent, SentAs
<1>3. Abstract!KeyOf(SentAs(st)) = KeyOf(st)
  BY DEF Abstract!KeyOf, SentAs, KeyOf
<1> QED  BY <1>1, <1>2, <1>3, PendingIsPool DEF Abstract!Open, Abstract!Got

\* The slot a slice of st goes to is the group's own or a free one, and what it holds
\* is what the pool has got of the group.
LEMMA PlaceOfSlice ==
  ASSUME SlotsInv, NEW st \in Stream, NEW q \in 0 .. Len(st.slices) - 1,
         ~(Existing(slots, Frame(st, q).frag) = {} /\ FreeSlots(slots) = {})
  PROVE  LET i == SlotFor(slots, Frame(st, q).frag)
             o == FoundOrClaimed(slots, Frame(st, q))
         IN  /\ i \in Busy(slots) => KeyAt(slots, i) = KeyOf(st)
             /\ \A j \in Busy(slots) : KeyAt(slots, j) = KeyOf(st) => j = i
             /\ Abstract!Got(SentAs(st)) = o.seen_mask
             /\ Abstract!Room(SentAs(st))
<1> DEFINE f == Frame(st, q).frag
           i == SlotFor(slots, f)
           o == FoundOrClaimed(slots, Frame(st, q))
<1>1. Distinct(slots)
  BY SlotsAreDistinct
<1>2. /\ Existing(slots, f) = {j \in Busy(slots) : KeyAt(slots, j) = KeyOf(st)}
      /\ Existing(slots, f) # {} <=> KeyOf(st) \in Keys(slots)
  BY ExistingIsOpen DEF KeyOf
<1>3. Cardinality(Keys(slots)) < SLOTS <=> FreeSlots(slots) # {}
  BY <1>1, RoomIsFreeSlot
<1>4. DOMAIN Pending = Keys(slots)
  BY PendingIsPool DEF PoolOf
<1>5. Abstract!Room(SentAs(st))
  BY <1>2, <1>3, <1>4, PoolSees, SameCardinality DEF Abstract!Room
<1>6. CASE Existing(slots, f) # {}
  <2>1. i \in Existing(slots, f) /\ o = slots[i]
    BY <1>6, FirstIsIn DEF SlotFor, FoundOrClaimed, Existing
  <2>2. i \in Busy(slots) /\ KeyAt(slots, i) = KeyOf(st)
    BY <1>2, <2>1
  <2>3. PoolOf(slots)[KeyOf(st)] = slots[i].seen_mask
    BY <1>1, <2>2, PoolAt
  <2> QED  BY <1>1, <1>2, <1>5, <1>6, <2>1, <2>2, <2>3, PoolSees DEF Distinct
<1>7. CASE Existing(slots, f) = {}
  <2>1. i \in FreeSlots(slots) /\ o = Claimed(slots[i], Frame(st, q))
    BY <1>7, FirstIsIn DEF SlotFor, FoundOrClaimed, FreeSlots
  <2>2. i \notin Busy(slots) /\ o.seen_mask = {}
    BY <2>1 DEF FreeSlots, Busy, Claimed
  <2>3. \A j \in Busy(slots) : KeyAt(slots, j) # KeyOf(st)
    BY <1>2, <1>7
  <2> QED  BY <1>2, <1>5, <1>7, <2>2, <2>3, PoolSees
<1> QED  BY <1>6, <1>7

\* A set of slices misses one exactly when it counts fewer than all.
LEMMA MissesOne ==
  ASSUME NEW n \in Nat, NEW M, M \subseteq 0 .. n - 1
  PROVE  Cardinality(M) < n <=> M # 0 .. n - 1
<1>1. IsFiniteSet(0 .. n - 1) /\ Cardinality(0 .. n - 1) = n
  BY SliceSetSize
<1>2. /\ Cardinality(M) <= n /\ Cardinality(M) \in Nat
      /\ n = Cardinality(M) => M = 0 .. n - 1
  BY <1>1, FS_Subset, FS_CardinalityType
<1> QED  BY <1>1, <1>2

\* A slice of st does to the array what the pool does with a slice of st's message.
LEMMA SliceIsPoolStep ==
  ASSUME SlotsInv, NEW st \in Stream, NEW q \in 0 .. Len(st.slices) - 1, SliceArrives(st, q)
  PROVE  Abstract!SliceArrives(SentAs(st), q)
<1> DEFINE m == Frame(st, q)
           f == m.frag
           i == SlotFor(slots, f)
           o == FoundOrClaimed(slots, m)
           s == Stored(o, m)
           a == SentAs(st)
<1>1. f # NoFrag /\ ValidHeader(f) /\ Len(st.slices) \in Nat
  BY FrameIsValid
<1>2. slots' = Ingest(slots, m).slots /\ out' = Ingest(slots, m).out
  BY DEF SliceArrives, IngestCall
<1>3. call' = <<"slice", Abstract!KeyOf(a), q>>
  BY PoolSees DEF SliceArrives, KeyOf
<1>4. Pending = PoolOf(slots) /\ Pending' = PoolOf(slots') /\ DOMAIN Pending = Keys(slots)
  BY DEF Pending, SlotOf, InUse, PoolOf, Keys, KeyAt, Busy
<1>5. Distinct(slots) /\ slots \in [SlotIndex -> SlotType]
  BY SlotsAreDistinct DEF SlotsInv, TypeOK
<1>6. out'.tag # "Complete" => Outcome' = out'
  BY DEF Outcome
<1>7. a.total = Len(st.slices) /\ a.head = st.head /\ a.payload = Concat(st.slices)
      /\ Abstract!KeyOf(a) = KeyOf(st)
  BY PoolSees DEF SentAs
<1>8. CASE Existing(slots, f) = {} /\ FreeSlots(slots) = {}
  <2>1. slots' = slots /\ out' = Dropped("NoSlot")
    BY <1>1, <1>2, <1>8 DEF Ingest
  <2>2. ~Abstract!Room(a)
    <3>1. KeyOf(st) \notin Keys(slots)
      BY <1>8, ExistingIsOpen DEF KeyOf
    <3>2. ~(Cardinality(Keys(slots)) < SLOTS)
      BY <1>5, <1>8, RoomIsFreeSlot
    <3> QED  BY <1>4, <3>1, <3>2, PoolSees, SameCardinality DEF Abstract!Room
  <2>3. Abstract!Refuse(a)
    BY <1>4, <1>6, <2>1, <2>2 DEF Abstract!Refuse, Dropped
  <2> QED  BY <1>3, <2>3 DEF Abstract!SliceArrives
<1>9. CASE ~(Existing(slots, f) = {} /\ FreeSlots(slots) = {})
  <2>1. /\ i \in SlotIndex /\ o \in SlotType /\ o.in_use
        /\ o.group_id = st.group_id /\ o.total = Len(st.slices)
        /\ o.seen_mask \subseteq 0 .. o.total - 1
        /\ o.received = Cardinality(o.seen_mask) /\ o.received < o.total
        /\ \A p \in o.seen_mask : o.fragments[p] = st.slices[p + 1]
        /\ o.template = Template(st)
    BY <1>9, SlotOpened
  <2>2. /\ i \in Busy(slots) => KeyAt(slots, i) = KeyOf(st)
        /\ \A j \in Busy(slots) : KeyAt(slots, j) = KeyOf(st) => j = i
        /\ Abstract!Got(a) = o.seen_mask /\ Abstract!Room(a)
    BY <1>9, PlaceOfSlice
  <2>3. f.seq = q
    BY DEF Frame
  <2>4. CASE AlreadyHas(o, f)
    <3>1. slots' = slots /\ out' = Dropped("DuplicateSlice")
      BY <1>1, <1>2, <1>9, <2>4 DEF Ingest
    <3>2. q \in Abstract!Got(a)
      BY <2>2, <2>3, <2>4 DEF AlreadyHas
    <3>3. Abstract!Repeat(a, q)
      BY <1>4, <1>6, <3>1, <3>2 DEF Abstract!Repeat, Dropped
    <3> QED  BY <1>3, <3>3 DEF Abstract!SliceArrives
  <2>5. CASE ~AlreadyHas(o, f)
    <3>1. /\ s \in SlotType /\ s.in_use
          /\ s.group_id = st.group_id /\ s.total = Len(st.slices)
          /\ s.seen_mask = o.seen_mask \cup {q} /\ s.seen_mask \subseteq 0 .. s.total - 1
          /\ s.received = Cardinality(s.seen_mask)
          /\ \A p \in s.seen_mask : s.fragments[p] = st.slices[p + 1]
          /\ s.template = Template(st)
      BY <2>1, <2>5, SliceStored
    <3>2. q \notin Abstract!Got(a) /\ Abstract!Got(a) \cup {q} = s.seen_mask
      BY <2>2, <2>3, <2>5, <3>1 DEF AlreadyHas
    <3>3. s.received < s.total <=> s.seen_mask # 0 .. a.total - 1
      <4> HIDE DEF s
      <4>1. s.total \in Nat /\ s.total = a.total
        BY <1>1, <1>7, <3>1
      <4>2. Cardinality(s.seen_mask) < s.total <=> s.seen_mask # 0 .. s.total - 1
        BY <3>1, <4>1, MissesOne
      <4> QED  BY <3>1, <4>1, <4>2
    <3>4. CASE s.received < s.total
      <4>1. slots' = [slots EXCEPT ![i] = s] /\ out' = Buffered
        BY <1>1, <1>2, <1>9, <2>5, <3>4 DEF Ingest
      <4>2. Pending' = Put(Pending, KeyOf(st), s.seen_mask)
        <5> HIDE DEF s, i, o, f, m, a
        <5>1. KeyOf(st) = <<s.group_id, s.total>> /\ i \in SlotIndex /\ s \in SlotType /\ s.in_use
          BY <2>1, <3>1 DEF KeyOf
        <5>2. /\ i \in Busy(slots) => KeyAt(slots, i) = KeyOf(st)
              /\ \A j \in Busy(slots) : KeyAt(slots, j) = KeyOf(st) => j = i
          BY <2>2
        <5>3. PoolOf([slots EXCEPT ![i] = s]) = Put(PoolOf(slots), KeyOf(st), s.seen_mask)
          BY <1>5, <5>1, <5>2, PutInPool
        <5> QED  BY <1>4, <4>1, <5>3
      <4>3. Abstract!Collect(a, q)
        BY <1>4, <1>6, <1>7, <2>2, <3>2, <3>3, <3>4, <4>1, <4>2 DEF Abstract!Collect, Buffered, Put
      <4> QED  BY <1>3, <4>3 DEF Abstract!SliceArrives
    <3>5. CASE ~(s.received < s.total)
      <4>1. Assembled(s) = a.payload
        BY <1>7, <3>1, <3>5, FullSlotHoldsAll
      <4>2. slots' = [slots EXCEPT ![i] = EmptySlot]
        BY <1>1, <1>2, <1>9, <2>5, <3>5 DEF Ingest
      <4>3. Pending' = [j \in Keys(slots) \ {KeyOf(st)} |-> PoolOf(slots)[j]]
        BY <1>4, <1>5, <2>1, <2>2, <4>2, DropFromPool
      <4>4. Outcome' = IF Len(a.payload) > MAX_PAYLOAD
                       THEN [tag |-> "Dropped", reason |-> "PayloadTooLarge"]
                       ELSE [tag |-> "Complete", head |-> a.head, payload |-> a.payload]
        <5>1. CASE Len(a.payload) > MAX_PAYLOAD
          <6>1. out' = Dropped("PayloadTooLarge")
            BY <1>1, <1>2, <1>9, <2>5, <3>5, <4>1, <5>1 DEF Ingest
          <6> QED  BY <1>6, <5>1, <6>1 DEF Dropped
        <5>2. CASE ~(Len(a.payload) > MAX_PAYLOAD)
          <6>1. out' = Complete([s.template EXCEPT !.payload = Assembled(s)])
            BY <1>1, <1>2, <1>9, <2>5, <3>5, <4>1, <5>2 DEF Ingest
          <6>2. [Template(st) EXCEPT !.payload = a.payload]
                  = [head |-> st.head, payload |-> a.payload, frag |-> NoFrag]
            BY DEF Template
          <6>3. out' = [tag |-> "Complete",
                        msg |-> [head |-> st.head, payload |-> a.payload, frag |-> NoFrag]]
            BY <3>1, <4>1, <6>1, <6>2 DEF Complete
          <6> QED  BY <1>7, <5>2, <6>3 DEF Outcome
        <5> QED  BY <5>1, <5>2
      <4>5. Abstract!Finish(a, q)
        BY <1>4, <1>7, <2>2, <3>2, <3>3, <3>5, <4>3, <4>4 DEF Abstract!Finish
      <4> QED  BY <1>3, <4>5 DEF Abstract!SliceArrives
    <3> QED  BY <3>4, <3>5
  <2> QED  BY <2>4, <2>5
<1> QED  BY <1>8, <1>9

\* An eviction forgets one group that carries the id, or finds none.
LEMMA EvictIsPoolStep ==
  ASSUME SlotsInv, NEW st \in Stream, EvictCall(st.group_id)
  PROVE  Abstract!Evict(st.group_id)
<1> DEFINE g == st.group_id
           E == Evictable(slots, g)
<1>1. /\ slots' = Evict(slots, g) /\ call' = <<"evict", g>>
      /\ out' = IF E = {} THEN [tag |-> "None"] ELSE [tag |-> "Evicted"]
  BY DEF EvictCall
<1>2. out'.tag # "Complete" /\ Outcome' = out'
  BY <1>1 DEF Outcome
<1>3. Pending = PoolOf(slots) /\ Pending' = PoolOf(slots') /\ DOMAIN Pending = Keys(slots)
  BY DEF Pending, SlotOf, InUse, PoolOf, Keys, KeyAt, Busy
<1>4. Distinct(slots) /\ slots \in [SlotIndex -> SlotType]
  BY SlotsAreDistinct DEF SlotsInv, TypeOK
<1>5. CASE E = {}
  <2>1. slots' = slots /\ out' = [tag |-> "None"]
    BY <1>1, <1>5 DEF Evict
  <2>2. \A k \in Keys(slots) : k[1] # g
    BY <1>5 DEF Keys, KeyAt, Busy, Evictable
  <2> QED  BY <1>1, <1>2, <1>3, <2>1, <2>2 DEF Abstract!Evict, Abstract!Forget
<1>6. CASE E # {}
  <2> DEFINE i == First(E)
             k == KeyAt(slots, i)
  <2>1. i \in E /\ i \in SlotIndex
    BY <1>6, FirstIsIn DEF Evictable
  <2>2. slots' = [slots EXCEPT ![i] = EmptySlot] /\ out' = [tag |-> "Evicted"]
    BY <1>1, <1>6 DEF Evict
  <2>3. i \in Busy(slots) /\ k \in Keys(slots) /\ k[1] = g
    BY <2>1 DEF Busy, Keys, KeyAt, Evictable
  <2> HIDE DEF i, k
  <2>4. \A j \in Busy(slots) : KeyAt(slots, j) = k => j = i
    BY <1>4, <2>3 DEF Distinct, k
  <2>5. PoolOf(slots') = [j \in Keys(slots) \ {k} |-> PoolOf(slots)[j]]
    BY <1>4, <2>1, <2>2, <2>4, DropFromPool DEF k
  <2>6. k \in DOMAIN Pending /\ k[1] = g /\ Pending' = [j \in DOMAIN Pending \ {k} |-> Pending[j]]
    BY <1>3, <2>3, <2>5
  <2>7. Outcome' = [tag |-> "Evicted"]
    BY <1>2, <2>2
  <2> QED  BY <1>1, <2>6, <2>7 DEF Abstract!Evict, Abstract!Forget
<1> QED  BY <1>5, <1>6

\* A message that was never fragmented, and a fragment with a header no split
\* produces, leave the pool as it is.
LEMMA OtherIsPoolStep ==
  ASSUME slots' = slots, out'.tag # "Complete"
  PROVE  Pending' = Pending /\ Outcome' = out'
BY DEF Pending, SlotOf, InUse, Outcome

LEMMA StepIsPoolStep ==
  ASSUME SlotsInv, Next
  PROVE  Abstract!Next
<1>1. ASSUME NEW st \in Stream, NEW q \in 0 .. Len(st.slices) - 1, SliceArrives(st, q)
      PROVE  Abstract!Next
  <2>1. Abstract!SliceArrives(SentAs(st), q) /\ SentAs(st) \in Sent
    BY <1>1, SliceIsPoolStep, PoolSees
  <2>2. SentAs(st).total = Len(st.slices)
    BY DEF SentAs
  <2> QED  BY <2>1, <2>2 DEF Abstract!Next
<1>2. ASSUME NEW st \in Stream, NEW h \in BadHeader, BadHeaderArrives(st, h)
      PROVE  Abstract!Next
  <2> DEFINE m == [Frame(st, 0) EXCEPT !.frag = h]
  <2>1. m.frag = h /\ h # NoFrag /\ ~ValidHeader(h)
    BY StreamAssumption DEF StreamAssumption, Frame
  <2>2. slots' = Ingest(slots, m).slots /\ out' = Ingest(slots, m).out /\ call' = <<"bad", h>>
    BY <1>2 DEF BadHeaderArrives, IngestCall
  <2> HIDE DEF m
  <2>3. slots' = slots /\ out' = [tag |-> "Dropped", reason |-> "BadHeader"]
    BY <2>1, <2>2 DEF Ingest, Dropped
  <2>4. Abstract!BadHeaderArrives(h)
    BY <2>2, <2>3, OtherIsPoolStep DEF Abstract!BadHeaderArrives
  <2> QED  BY <2>4 DEF Abstract!Next
<1>3. ASSUME NEW m \in Whole, WholeArrives(m)
      PROVE  Abstract!Next
  <2>1. m.frag = NoFrag
    BY StreamAssumption DEF StreamAssumption
  <2>2. slots' = slots /\ out' = [tag |-> "Passthrough", msg |-> m] /\ call' = <<"whole", m>>
    BY <1>3, <2>1 DEF WholeArrives, IngestCall, Ingest, Passthrough
  <2>3. Abstract!WholeArrives(m)
    BY <2>2, OtherIsPoolStep DEF Abstract!WholeArrives
  <2> QED  BY <2>3 DEF Abstract!Next
<1>4. ASSUME NEW st \in Stream, EvictCall(st.group_id)
      PROVE  Abstract!Next
  <2>1. Abstract!Evict(SentAs(st).group_id) /\ SentAs(st) \in Sent
    BY <1>4, EvictIsPoolStep, PoolSees DEF SentAs
  <2> QED  BY <2>1 DEF Abstract!Next
<1> QED  BY <1>1, <1>2, <1>3, <1>4 DEF Next

LEMMA StartsAsEmptyPool == Init => Abstract!Init
<1> SUFFICES ASSUME Init PROVE Abstract!Init
  OBVIOUS
<1>1. Keys(slots) = {}
  BY DEF Init, EmptySlots, EmptySlot, Keys, Busy
<1>2. Pending = <<>>
  BY <1>1, PendingIsPool DEF PoolOf
<1>3. Outcome = [tag |-> "None"]
  BY DEF Init, Outcome
<1> QED  BY <1>2, <1>3 DEF Init, Abstract!Init

\* The slot array implements the pool of open groups, for any number of slots, any
\* fragment bound and any streams: a group completes exactly at the arrival of its
\* last missing slice and hands out what was sent, a repeated slice changes nothing,
\* a group is refused only when SLOTS others are open, and an eviction forgets one.
THEOREM SlotsImplementPool == Spec => PoolBehaviour
<1>1. SlotsInv /\ [Next]_vars => [Abstract!Next]_(Abstract!vars)
  <2>1. ASSUME SlotsInv, Next PROVE Abstract!Next
    BY <2>1, StepIsPoolStep
  <2>2. UNCHANGED vars => UNCHANGED Abstract!vars
    BY DEF vars, Abstract!vars, Pending, SlotOf, InUse, Outcome
  <2> QED  BY <2>1, <2>2
<1> QED  BY StartsAsEmptyPool, <1>1, SlotsStayConsistent, PTL
         DEF Spec, PoolBehaviour, Abstract!Spec

=============================================================================

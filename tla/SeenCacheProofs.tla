-------------------------- MODULE SeenCacheProofs ----------------------------
(***************************************************************************)
(* For every capacity N and every set of keys: the ring is well formed and *)
(* fills in order, and SeenCacheSpec implements SeenWindow.                *)
(***************************************************************************)
EXTENDS SeenCacheSpec, SequenceTheorems, TLAPS

\* Stepping the write index stays in the ring; it wraps only from the last slot.
LEMMA NextIndex ==
  ASSUME NEW i \in Slot
  PROVE  /\ (i + 1) % N \in Slot
         /\ (i + 1) % N = IF i + 1 = N THEN 0 ELSE i + 1
<1>1. N \in Nat \ {0} /\ i \in Nat /\ i < N
  BY CacheAssumption DEF CacheAssumption, Slot
<1>2. CASE i + 1 = N
  BY <1>1, <1>2, Z3 DEF Slot
<1>3. CASE i + 1 # N
  BY <1>1, <1>3, Z3 DEF Slot
<1> QED  BY <1>2, <1>3

\* Recording a key keeps the ring well formed and filled in order.
LEMMA InsertKeepsRing ==
  ASSUME NEW id \in Key, RingInv, cache' = Insert(cache, id)
  PROVE  cache' \in Cache /\ FillsInOrder'
<1>1. cache \in Cache  BY DEF RingInv, TypeOK
<1>2. cache' \in Cache
  BY <1>1, NextIndex DEF Insert, Cache
<1>3. FillsInOrder'
  <2>1. cache.next \in Slot /\ cache'.next = IF cache.next + 1 = N THEN 0 ELSE cache.next + 1
    BY <1>1, NextIndex DEF Insert, Cache
  <2>2. \A i \in Slot : cache'.valid[i] <=> (i = cache.next \/ cache.valid[i])
    BY <1>1 DEF Insert, Cache
  <2>3. CASE \A i \in Slot : cache.valid[i]
    BY <2>2, <2>3 DEF FillsInOrder
  <2>4. CASE \A i \in Slot : cache.valid[i] <=> i < cache.next
    <3>1. N \in Nat /\ cache.next \in Nat  BY <2>1, CacheAssumption DEF CacheAssumption, Slot
    <3>2. CASE cache.next + 1 = N
      <4>1. \A i \in Slot : i = cache.next \/ i < cache.next
        BY <3>1, <3>2 DEF Slot
      <4> QED  BY <4>1, <2>2, <2>4 DEF FillsInOrder
    <3>3. CASE cache.next + 1 # N
      <4>1. cache'.next = cache.next + 1  BY <2>1, <3>3
      <4>2. \A i \in Slot : i < cache'.next <=> (i = cache.next \/ i < cache.next)
        BY <3>1, <4>1 DEF Slot
      <4> QED  BY <4>2, <2>2, <2>4 DEF FillsInOrder
    <3> QED  BY <3>2, <3>3
  <2> QED  BY <2>3, <2>4 DEF RingInv, FillsInOrder
<1> QED  BY <1>2, <1>3

\* In every reachable state the indices, keys and flags are in range and the
\* ring has filled from slot 0 upwards: no call sequence corrupts the cache.
THEOREM RingIsWellFormed == Spec => []RingInv
<1>1. Init => RingInv
  <2> SUFFICES ASSUME Init PROVE RingInv
    OBVIOUS
  <2>1. 0 \in Slot /\ 0 \in Key
    BY CacheAssumption, Z3 DEF CacheAssumption, Slot
  <2>2. EmptyCache \in Cache
    BY <2>1 DEF EmptyCache, Cache
  <2>3. \A i \in Slot : cache.valid[i] <=> i < cache.next
    BY CacheAssumption DEF CacheAssumption, Init, EmptyCache, Slot
  <2> QED  BY <2>2, <2>3 DEF Init, RingInv, TypeOK, FillsInOrder
<1>2. RingInv /\ [Next]_vars => RingInv'
  <2> SUFFICES ASSUME RingInv, [Next]_vars PROVE RingInv'
    OBVIOUS
  <2>1. ASSUME NEW id \in Key, CheckAndInsertCall(id) PROVE RingInv'
    <3>1. verdict' \in BOOLEAN  BY <2>1 DEF CheckAndInsertCall
    <3>2. CASE Contains(cache, id)
      BY <2>1, <3>1, <3>2 DEF CheckAndInsertCall, CheckAndInsert, RingInv, TypeOK, FillsInOrder
    <3>3. CASE ~Contains(cache, id)
      <4>1. cache' = Insert(cache, id)
        BY <2>1, <3>3 DEF CheckAndInsertCall, CheckAndInsert
      <4> QED  BY <3>1, <4>1, InsertKeepsRing DEF RingInv, TypeOK
    <3> QED  BY <3>2, <3>3
  <2>2. ASSUME NEW id \in Key, InsertCall(id) PROVE RingInv'
    BY <2>2, InsertKeepsRing DEF InsertCall, RingInv, TypeOK
  <2>3. CASE UNCHANGED vars
    BY <2>3 DEF vars, RingInv, TypeOK, FillsInOrder
  <2> QED  BY <2>1, <2>2, <2>3 DEF Next
<1> QED  BY <1>1, <1>2, PTL DEF Spec

-----------------------------------------------------------------------------
(* The refinement: the ring read from its oldest slot is the abstract window. *)

\* Walking at most one turn from a slot wraps at most once.
LEMMA RingWalk ==
  ASSUME NEW i \in Slot, NEW d \in Slot
  PROVE  /\ (i + d) % N \in Slot
         /\ (i + d) % N = IF i + d < N THEN i + d ELSE i + d - N
<1>1. N \in Nat \ {0} /\ i \in Nat /\ i < N /\ d \in Nat /\ d < N
  BY CacheAssumption DEF CacheAssumption, Slot
<1>2. CASE i + d < N
  BY <1>1, <1>2, Z3 DEF Slot
<1>3. CASE ~(i + d < N)
  BY <1>1, <1>3, Z3 DEF Slot
<1> QED  BY <1>2, <1>3

\* valid[next] tells a full ring from one that is still filling.
LEMMA FullOrFilling ==
  ASSUME RingInv
  PROVE  /\ cache.next \in Slot
         /\ cache.valid[cache.next] => \A i \in Slot : cache.valid[i]
         /\ ~cache.valid[cache.next] => \A i \in Slot : cache.valid[i] <=> i < cache.next
<1>1. cache.next \in Slot /\ ~(cache.next < cache.next)
  BY CacheAssumption DEF CacheAssumption, RingInv, TypeOK, Cache, Slot
<1> QED  BY <1>1 DEF RingInv, FillsInOrder

LEMMA WindowShape ==
  ASSUME RingInv
  PROVE  /\ Window \in Seq(Key)
         /\ cache.valid[cache.next] =>
              /\ Len(Window) = N
              /\ \A k \in 1 .. N : Window[k] = cache.ids[(cache.next + (k - 1)) % N]
         /\ ~cache.valid[cache.next] =>
              /\ Len(Window) = cache.next
              /\ \A k \in 1 .. cache.next : Window[k] = cache.ids[k - 1]
<1>1. cache.next \in Slot /\ cache.ids \in [Slot -> Key] /\ N \in Nat
  BY CacheAssumption DEF CacheAssumption, RingInv, TypeOK, Cache
<1>2. CASE cache.valid[cache.next]
  <2>1. \A k \in 1 .. N : k - 1 \in Slot
    BY <1>1 DEF Slot
  <2>2. \A k \in 1 .. N : cache.ids[(cache.next + (k - 1)) % N] \in Key
    BY <1>1, <2>1, RingWalk
  <2> QED  BY <1>1, <1>2, <2>2 DEF Window
<1>3. CASE ~cache.valid[cache.next]
  <2>1. cache.next \in Nat /\ \A k \in 1 .. cache.next : k - 1 \in Slot
    BY <1>1 DEF Slot
  <2>2. \A k \in 1 .. cache.next : cache.ids[k - 1] \in Key
    BY <1>1, <2>1
  <2> QED  BY <1>3, <2>1, <2>2 DEF Window
<1> QED  BY <1>2, <1>3

\* A key is in some written slot exactly when the window remembers it.
LEMMA ContainsIsRemembered ==
  ASSUME RingInv, NEW id \in Key
  PROVE  Contains(cache, id) <=> Abstract!Remembered(id)
<1>1. N \in Nat \ {0} /\ cache.next \in Slot /\ cache.next \in Nat /\ cache.next < N
  BY FullOrFilling, CacheAssumption DEF CacheAssumption, Slot
<1>2. CASE cache.valid[cache.next]
  <2>1. \A i \in Slot : cache.valid[i]
    BY <1>2, FullOrFilling
  <2>2. ASSUME NEW i \in Slot, cache.ids[i] = id PROVE \E k \in 1 .. N : Window[k] = id
    <3> DEFINE d == IF i < cache.next THEN i + N - cache.next ELSE i - cache.next
    <3>1. d \in Slot /\ d + 1 \in 1 .. N /\ (d + 1) - 1 = d
      BY <1>1 DEF Slot
    <3>2. (cache.next + d) % N = i
      <4>1. (cache.next + d) % N = IF cache.next + d < N THEN cache.next + d ELSE cache.next + d - N
        BY ONLY <1>1, <3>1, RingWalk
      <4>2. i \in Nat /\ i < N
        BY <1>1 DEF Slot
      <4> QED  BY <1>1, <4>1, <4>2
    <3>3. Window[d + 1] = cache.ids[(cache.next + ((d + 1) - 1)) % N]
      BY <1>2, <3>1, WindowShape
    <3> QED  BY <2>2, <3>1, <3>2, <3>3
  <2>3. ASSUME NEW k \in 1 .. N, Window[k] = id PROVE \E i \in Slot : cache.ids[i] = id
    <3>1. k - 1 \in Slot  BY <1>1 DEF Slot
    <3>2. (cache.next + (k - 1)) % N \in Slot  BY <1>1, <3>1, RingWalk
    <3> QED  BY <1>2, <2>3, <3>2, WindowShape
  <2> QED  BY <1>2, <2>1, <2>2, <2>3, WindowShape DEF Contains, Abstract!Remembered
<1>3. CASE ~cache.valid[cache.next]
  <2>1. \A i \in Slot : cache.valid[i] <=> i < cache.next
    BY <1>3, FullOrFilling
  <2>2. ASSUME NEW i \in Slot, i < cache.next, cache.ids[i] = id
        PROVE  \E k \in 1 .. cache.next : Window[k] = id
    <3>1. i + 1 \in 1 .. cache.next /\ (i + 1) - 1 = i
      BY <1>1, <2>2 DEF Slot
    <3> QED  BY <1>3, <2>2, <3>1, WindowShape
  <2>3. ASSUME NEW k \in 1 .. cache.next, Window[k] = id
        PROVE  \E i \in Slot : i < cache.next /\ cache.ids[i] = id
    <3>1. k - 1 \in Slot /\ k - 1 < cache.next
      BY <1>1 DEF Slot
    <3> QED  BY <1>3, <2>3, <3>1, WindowShape
  <2> QED  BY <1>3, <2>1, <2>2, <2>3, WindowShape DEF Contains, Abstract!Remembered
<1> QED  BY <1>2, <1>3

LEMMA AppendAsFunction ==
  ASSUME NEW S, NEW s \in Seq(S), NEW e \in S
  PROVE  Append(s, e) = [k \in 1 .. Len(s) + 1 |-> IF k = Len(s) + 1 THEN e ELSE s[k]]
<1> DEFINE f == [k \in 1 .. Len(s) + 1 |-> IF k = Len(s) + 1 THEN e ELSE s[k]]
<1>1. Len(s) \in Nat /\ \A k \in 1 .. Len(s) + 1 : k # Len(s) + 1 => k \in 1 .. Len(s)
  OBVIOUS
<1>2. \A k \in 1 .. Len(s) + 1 : (IF k = Len(s) + 1 THEN e ELSE s[k]) \in S
  BY <1>1, ElementOfSeq
<1>3. f \in Seq(S) /\ Len(f) = Len(s) + 1
  BY <1>1, <1>2
<1>4. \A k \in 1 .. Len(s) + 1 : Append(s, e)[k] = f[k]
  BY <1>1, AppendProperties
<1>5. Append(s, e) \in Seq(S) /\ Len(Append(s, e)) = Len(s) + 1
  BY AppendProperties
<1> HIDE DEF f
<1>6. Append(s, e) = f
  BY <1>1, <1>3, <1>4, <1>5, SeqEqual
<1> QED  BY <1>6 DEF f

\* Overwriting the oldest slot is what the abstract window calls remembering.
LEMMA InsertShiftsWindow ==
  ASSUME RingInv, NEW id \in Key, cache' = Insert(cache, id)
  PROVE  Window' = IF Len(Window) < N THEN Append(Window, id) ELSE Append(Tail(Window), id)
<1>1. /\ N \in Nat \ {0} /\ cache.next \in Slot /\ cache.next \in Nat /\ cache.next < N
      /\ cache.ids \in [Slot -> Key] /\ cache.valid \in [Slot -> BOOLEAN]
  BY FullOrFilling, CacheAssumption DEF CacheAssumption, Slot, RingInv, TypeOK, Cache
<1>2. /\ cache'.ids = [cache.ids EXCEPT ![cache.next] = id]
      /\ cache'.valid = [cache.valid EXCEPT ![cache.next] = TRUE]
      /\ cache'.next = IF cache.next + 1 = N THEN 0 ELSE cache.next + 1
      /\ cache'.next \in Slot /\ cache'.next \in Nat
  BY <1>1, NextIndex DEF Insert, Slot
<1>3. RingInv => Window \in Seq(Key)
  BY WindowShape
<1>4. CASE cache.valid[cache.next]
  <2>1. cache'.valid[cache'.next]
    BY <1>1, <1>2, <1>4, FullOrFilling
  <2>2. Window' = [k \in 1 .. N |-> cache'.ids[(cache'.next + (k - 1)) % N]]
    BY <2>1 DEF Window
  <2>3. Len(Window) = N /\ \A k \in 1 .. N : Window[k] = cache.ids[(cache.next + (k - 1)) % N]
    BY <1>4, WindowShape
  <2>4. ASSUME NEW k \in 1 .. N - 1
        PROVE  cache'.ids[(cache'.next + (k - 1)) % N] = Window[k + 1]
    <3>1. k \in Slot /\ k - 1 \in Slot /\ k + 1 \in 1 .. N /\ (k + 1) - 1 = k /\ k \in Nat
      BY <1>1 DEF Slot
    <3>2. (cache.next + k) % N = IF cache.next + k < N THEN cache.next + k ELSE cache.next + k - N
      BY <1>1, <3>1, RingWalk
    <3>3. (cache'.next + (k - 1)) % N =
            IF cache'.next + (k - 1) < N THEN cache'.next + (k - 1) ELSE cache'.next + (k - 1) - N
      BY <1>2, <3>1, RingWalk
    <3>4. (cache'.next + (k - 1)) % N = (cache.next + k) % N
      BY <1>1, <1>2, <3>1, <3>2, <3>3
    <3>5. (cache.next + k) % N \in Slot /\ (cache.next + k) % N # cache.next
      <4>1. k > 0 /\ k < N
        BY <1>1
      <4> QED  BY <1>1, <3>1, <3>2, <4>1, RingWalk
    <3>6. cache'.ids[(cache.next + k) % N] = cache.ids[(cache.next + k) % N]
      BY <1>1, <1>2, <3>5
    <3> QED  BY <2>3, <3>1, <3>4, <3>6
  <2>5. cache'.ids[(cache'.next + (N - 1)) % N] = id
    <3>1. N - 1 \in Slot
      BY <1>1 DEF Slot
    <3>2. (cache'.next + (N - 1)) % N =
            IF cache'.next + (N - 1) < N THEN cache'.next + (N - 1) ELSE cache'.next + (N - 1) - N
      BY <1>2, <3>1, RingWalk
    <3>3. (cache'.next + (N - 1)) % N = cache.next
      BY <1>1, <1>2, <3>2
    <3> QED  BY <1>1, <1>2, <3>3
  <2>6. Append(Tail(Window), id) = [k \in 1 .. N |-> IF k = N THEN id ELSE Window[k + 1]]
    <3>1. Window \in Seq(Key) /\ Window # <<>>
      BY <1>1, <1>3, <2>3
    <3>2. Tail(Window) \in Seq(Key) /\ Len(Tail(Window)) = N - 1
          /\ \A k \in 1 .. N - 1 : Tail(Window)[k] = Window[k + 1]
      BY <1>1, <2>3, <3>1
    <3>3. Append(Tail(Window), id)
            = [k \in 1 .. (N - 1) + 1 |-> IF k = (N - 1) + 1 THEN id ELSE Tail(Window)[k]]
      <4> DEFINE T == Tail(Window)
      <4> HIDE DEF T
      <4>1. T \in Seq(Key) /\ Len(T) = N - 1
        BY <3>2 DEF T
      <4>2. Append(T, id) = [k \in 1 .. Len(T) + 1 |-> IF k = Len(T) + 1 THEN id ELSE T[k]]
        BY <4>1, AppendAsFunction
      <4> QED  BY <4>1, <4>2 DEF T
    <3>4. (N - 1) + 1 = N /\ \A k \in 1 .. N : k # N => k \in 1 .. N - 1
      BY <1>1
    <3> QED  BY <3>2, <3>3, <3>4
  <2>7. \A k \in 1 .. N : cache'.ids[(cache'.next + (k - 1)) % N]
                            = IF k = N THEN id ELSE Window[k + 1]
    BY <1>1, <2>4, <2>5
  <2>8. Window' = [k \in 1 .. N |-> IF k = N THEN id ELSE Window[k + 1]]
    BY <2>2, <2>7
  <2>9. Window' = Append(Tail(Window), id)
    BY <2>6, <2>8
  <2>10. ~(Len(Window) < N)
    BY <1>1, <2>3
  <2> QED  BY <2>9, <2>10
<1>5. CASE ~cache.valid[cache.next]
  <2>1. \A i \in Slot : cache.valid[i] <=> i < cache.next
    BY <1>5, FullOrFilling
  <2>2. Len(Window) = cache.next /\ \A k \in 1 .. cache.next : Window[k] = cache.ids[k - 1]
    BY <1>5, WindowShape
  <2>3. Append(Window, id)
          = [k \in 1 .. cache.next + 1 |-> IF k = cache.next + 1 THEN id ELSE cache.ids[k - 1]]
    <3>1. Append(Window, id)
            = [k \in 1 .. cache.next + 1 |-> IF k = cache.next + 1 THEN id ELSE Window[k]]
      BY <1>3, <2>2, AppendAsFunction
    <3>2. \A k \in 1 .. cache.next + 1 : k # cache.next + 1 => k \in 1 .. cache.next
      BY <1>1
    <3> QED  BY <2>2, <3>1, <3>2
  <2>4. \A k \in 1 .. cache.next + 1 :
          cache'.ids[k - 1] = IF k = cache.next + 1 THEN id ELSE cache.ids[k - 1]
    <3> SUFFICES ASSUME NEW k \in 1 .. cache.next + 1
                 PROVE  cache'.ids[k - 1] = IF k = cache.next + 1 THEN id ELSE cache.ids[k - 1]
      OBVIOUS
    <3>1. k - 1 \in Slot /\ (k - 1 = cache.next <=> k = cache.next + 1)
      BY <1>1 DEF Slot
    <3> QED  BY <1>1, <1>2, <3>1
  <2>5. Window' = [k \in 1 .. cache.next + 1 |-> cache'.ids[k - 1]]
    <3>1. CASE cache.next + 1 # N
      <4>1. ~cache'.valid[cache'.next] /\ cache'.next = cache.next + 1
        BY <1>1, <1>2, <2>1, <3>1
      <4> QED  BY <4>1 DEF Window
    <3>2. CASE cache.next + 1 = N
      <4>1. cache'.next = 0 /\ 0 \in Slot
        BY <1>2, <3>2
      <4>2. cache'.valid[0]
        BY <1>1, <1>2, <2>1, <4>1
      <4>3. Window' = [k \in 1 .. N |-> cache'.ids[(0 + (k - 1)) % N]]
        BY <4>1, <4>2 DEF Window
      <4>4. \A k \in 1 .. N : (0 + (k - 1)) % N = k - 1
        <5> SUFFICES ASSUME NEW k \in 1 .. N PROVE (0 + (k - 1)) % N = k - 1
          OBVIOUS
        <5>1. k - 1 \in Slot /\ 0 + (k - 1) < N /\ 0 + (k - 1) = k - 1
          BY <1>1 DEF Slot
        <5> QED  BY <4>1, <5>1, RingWalk
      <4> QED  BY <3>2, <4>3, <4>4
    <3> QED  BY <3>1, <3>2
  <2> QED  BY <1>1, <2>2, <2>3, <2>4, <2>5
<1> QED  BY <1>4, <1>5

\* SeenCache implements SeenWindow: a key is called a duplicate if and only if
\* it is one of the last N keys recorded, for every N and every call sequence.
THEOREM RingImplementsWindow == Spec => RemembersLastN
<1>1. Init => Abstract!Init
  <2> SUFFICES ASSUME Init PROVE Abstract!Init
    OBVIOUS
  <2>1. ~cache.valid[cache.next] /\ cache.next = 0
    BY CacheAssumption, Z3 DEF CacheAssumption, Init, EmptyCache, Slot
  <2>2. Window = <<>>
    BY <2>1 DEF Window
  <2> QED  BY <2>2 DEF Init, Abstract!Init
<1>2. RingInv /\ [Next]_vars => [Abstract!Next]_(Abstract!vars)
  <2> SUFFICES ASSUME RingInv, [Next]_vars PROVE [Abstract!Next]_(Abstract!vars)
    OBVIOUS
  <2>1. ASSUME NEW id \in Key, CheckAndInsertCall(id) PROVE Abstract!Next
    <3>0. call' = <<"check", id>>  BY <2>1 DEF CheckAndInsertCall
    <3>1. CASE Contains(cache, id)
      <4>1. cache' = cache /\ verdict' = FALSE
        BY <2>1, <3>1 DEF CheckAndInsertCall, CheckAndInsert
      <4>2. Window' = Window
        BY <4>1 DEF Window
      <4>3. Abstract!CheckSeen(id)
        BY <3>1, <4>1, <4>2, ContainsIsRemembered DEF Abstract!CheckSeen
      <4> QED  BY <3>0, <4>3 DEF Abstract!Next
    <3>2. CASE ~Contains(cache, id)
      <4>1. cache' = Insert(cache, id) /\ verdict' = TRUE
        BY <2>1, <3>2 DEF CheckAndInsertCall, CheckAndInsert
      <4>2. Abstract!CheckNew(id)
        BY <3>2, <4>1, ContainsIsRemembered, InsertShiftsWindow
           DEF Abstract!CheckNew, Abstract!Remember
      <4> QED  BY <3>0, <4>2 DEF Abstract!Next
    <3> QED  BY <3>1, <3>2
  <2>2. ASSUME NEW id \in Key, InsertCall(id) PROVE Abstract!Next
    <3>1. Abstract!Record(id)
      BY <2>2, InsertShiftsWindow DEF InsertCall, Abstract!Record, Abstract!Remember
    <3> QED  BY <2>2, <3>1 DEF InsertCall, Abstract!Next
  <2>3. CASE UNCHANGED vars
    BY <2>3 DEF vars, Abstract!vars, Window
  <2> QED  BY <2>1, <2>2, <2>3 DEF Next
<1>3. Spec => []RingInv
  BY RingIsWellFormed
<1> QED  BY <1>1, <1>2, <1>3, PTL DEF Spec, Abstract!Spec, RemembersLastN

=============================================================================

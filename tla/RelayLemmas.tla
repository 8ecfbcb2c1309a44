------------------------------ MODULE RelayLemmas ------------------------------
(***************************************************************************)
(* What the operators of the engine compute, for every engine and input:   *)
(* split cuts what the concatenation of the reassembler puts together      *)
(* again; a plan has the frames of its message, for each of its targets.   *)
(***************************************************************************)
EXTENDS Relay, FiniteSetTheorems, SequenceTheorems, WellFoundedInduction, TLAPS

(* Concat is defined by recursion over its slices.  A function that obeys    *)
(* the recursive equation is the one it computes, for the first index at     *)
(* which the two differ contradicts the equation.                            *)

\* The least of a non-empty set of natural numbers.
LEMMA LeastExists ==
  ASSUME NEW S, S \subseteq Nat, S # {}
  PROVE  \E i \in S : \A j \in S : i <= j
<1>1. \A T \in SUBSET Nat : T # {} =>
        \E i \in T : \A j \in T : ~(<<j, i>> \in {p \in Nat \X Nat : p[1] < p[2]})
  BY NatLessThanWellFounded, WFMin, Zenon DEF OpToRel
<1>2. PICK i \in S : \A j \in S : ~(<<j, i>> \in {p \in Nat \X Nat : p[1] < p[2]})
  BY <1>1
<1>3. \A j \in S : ~(j < i)
  BY <1>2
<1> QED  BY <1>3

\* g joins the first i of the sequences ss, for every i.
Joins(g, ss) == g = [i \in 1 .. Len(ss) |-> IF i = 1 THEN ss[i] ELSE g[i - 1] \o ss[i]]

LEMMA JoinIsUnique ==
  ASSUME NEW ss, Len(ss) \in Nat, NEW f, NEW g, Joins(f, ss), Joins(g, ss)
  PROVE  f = g
<1> DEFINE D == {i \in 1 .. Len(ss) : f[i] # g[i]}
<1>1. f = [i \in 1 .. Len(ss) |-> f[i]] /\ g = [i \in 1 .. Len(ss) |-> g[i]]
  BY DEF Joins
<1>2. D = {}
  <2> SUFFICES ASSUME D # {} PROVE FALSE
    OBVIOUS
  <2>1. D \subseteq Nat
    OBVIOUS
  <2>2. PICK i \in D : \A j \in D : i <= j
    <3> HIDE DEF D
    <3> QED  BY <2>1, LeastExists
  <2>3. i # 1 => f[i - 1] = g[i - 1]
    BY <2>2
  <2>4. /\ f[i] = IF i = 1 THEN ss[i] ELSE f[i - 1] \o ss[i]
        /\ g[i] = IF i = 1 THEN ss[i] ELSE g[i - 1] \o ss[i]
    BY DEF Joins
  <2> QED  BY <2>2, <2>3, <2>4
<1> QED  BY <1>1, <1>2

LEMMA ConcatIsJoin ==
  ASSUME NEW ss, Len(ss) \in Nat \ {0}, NEW g, Joins(g, ss)
  PROVE  Concat(ss) = g[Len(ss)]
<1> DEFINE c == CHOOSE f : Joins(f, ss)
<1>1. Joins(c, ss)
  OBVIOUS
<1>2. c = g
  BY <1>1, JoinIsUnique
<1>3. Concat(ss) = c[Len(ss)]
  BY DEF Concat, Ext!FlattenSeq, Joins
<1> QED  BY <1>2, <1>3

\* Such a g exists, for every length: the first index without one contradicts the
\* recursive equation.
JoinsTo(g, ss, n) == g = [i \in 1 .. n |-> IF i = 1 THEN ss[i] ELSE g[i - 1] \o ss[i]]

LEMMA JoinExists ==
  ASSUME NEW ss, NEW n \in Nat
  PROVE  \E g : JoinsTo(g, ss, n)
<1> DEFINE S == {i \in Nat : ~\E g : JoinsTo(g, ss, i)}
<1>1. S = {}
  <2> SUFFICES ASSUME S # {} PROVE FALSE
    OBVIOUS
  <2>1. S \subseteq Nat
    OBVIOUS
  <2>2. PICK i \in S : \A j \in S : i <= j
    <3> HIDE DEF S
    <3> QED  BY <2>1, LeastExists
  <2>3. i \in Nat /\ ~\E g : JoinsTo(g, ss, i)
    BY <2>2
  <2>4. CASE i = 0
    <3>1. JoinsTo([k \in 1 .. i |-> 0], ss, i)
      BY <2>4 DEF JoinsTo
    <3> QED  BY <2>3, <3>1
  <2>5. CASE i # 0
    <3>1. i - 1 \in Nat /\ ~(i <= i - 1)
      BY <2>3, <2>5
    <3>2. PICK f : JoinsTo(f, ss, i - 1)
      BY <2>2, <3>1
    <3> DEFINE last == IF i = 1 THEN ss[i] ELSE f[i - 1] \o ss[i]
               g == [k \in 1 .. i |-> IF k = i THEN last ELSE f[k]]
    <3>3. ASSUME NEW k \in 1 .. i PROVE g[k] = IF k = 1 THEN ss[k] ELSE g[k - 1] \o ss[k]
      <4>1. CASE k = i
        <5>1. g[k] = last /\ (k # 1 => g[k - 1] = f[i - 1])
          BY <2>3, <4>1
        <5> QED  BY <4>1, <5>1
      <4>2. CASE k # i
        <5>1. k \in 1 .. i - 1 /\ g[k] = f[k]
          BY <2>3, <4>2
        <5>2. f[k] = IF k = 1 THEN ss[k] ELSE f[k - 1] \o ss[k]
          BY <3>2, <5>1, Zenon DEF JoinsTo
        <5>3. k # 1 => g[k - 1] = f[k - 1]
          BY <2>3, <5>1
        <5> QED  BY <5>1, <5>2, <5>3
      <4> QED  BY <4>1, <4>2
    <3>4. JoinsTo(g, ss, i)
      BY <3>3, Zenon DEF JoinsTo
    <3> QED  BY <2>3, <3>4
  <2> QED  BY <2>4, <2>5
<1> QED  BY <1>1

\* x is one of the elements of s.
In(x, s) == \E k \in 1 .. Len(s) : s[k] = x

LEMMA InBoth ==
  ASSUME NEW T, NEW s \in Seq(T), NEW u \in Seq(T)
  PROVE  s \o u \in Seq(T) /\ \A x : In(x, s \o u) <=> In(x, s) \/ In(x, u)
<1>1. /\ s \o u \in Seq(T) /\ Len(s \o u) = Len(s) + Len(u)
      /\ \A k \in 1 .. Len(s) + Len(u) : (s \o u)[k] = IF k <= Len(s) THEN s[k] ELSE u[k - Len(s)]
  BY ConcatProperties
<1>2. Len(s) \in Nat /\ Len(u) \in Nat
  OBVIOUS
<1> DEFINE w == s \o u
<1> HIDE DEF w
<1>3. Len(w) = Len(s) + Len(u)
      /\ \A k \in 1 .. Len(w) : w[k] = IF k <= Len(s) THEN s[k] ELSE u[k - Len(s)]
  BY <1>1 DEF w
<1>4. ASSUME NEW x, In(x, w) PROVE In(x, s) \/ In(x, u)
  <2>1. PICK k \in 1 .. Len(w) : w[k] = x
    BY <1>4 DEF In
  <2>2. CASE k <= Len(s)
    BY <1>2, <1>3, <2>1, <2>2 DEF In
  <2>3. CASE ~(k <= Len(s))
    <3>1. k - Len(s) \in 1 .. Len(u) /\ u[k - Len(s)] = x
      BY <1>2, <1>3, <2>1, <2>3
    <3> QED  BY <3>1 DEF In
  <2> QED  BY <2>2, <2>3
<1>5. ASSUME NEW x, In(x, s) PROVE In(x, w)
  <2>1. PICK k \in 1 .. Len(s) : s[k] = x
    BY <1>5 DEF In
  <2>2. k \in 1 .. Len(w) /\ w[k] = x
    BY <1>2, <1>3, <2>1
  <2> QED  BY <2>2 DEF In
<1>6. ASSUME NEW x, In(x, u) PROVE In(x, w)
  <2>1. PICK k \in 1 .. Len(u) : u[k] = x
    BY <1>6 DEF In
  <2>2. k + Len(s) \in 1 .. Len(w) /\ w[k + Len(s)] = x
    BY <1>2, <1>3, <2>1
  <2> QED  BY <2>2 DEF In
<1> QED  BY <1>1, <1>4, <1>5, <1>6 DEF w

\* Concatenated, sequences have their elements and no others.
LEMMA FlattenElements ==
  ASSUME NEW T, NEW ss \in Seq(Seq(T)), Len(ss) # 0
  PROVE  /\ Ext!FlattenSeq(ss) \in Seq(T)
         /\ \A x : In(x, Ext!FlattenSeq(ss)) <=> \E j \in 1 .. Len(ss) : In(x, ss[j])
<1> DEFINE n == Len(ss)
<1>1. n \in Nat \ {0} /\ \A j \in 1 .. n : ss[j] \in Seq(T)
  BY ElementOfSeq
<1>2. PICK g : JoinsTo(g, ss, n)
  BY <1>1, JoinExists
<1>3. \A i \in 1 .. n : g[i] = IF i = 1 THEN ss[i] ELSE g[i - 1] \o ss[i]
  BY <1>2, Zenon DEF JoinsTo
<1>4. Ext!FlattenSeq(ss) = g[n]
  <2>1. Joins(g, ss)
    BY <1>2 DEF Joins, JoinsTo
  <2> QED  BY <1>1, <2>1, ConcatIsJoin DEF Concat
<1> HIDE DEF n
<1> DEFINE Right(i) == /\ g[i] \in Seq(T)
                       /\ \A x : In(x, g[i]) <=> \E j \in 1 .. i : In(x, ss[j])
           D == {i \in 1 .. n : ~Right(i)}
<1>5. D = {}
  <2> SUFFICES ASSUME D # {} PROVE FALSE
    OBVIOUS
  <2>1. D \subseteq Nat
    OBVIOUS
  <2>2. PICK i \in D : \A j \in D : i <= j
    <3> HIDE DEF D
    <3> QED  BY <2>1, LeastExists
  <2>3. i \in 1 .. n /\ (i # 1 => i - 1 \in 1 .. n) /\ ~Right(i)
    <3>1. i \in 1 .. n /\ ~Right(i)
      <4> HIDE DEF Right
      <4> QED  BY <2>2
    <3> QED  BY <1>1, <3>1
  <2>4. i # 1 => Right(i - 1)
    <3>1. i # 1 => ~(i <= i - 1)
      BY <2>3
    <3> QED  BY <2>2, <2>3, <3>1
  <2>5. CASE i = 1
    <3>1. g[i] = ss[i] /\ \A j \in 1 .. i : j = i
      BY <1>3, <2>3, <2>5
    <3>2. Right(i)
      BY <1>1, <2>3, <2>5, <3>1
    <3> QED  BY <2>3, <3>2
  <2>6. CASE i # 1
    <3>1. g[i] = g[i - 1] \o ss[i]
      BY <1>3, <2>3, <2>6
    <3>2. g[i - 1] \in Seq(T) /\ \A x : In(x, g[i - 1]) <=> \E j \in 1 .. i - 1 : In(x, ss[j])
      BY <2>4, <2>6
    <3>3. ss[i] \in Seq(T)
      BY <1>1, <2>3
    <3>4. g[i] \in Seq(T) /\ \A x : In(x, g[i]) <=> In(x, g[i - 1]) \/ In(x, ss[i])
      BY <3>1, <3>2, <3>3, InBoth
    <3>5. \A j : j \in 1 .. i <=> j \in 1 .. i - 1 \/ j = i
      BY <1>1, <2>3
    <3>6. \A x : In(x, g[i]) <=> \E j \in 1 .. i : In(x, ss[j])
      BY <3>2, <3>4, <3>5, Zenon
    <3>7. Right(i)
      BY <3>4, <3>6
    <3> QED  BY <2>3, <3>7
  <2> QED  BY <2>5, <2>6
<1>6. n \in 1 .. n
  BY <1>1
<1>7. Right(n)
  BY <1>5, <1>6
<1> QED  BY <1>4, <1>7 DEF n

\* div_ceil: n slices of m bytes hold l bytes, n - 1 do not.
LEMMA DivCeil ==
  ASSUME NEW l \in Nat \ {0}, NEW m \in Nat \ {0}
  PROVE  LET n == (l + m - 1) \div m
         IN  n \in Nat \ {0} /\ l <= n * m /\ (n - 1) * m < l /\ (l > m => n > 1)
<1> DEFINE n == (l + m - 1) \div m
<1>1. n \in Nat /\ n * m <= l + m - 1 /\ l + m - 1 < n * m + m
  BY Z3
<1> HIDE DEF n
<1>2. (n - 1) * m = n * m - m /\ n * m \in Nat /\ (n = 0 => n * m = 0) /\ (n = 1 => n * m = m)
  BY <1>1, Z3
<1> QED  BY <1>1, <1>2, Z3 DEF n

LEMMA Multiples ==
  ASSUME NEW i \in Nat, NEW j \in Nat, NEW m \in Nat, i <= j
  PROVE  i * m \in Nat /\ i * m <= j * m /\ (i + 1) * m = i * m + m
BY Z3

LEMMA MtuIsNat ==
  ASSUME NEW t \in Transport
  PROVE  Mtu(t) \in Nat
BY ProtoAssumption, ReassemblerAssumption DEF ProtoAssumption, ReassemblerAssumption, Mtu

\* Where the slices of a message lie: they follow each other without a gap, and the
\* last one ends with the payload.
Upto(msg, t, n) == IF n * Mtu(t) < Len(msg.payload) THEN n * Mtu(t) ELSE Len(msg.payload)

LEMMA SliceBounds ==
  ASSUME NEW t \in Transport, NEW S, NEW msg, msg.payload \in Seq(S),
         Mtu(t) # 0, Len(msg.payload) # 0, NEW n \in 1 .. SliceCount(msg, t)
  PROVE  /\ CutSlice(msg, t, n - 1) = SubSeq(msg.payload, (n - 1) * Mtu(t) + 1, Upto(msg, t, n))
         /\ (n - 1) * Mtu(t) \in Nat /\ Upto(msg, t, n) \in Nat
         /\ (n - 1) * Mtu(t) < Upto(msg, t, n) /\ Upto(msg, t, n) <= Len(msg.payload)
         /\ Upto(msg, t, n) <= (n - 1) * Mtu(t) + Mtu(t)
         /\ n > 1 => Upto(msg, t, n - 1) = (n - 1) * Mtu(t)
         /\ n = SliceCount(msg, t) => Upto(msg, t, n) = Len(msg.payload)
         /\ n = 1 => (n - 1) * Mtu(t) = 0
<1> DEFINE l == Len(msg.payload)
           m == Mtu(t)
           c == SliceCount(msg, t)
<1>1. l \in Nat \ {0} /\ m \in Nat \ {0}
  BY MtuIsNat
<1>2. c \in Nat \ {0} /\ l <= c * m /\ (c - 1) * m < l
  BY <1>1, DivCeil DEF SliceCount
<1> HIDE DEF l, m, c
<1>3. n \in Nat /\ n - 1 \in Nat /\ c - 1 \in Nat /\ n - 1 <= c - 1 /\ (n - 1) + 1 = n
  BY <1>2 DEF c
<1>4. (n - 1) * m \in Nat /\ (n - 1) * m <= (c - 1) * m /\ n * m = (n - 1) * m + m
  BY <1>1, <1>3, Multiples
<1>5. (n - 1) * m < l
  BY <1>1, <1>2, <1>3, <1>4, Z3
<1>6. n = 1 => (n - 1) * m = 0
  BY <1>1
<1> DEFINE a == (n - 1) * m
           b == n * m
<1>7. a \in Nat /\ b = a + m /\ a < l /\ (n = c => l <= b) /\ (n = 1 => a = 0)
  BY <1>2, <1>4, <1>5, <1>6
<1>8. /\ Upto(msg, t, n) = IF b < l THEN b ELSE l
      /\ Upto(msg, t, n - 1) = IF a < l THEN a ELSE l
      /\ CutSlice(msg, t, n - 1) = SubSeq(msg.payload, a + 1, Upto(msg, t, n))
  BY <1>3 DEF Upto, CutSlice, l, m
<1> HIDE DEF a, b
<1>9. /\ Upto(msg, t, n) \in Nat /\ a < Upto(msg, t, n) /\ Upto(msg, t, n) <= l
      /\ Upto(msg, t, n) <= a + m /\ Upto(msg, t, n - 1) = a
      /\ (n = c => Upto(msg, t, n) = l)
  BY <1>1, <1>7, <1>8
<1> QED  BY <1>7, <1>8, <1>9 DEF a, l, m, c

\* Every slice fits the transport, and none is empty.
LEMMA SliceFits ==
  ASSUME NEW t \in Transport, NEW S, NEW msg, msg.payload \in Seq(S),
         Mtu(t) # 0, Len(msg.payload) # 0, NEW n \in 1 .. SliceCount(msg, t)
  PROVE  /\ CutSlice(msg, t, n - 1) \in Seq(S)
         /\ 0 < Len(CutSlice(msg, t, n - 1)) /\ Len(CutSlice(msg, t, n - 1)) <= Mtu(t)
<1> DEFINE a == (n - 1) * Mtu(t)
           b == Upto(msg, t, n)
<1>1. /\ CutSlice(msg, t, n - 1) = SubSeq(msg.payload, a + 1, b)
      /\ a \in Nat /\ b \in Nat /\ a < b /\ b <= Len(msg.payload) /\ b <= a + Mtu(t)
  BY SliceBounds
<1>2. Mtu(t) \in Nat
  BY MtuIsNat
<1> HIDE DEF a, b
<1>3. \A i \in a + 1 .. b : msg.payload[i] \in S
  BY <1>1, ElementOfSeq
<1>4. /\ SubSeq(msg.payload, a + 1, b) \in Seq(S)
      /\ Len(SubSeq(msg.payload, a + 1, b)) = b - (a + 1) + 1
  BY <1>1, <1>3, SubSeqProperties
<1>5. 0 < b - (a + 1) + 1 /\ b - (a + 1) + 1 <= Mtu(t)
  BY <1>1, <1>2
<1> QED  BY <1>1, <1>4, <1>5

\* The slices split cuts are, concatenated, the payload it cut.
LEMMA SlicesJoin ==
  ASSUME NEW t \in Transport, NEW S, NEW msg, msg.payload \in Seq(S),
         Mtu(t) # 0, Len(msg.payload) # 0
  PROVE  Concat([k \in 1 .. SliceCount(msg, t) |-> CutSlice(msg, t, k - 1)]) = msg.payload
<1> DEFINE p == msg.payload
           c == SliceCount(msg, t)
           ss == [k \in 1 .. c |-> CutSlice(msg, t, k - 1)]
           g == [k \in 1 .. c |-> SubSeq(p, 1, Upto(msg, t, k))]
<1>1. c \in Nat \ {0}
  BY MtuIsNat, DivCeil DEF SliceCount
<1>2. ss \in Seq(Seq(S)) /\ Len(ss) = c
  BY <1>1, SliceFits
<1>3. ASSUME NEW k \in 1 .. c
      PROVE  g[k] = IF k = 1 THEN ss[k] ELSE g[k - 1] \o ss[k]
  <2> DEFINE a == (k - 1) * Mtu(t)
             b == Upto(msg, t, k)
  <2>1. /\ ss[k] = SubSeq(p, a + 1, b) /\ g[k] = SubSeq(p, 1, b)
        /\ a \in Nat /\ b \in Nat /\ a < b /\ b <= Len(p)
        /\ k > 1 => Upto(msg, t, k - 1) = a
        /\ k = 1 => a = 0
    BY SliceBounds
  <2>2. k # 1 => k > 1 /\ k - 1 \in 1 .. c
    BY <1>1
  <2>3. k # 1 => g[k - 1] = SubSeq(p, 1, a)
    BY <2>1, <2>2
  <2> HIDE DEF a, b, g, ss
  <2>4. SubSeq(p, 1, a) \o SubSeq(p, a + 1, b) = SubSeq(p, 1, b)
    <3>1. 1 \in 1 .. Len(p) + 1 /\ a \in 1 - 1 .. Len(p) /\ b \in a .. Len(p)
      BY <2>1
    <3> QED  BY <3>1, ConcatAdjacentSubSeq
  <2>5. CASE k = 1
    <3>1. a + 1 = 1
      BY <2>1, <2>5
    <3> QED  BY <2>1, <2>5, <3>1
  <2>6. CASE k # 1
    BY <2>1, <2>3, <2>4, <2>6
  <2> QED  BY <2>5, <2>6
<1>4. Joins(g, ss)
  BY <1>2, <1>3 DEF Joins
<1>5. Concat(ss) = g[c]
  BY <1>1, <1>2, <1>4, ConcatIsJoin
<1>6. g[c] = SubSeq(p, 1, Len(p))
  <2>1. c \in 1 .. c
    BY <1>1
  <2>2. Upto(msg, t, c) = Len(p)
    BY <2>1, SliceBounds
  <2> QED  BY <2>1, <2>2
<1> QED  BY <1>5, <1>6, SubSeqFull

\* A payload that needs slices is not empty, and two slices are the least.
LEMMA SlicesAreSeveral ==
  ASSUME NEW t \in Transport, NEW S, NEW msg, msg.payload \in Seq(S),
         Mtu(t) # 0, Len(msg.payload) > Mtu(t)
  PROVE  /\ SliceCount(msg, t) \in Nat /\ SliceCount(msg, t) > 1 /\ Len(msg.payload) # 0
         /\ 1 .. SliceCount(msg, t) # {}
<1>1. /\ Mtu(t) \in Nat \ {0} /\ Len(msg.payload) \in Nat \ {0}
  BY MtuIsNat
<1>2. SliceCount(msg, t) \in Nat /\ SliceCount(msg, t) > 1
  BY <1>1, DivCeil DEF SliceCount
<1> QED  BY <1>1, <1>2

\* split loses nothing, whatever the payload and the capacity of the transport: the
\* frames fit the transport, are no more than a message may have, carry one header
\* that numbers them, and their payloads in that order are the payload of the message.
THEOREM SplitIsLossless ==
  ASSUME NEW t \in Transport, NEW S, NEW msg, msg.payload \in Seq(S), msg.frag = NoFrag,
         NEW group_id, ~Unfragmentable(msg, t)
  PROVE  LET frames == Split(msg, t, group_id)
             n == Len(frames)
         IN  /\ n \in Nat \ {0} /\ (n = 1 \/ n <= MAX_FRAGMENTS)
             /\ \A k \in 1 .. n : Len(frames[k].payload) <= Mtu(t)
             /\ n # 1 => \A k \in 1 .. n :
                  frames[k].frag = [group_id |-> group_id, seq |-> k - 1, total |-> n]
             /\ Concat([k \in 1 .. n |-> frames[k].payload]) = msg.payload
<1> DEFINE frames == Split(msg, t, group_id)
           c == SliceCount(msg, t)
<1>1. Mtu(t) # 0 /\ Mtu(t) \in Nat /\ Len(msg.payload) \in Nat
  BY MtuIsNat DEF Unfragmentable
<1>2. CASE Len(msg.payload) <= Mtu(t)
  <2>1. frames = <<msg>>
    BY <1>2 DEF Split
  <2> HIDE DEF frames
  <2>2. Len(frames) = 1 /\ frames[1] = msg /\ \A k \in 1 .. Len(frames) : k = 1
    BY <2>1
  <2>3. Concat([k \in 1 .. Len(frames) |-> frames[k].payload]) = msg.payload
    <3> DEFINE ss == [k \in 1 .. 1 |-> msg.payload]
    <3>1. [k \in 1 .. Len(frames) |-> frames[k].payload] = ss
      BY <2>2
    <3>2. Len(ss) = 1 /\ ss[1] = msg.payload
      OBVIOUS
    <3>3. Joins(ss, ss)
      BY <3>2 DEF Joins
    <3>4. Concat(ss) = ss[Len(ss)]
      <4> HIDE DEF ss
      <4>1. Len(ss) \in Nat \ {0}
        BY <3>2
      <4> QED  BY <3>3, <4>1, ConcatIsJoin
    <3> QED  BY <3>1, <3>2, <3>4
  <2> QED  BY <1>2, <2>2, <2>3 DEF frames
<1>3. CASE ~(Len(msg.payload) <= Mtu(t))
  <2>1. c \in Nat /\ c > 1 /\ Len(msg.payload) # 0
    BY <1>1, <1>3, SlicesAreSeveral
  <2>2. c <= MAX_FRAGMENTS
    BY <1>1, <1>3, <2>1, FragmenterAssumption DEF FragmenterAssumption, Unfragmentable
  <2>3. frames = [k \in 1 .. c |-> SliceOf(msg, t, group_id, k - 1)]
    BY <1>3 DEF Split
  <2>4. Len(frames) = c
    BY <2>1, <2>3
  <2>5. ASSUME NEW k \in 1 .. c
        PROVE  /\ frames[k].payload = CutSlice(msg, t, k - 1)
               /\ frames[k].frag = [group_id |-> group_id, seq |-> k - 1, total |-> c]
    BY <2>3 DEF SliceOf
  <2> HIDE DEF frames, c
  <2>6. [k \in 1 .. c |-> frames[k].payload] = [k \in 1 .. c |-> CutSlice(msg, t, k - 1)]
    BY <2>5
  <2>7. Concat([k \in 1 .. c |-> frames[k].payload]) = msg.payload
    BY <1>1, <2>1, <2>6, SlicesJoin DEF c
  <2>8. \A k \in 1 .. c : Len(frames[k].payload) <= Mtu(t)
    BY <1>1, <2>1, <2>5, SliceFits DEF c
  <2> QED  BY <2>1, <2>2, <2>4, <2>5, <2>7, <2>8 DEF frames
<1> QED  BY <1>2, <1>3

-----------------------------------------------------------------------------
(* The engine as a record: what an update leaves alone.                      *)

IsEngine(r) ==
  r = [self_addr |-> r.self_addr, id_base |-> r.id_base, id_ctr |-> r.id_ctr,
       receivers |-> r.receivers, slots |-> r.slots, seen |-> r.seen,
       registered |-> r.registered]

\* r2 is r but for the receiver table, the id counter and the registered ports.
SameBuffers(r, r2) ==
  IsEngine(r2) /\ r2.self_addr = r.self_addr /\ r2.slots = r.slots /\ r2.seen = r.seen

LEMMA EngineUpdates ==
  ASSUME NEW r, IsEngine(r), NEW x
  PROVE  /\ SameBuffers(r, [r EXCEPT !.receivers = x])
         /\ SameBuffers(r, [r EXCEPT !.registered = x])
         /\ SameBuffers(r, [r EXCEPT !.id_ctr = x])
<1> DEFINE e == [self_addr |-> r.self_addr, id_base |-> r.id_base, id_ctr |-> r.id_ctr,
                 receivers |-> r.receivers, slots |-> r.slots, seen |-> r.seen,
                 registered |-> r.registered]
<1>1. r = e
  BY DEF IsEngine
<1>2. SameBuffers(r, [e EXCEPT !.receivers = x])
  BY DEF SameBuffers, IsEngine
<1>3. SameBuffers(r, [e EXCEPT !.registered = x])
  BY DEF SameBuffers, IsEngine
<1>4. SameBuffers(r, [e EXCEPT !.id_ctr = x])
  BY DEF SameBuffers, IsEngine
<1> HIDE DEF e
<1>5. [r EXCEPT !.receivers = x] = [e EXCEPT !.receivers = x]
  BY <1>1, Zenon
<1>6. [r EXCEPT !.registered = x] = [e EXCEPT !.registered = x]
  BY <1>1, Zenon
<1>7. [r EXCEPT !.id_ctr = x] = [e EXCEPT !.id_ctr = x]
  BY <1>1, Zenon
<1> QED  BY <1>2, <1>3, <1>4, <1>5, <1>6, <1>7, Zenon

\* ingest's update of both buffers.
Rebuffered(r, x, y) == [r EXCEPT !.seen = x, !.slots = y]

LEMMA BuffersUpdate ==
  ASSUME NEW r, IsEngine(r), NEW x, NEW y
  PROVE  LET r2 == Rebuffered(r, x, y)
         IN  IsEngine(r2) /\ r2.self_addr = r.self_addr /\ r2.seen = x /\ r2.slots = y
<1> DEFINE e == [self_addr |-> r.self_addr, id_base |-> r.id_base, id_ctr |-> r.id_ctr,
                 receivers |-> r.receivers, slots |-> r.slots, seen |-> r.seen,
                 registered |-> r.registered]
           e1 == [self_addr |-> r.self_addr, id_base |-> r.id_base, id_ctr |-> r.id_ctr,
                  receivers |-> r.receivers, slots |-> r.slots, seen |-> x,
                  registered |-> r.registered]
           e2 == [self_addr |-> r.self_addr, id_base |-> r.id_base, id_ctr |-> r.id_ctr,
                  receivers |-> r.receivers, slots |-> y, seen |-> x,
                  registered |-> r.registered]
<1>1. r = e
  BY DEF IsEngine
<1>2. [e EXCEPT !.seen = x] = e1
  OBVIOUS
<1>3. [e1 EXCEPT !.slots = y] = e2
  OBVIOUS
<1>4. [e EXCEPT !.seen = x, !.slots = y] = e2
  BY <1>2, <1>3
<1>5. IsEngine(e2) /\ e2.self_addr = r.self_addr /\ e2.seen = x /\ e2.slots = y
  BY DEF IsEngine
<1> HIDE DEF e, e1, e2
<1>6. [r EXCEPT !.seen = x, !.slots = y] = [e EXCEPT !.seen = x, !.slots = y]
  BY <1>1, Zenon
<1>7. Rebuffered(r, x, y) = e2
  BY <1>4, <1>6, Zenon DEF Rebuffered
<1> QED  BY <1>5, <1>7, Zenon

LEMMA FirstIsIn ==
  ASSUME NEW S, S \subseteq SlotIndex, S # {}
  PROVE  First(S) \in S
<1>1. S \subseteq Nat
  BY ReassemblerAssumption DEF ReassemblerAssumption, SlotIndex
<1>2. \E i \in S : \A j \in S : i <= j
  BY <1>1, LeastExists
<1> QED  BY <1>2 DEF First

LEMMA IngestAnswers ==
  ASSUME NEW sl, NEW msg
  PROVE  Ingest(sl, msg).out.tag \in {"Passthrough", "Buffered", "Complete", "Dropped"}
BY DEF Ingest, Passthrough, Buffered, Complete, Dropped

-----------------------------------------------------------------------------
(* The transports a plan addresses, in order.                                *)

Once(s) == \A i, j \in 1 .. Len(s) : s[i] = s[j] => i = j

LEMMA OnceBoth ==
  ASSUME NEW T, NEW s \in Seq(T), NEW u \in Seq(T), Once(s), Once(u),
         \A x : ~(In(x, s) /\ In(x, u))
  PROVE  Once(s \o u) /\ Len(s \o u) = Len(s) + Len(u)
<1> DEFINE w == s \o u
<1>1. /\ Len(w) = Len(s) + Len(u) /\ Len(s) \in Nat /\ Len(u) \in Nat
      /\ \A k \in 1 .. Len(s) + Len(u) : w[k] = IF k <= Len(s) THEN s[k] ELSE u[k - Len(s)]
  BY ConcatProperties
<1> HIDE DEF w
<1>2. ASSUME NEW i \in 1 .. Len(w), NEW j \in 1 .. Len(w), w[i] = w[j], i <= Len(s)
      PROVE  i = j
  <2>1. i \in 1 .. Len(s) /\ w[i] = s[i]
    BY <1>1, <1>2
  <2>2. CASE j <= Len(s)
    <3>1. j \in 1 .. Len(s) /\ w[j] = s[j]
      BY <1>1, <2>2
    <3> QED  BY <1>2, <2>1, <3>1 DEF Once
  <2>3. CASE ~(j <= Len(s))
    <3>1. j - Len(s) \in 1 .. Len(u) /\ w[j] = u[j - Len(s)]
      BY <1>1, <2>3
    <3> QED  BY <1>2, <2>1, <3>1 DEF In
  <2> QED  BY <2>2, <2>3
<1>3. ASSUME NEW i \in 1 .. Len(w), NEW j \in 1 .. Len(w), w[i] = w[j],
             ~(i <= Len(s)), ~(j <= Len(s))
      PROVE  i = j
  <2>1. /\ i - Len(s) \in 1 .. Len(u) /\ w[i] = u[i - Len(s)]
        /\ j - Len(s) \in 1 .. Len(u) /\ w[j] = u[j - Len(s)]
    BY <1>1, <1>3
  <2>2. i - Len(s) = j - Len(s)
    BY <1>3, <2>1 DEF Once
  <2> QED  BY <1>1, <2>2
<1> QED  BY <1>1, <1>2, <1>3 DEF Once, w

\* Every transport of S once.
LEMMA OrderedTransports ==
  ASSUME NEW S
  PROVE  /\ InOrder(S) \in Seq(Transport) /\ Len(InOrder(S)) <= Len(ALL)
         /\ \A t : In(t, InOrder(S)) <=> t \in S \cap Transport
         /\ Once(InOrder(S))
<1> DEFINE pick(k) == IF ALL[k] \in S THEN <<ALL[k]>> ELSE <<>>
           ss == [k \in DOMAIN ALL |-> pick(k)]
<1>1. /\ Len(ALL) = 3 /\ DOMAIN ALL = 1 .. 3 /\ 1 .. 3 = {1, 2, 3}
      /\ ALL[1] = "Lora" /\ ALL[2] = "Mqtt" /\ ALL[3] = "EspNow"
  BY DEF ALL
<1>2. Transport = {"Lora", "Mqtt", "EspNow"}
  BY <1>1 DEF Transport
<1>3. \A k \in 1 .. 3 : pick(k) \in Seq(Transport)
  BY <1>1, <1>2
<1>4. ss \in Seq(Seq(Transport)) /\ Len(ss) = 3 /\ \A k \in 1 .. 3 : ss[k] = pick(k)
  <2> HIDE DEF pick
  <2> QED  BY <1>1, <1>3
<1>5. InOrder(S) = Ext!FlattenSeq(ss)
  BY DEF InOrder
<1> HIDE DEF ss
<1>6. /\ InOrder(S) \in Seq(Transport)
      /\ \A t : In(t, InOrder(S)) <=> \E k \in 1 .. 3 : In(t, pick(k))
  <2> HIDE DEF pick
  <2>1. Len(ss) # 0 /\ 1 .. Len(ss) = 1 .. 3
    BY <1>4
  <2>2. /\ InOrder(S) \in Seq(Transport)
        /\ \A t : In(t, InOrder(S)) <=> \E k \in 1 .. Len(ss) : In(t, ss[k])
    BY <1>4, <1>5, <2>1, FlattenElements
  <2> QED  BY <1>4, <2>1, <2>2
<1>7. \A t : In(t, InOrder(S)) <=> t \in S \cap Transport
  <2>1. \A t, k : k \in 1 .. 3 => (In(t, pick(k)) <=> t = ALL[k] /\ t \in S)
    BY DEF In
  <2> HIDE DEF pick
  <2>2. \A t : In(t, InOrder(S)) <=> \E k \in 1 .. 3 : t = ALL[k] /\ t \in S
    BY <1>6, <2>1
  <2> QED  BY <2>2, <1>1, <1>2
<1>8. InOrder(S) = (pick(1) \o pick(2)) \o pick(3)
  <2> DEFINE g == [i \in 1 .. 3 |-> IF i = 1 THEN pick(1) ELSE
                                    IF i = 2 THEN pick(1) \o pick(2)
                                    ELSE (pick(1) \o pick(2)) \o pick(3)]
  <2> HIDE DEF pick
  <2>1. g[1] = pick(1) /\ g[2] = g[1] \o pick(2) /\ g[3] = g[2] \o pick(3)
    OBVIOUS
  <2>2. \A i \in 1 .. 3 : g[i] = IF i = 1 THEN ss[i] ELSE g[i - 1] \o ss[i]
    <3>1. \A i \in 1 .. 3 : i = 1 \/ i = 2 \/ i = 3
      OBVIOUS
    <3>2. 2 - 1 = 1 /\ 3 - 1 = 2 /\ 2 # 1 /\ 3 # 1
      OBVIOUS
    <3>3. ss[1] = pick(1) /\ ss[2] = pick(2) /\ ss[3] = pick(3)
      BY <1>4
    <3> HIDE DEF g
    <3> QED  BY <3>1, <3>2, <3>3, <2>1
  <2>3. Joins(g, ss)
    <3>1. g = [i \in 1 .. 3 |-> g[i]]
      OBVIOUS
    <3> HIDE DEF g
    <3> QED  BY <1>4, <2>2, <3>1 DEF Joins
  <2>4. Concat(ss) = g[3]
    <3> HIDE DEF g
    <3>1. Len(ss) \in Nat \ {0} /\ Len(ss) = 3
      BY <1>4
    <3> QED  BY <2>3, <3>1, ConcatIsJoin
  <2> QED  BY <1>5, <2>1, <2>4 DEF Concat
<1>9. Len(InOrder(S)) <= 3 /\ Once(InOrder(S))
  <2>1. \A k \in 1 .. 3 : Len(pick(k)) \in 0 .. 1 /\ Once(pick(k)) /\ \A x : In(x, pick(k)) => x = ALL[k]
    BY DEF Once, In
  <2> HIDE DEF pick
  <2>2. /\ pick(1) \in Seq(Transport) /\ pick(2) \in Seq(Transport) /\ pick(3) \in Seq(Transport)
        /\ Once(pick(1)) /\ Once(pick(2)) /\ Once(pick(3))
        /\ \A x : (In(x, pick(1)) => x = "Lora") /\ (In(x, pick(2)) => x = "Mqtt")
               /\ (In(x, pick(3)) => x = "EspNow")
    BY <1>1, <1>3, <2>1
  <2> DEFINE ab == pick(1) \o pick(2)
  <2>3. Once(ab) /\ Len(ab) = Len(pick(1)) + Len(pick(2))
    BY <2>2, OnceBoth
  <2>4. ab \in Seq(Transport) /\ \A x : In(x, ab) => x = "Lora" \/ x = "Mqtt"
    BY <2>2, InBoth
  <2>5. InOrder(S) = ab \o pick(3)
    BY <1>8
  <2> HIDE DEF ab
  <2>6. Once(ab \o pick(3)) /\ Len(ab \o pick(3)) = Len(ab) + Len(pick(3))
    <3>1. \A x : ~(In(x, ab) /\ In(x, pick(3)))
      BY <2>2, <2>4
    <3> QED  BY <2>2, <2>3, <2>4, <3>1, OnceBoth
  <2>7. /\ Len(pick(1)) \in 0 .. 1 /\ Len(pick(2)) \in 0 .. 1 /\ Len(pick(3)) \in 0 .. 1
    BY <2>1
  <2>8. ASSUME NEW x \in 0 .. 1, NEW y \in 0 .. 1, NEW z \in 0 .. 1 PROVE (x + y) + z <= 3
    OBVIOUS
  <2>9. Len(ab \o pick(3)) <= 3
    BY <2>3, <2>6, <2>7, <2>8
  <2> QED  BY <2>5, <2>6, <2>9, Zenon
<1> QED  BY <1>1, <1>6, <1>7, <1>9

-----------------------------------------------------------------------------
(* The frames of a message on one transport, and those of a plan.            *)

Pieces(msg, t, g) == {msg} \cup {SliceOf(msg, t, g, q) : q \in Nat}

LEMMA SplitPieces ==
  ASSUME NEW t \in Transport, NEW msg, msg.payload \in Seq(Nat), NEW g, msg.frag = NoFrag
  PROVE  Split(msg, t, g) \in Seq(Pieces(msg, t, g))
<1>1. CASE Unfragmentable(msg, t)
  BY <1>1 DEF Split
<1>2. CASE ~Unfragmentable(msg, t) /\ Len(msg.payload) <= Mtu(t)
  <2>1. Split(msg, t, g) = <<msg>> /\ msg \in Pieces(msg, t, g)
    BY <1>2 DEF Split, Pieces
  <2> QED  BY <2>1
<1>3. CASE ~Unfragmentable(msg, t) /\ ~(Len(msg.payload) <= Mtu(t))
  <2> DEFINE n == SliceCount(msg, t)
  <2>1. Mtu(t) # 0 /\ Mtu(t) \in Nat /\ Len(msg.payload) \in Nat
    BY <1>3, MtuIsNat DEF Unfragmentable
  <2>2. n \in Nat
    BY <1>3, <2>1, SlicesAreSeveral
  <2>3. Split(msg, t, g) = [k \in 1 .. n |-> SliceOf(msg, t, g, k - 1)]
    BY <1>3 DEF Split
  <2>4. \A k \in 1 .. n : SliceOf(msg, t, g, k - 1) \in Pieces(msg, t, g)
    BY <2>2 DEF Pieces
  <2> HIDE DEF n
  <2> QED  BY <2>2, <2>3, <2>4
<1> QED  BY <1>1, <1>2, <1>3

\* A frame over t that carries the id and sender of a message, and group g if a slice.
FrameOf(f, t, msg, g) ==
  /\ f.transport = t /\ f.message.id = msg.id /\ f.message.from = msg.from
  /\ f.message.frag # NoFrag => f.message.frag.group_id = g

LEMMA PlannedFrames ==
  ASSUME NEW t \in Transport, NEW msg, msg.payload \in Seq(Nat), NEW g, msg.frag = NoFrag,
         NEW addr
  PROVE  LET frames == Planned(t, addr, Split(msg, t, g))
         IN  /\ frames \in Seq([transport : {t}, addr : {addr}, message : Pieces(msg, t, g)])
             /\ Len(frames) = Len(Split(msg, t, g))
             /\ \A x : In(x, frames) => FrameOf(x, t, msg, g)
<1> DEFINE s == Split(msg, t, g)
           X == Pieces(msg, t, g)
           T == [transport : {t}, addr : {addr}, message : X]
           frames == Planned(t, addr, s)
<1>1. s \in Seq(X) /\ Len(s) \in Nat /\ DOMAIN s = 1 .. Len(s) /\ \A k \in 1 .. Len(s) : s[k] \in X
  <2>1. s \in Seq(X)
    BY SplitPieces
  <2> HIDE DEF s, X
  <2> QED  BY <2>1, ElementOfSeq
<1>2. \A x \in X : /\ x.id = msg.id /\ x.from = msg.from
                   /\ x.frag # NoFrag => x.frag.group_id = g
  BY DEF Pieces, SliceOf
<1> HIDE DEF s, X
<1>3. frames = [k \in 1 .. Len(s) |-> [transport |-> t, addr |-> addr, message |-> s[k]]]
  BY <1>1 DEF Planned
<1>4. \A k \in 1 .. Len(s) : [transport |-> t, addr |-> addr, message |-> s[k]] \in T
  BY <1>1
<1>5. frames \in Seq(T) /\ Len(frames) = Len(s)
  <2> HIDE DEF T
  <2> QED  BY <1>1, <1>3, <1>4
<1>6. ASSUME NEW x, In(x, frames) PROVE FrameOf(x, t, msg, g)
  <2>1. PICK k \in 1 .. Len(s) : frames[k] = x
    BY <1>5, <1>6 DEF In
  <2>2. x.transport = t /\ x.message = s[k] /\ s[k] \in X
    BY <1>1, <1>3, <2>1
  <2> QED  BY <1>2, <2>2 DEF FrameOf
<1> QED  BY <1>5, <1>6 DEF s, X

\* The message plan_send makes of a payload, for one of its targets.
Made(r, t, payload, dest) ==
  Prepare(NextId(r), DEFAULT_TTL, t, r.self_addr, dest, "Text", payload)

\* A plan abandoned, with the ids it took until then.
PlanRefused(r, plan, ts) ==
  /\ plan.frames = <<>> /\ plan.err # "Ok"
  /\ plan.err = "UnknownReceiver" => ts = <<>>
  /\ plan.relay = r \/ \E n \in 1 .. 1 + Len(ts) : plan.relay = TakeIds(r, n)

\* A plan with frames for every target, the k-th under the k-th group.
PlanMade(r, plan, ts, payload, dest) ==
  /\ plan.err = "Ok" /\ plan.relay = TakeIds(r, 1 + Len(ts))
  /\ \A x : In(x, plan.frames) =>
       \E k \in 1 .. Len(ts) : FrameOf(x, ts[k], Made(r, ts[k], payload, dest), GroupFor(r, k))
  /\ \A k \in 1 .. Len(ts) : \E x : In(x, plan.frames) /\ x.transport = ts[k]
  /\ Len(plan.frames) \in Nat /\ DOMAIN plan.frames = 1 .. Len(plan.frames)

LEMMA PlanSendFrames ==
  ASSUME NEW r, NEW payload \in Seq(Nat), NEW dest
  PROVE  \/ PlanRefused(r, PlanSend(r, "Text", payload, dest), ResolveTargets(r, dest))
         \/ PlanMade(r, PlanSend(r, "Text", payload, dest), ResolveTargets(r, dest), payload, dest)
<1> DEFINE ts == ResolveTargets(r, dest)
           plan == PlanSend(r, "Text", payload, dest)
           split(k) == Split(Made(r, ts[k], payload, dest), ts[k], GroupFor(r, k))
           failing == {k \in DOMAIN ts : split(k) = <<>>}
           part(k) == Planned(ts[k], dest, split(k))
           ss == [k \in DOMAIN ts |-> part(k)]
<1>1. plan = IF r.registered = {} THEN Refused(r, "NoPortsRegistered")
             ELSE IF ts = <<>> THEN Refused(r, "UnknownReceiver")
             ELSE IF ~FitsMessage(payload) THEN Refused(TakeIds(r, 1), "PayloadTooLarge")
             ELSE IF failing # {} THEN Refused(TakeIds(r, 1 + First(failing)), "PayloadUnfragmentable")
             ELSE [relay |-> TakeIds(r, 1 + Len(ts)), frames |-> Ext!FlattenSeq(ss), err |-> "Ok"]
  BY Zenon DEF PlanSend, Made
<1>2. ts \in Seq(Transport) /\ Len(ts) \in Nat /\ DOMAIN ts = 1 .. Len(ts)
      /\ \A k \in 1 .. Len(ts) : ts[k] \in Transport
  <2>1. ts \in Seq(Transport)
    BY OrderedTransports DEF ResolveTargets
  <2> HIDE DEF ts
  <2> QED  BY <2>1, ElementOfSeq
<1> HIDE DEF ts, plan
<1> DEFINE T(k) == [transport : {ts[k]}, addr : {dest},
                    message : Pieces(Made(r, ts[k], payload, dest), ts[k], GroupFor(r, k))]
           U == UNION {T(k) : k \in 1 .. Len(ts)}
<1>3. ASSUME NEW k \in 1 .. Len(ts)
      PROVE  /\ part(k) \in Seq(T(k)) /\ Len(part(k)) = Len(split(k))
             /\ \A x : In(x, part(k)) => FrameOf(x, ts[k], Made(r, ts[k], payload, dest), GroupFor(r, k))
  <2> DEFINE m == Made(r, ts[k], payload, dest)
  <2>1. m.payload \in Seq(Nat) /\ m.frag = NoFrag
    BY DEF Made, Prepare
  <2>2. ts[k] \in Transport
    BY <1>2
  <2> HIDE DEF m
  <2>3. /\ part(k) \in Seq([transport : {ts[k]}, addr : {dest}, message : Pieces(m, ts[k], GroupFor(r, k))])
        /\ Len(part(k)) = Len(split(k))
        /\ \A x : In(x, part(k)) => FrameOf(x, ts[k], m, GroupFor(r, k))
    BY <2>1, <2>2, PlannedFrames DEF m
  <2> QED  BY <2>3 DEF m
<1> HIDE DEF part, split, T
<1>4. failing # {} => First(failing) \in 1 .. Len(ts)
  <2>1. failing \subseteq 1 .. Len(ts)
    BY <1>2
  <2> HIDE DEF failing
  <2>2. ASSUME failing # {} PROVE First(failing) \in failing
    <3>1. failing \subseteq Nat
      BY <1>2, <2>1
    <3>2. PICK i \in failing : \A j \in failing : i <= j
      BY <2>2, <3>1, LeastExists
    <3> QED  BY <3>2 DEF First
  <2> QED  BY <2>1, <2>2
<1>5. \A k \in 1 .. Len(ts) : split(k) = <<>> => failing # {}
  BY <1>2
<1> HIDE DEF failing
<1>6. CASE r.registered = {} \/ ts = <<>>
  <2>1. plan = Refused(r, "NoPortsRegistered") \/ (plan = Refused(r, "UnknownReceiver") /\ ts = <<>>)
    BY <1>1, <1>6
  <2>2. PlanRefused(r, plan, ts)
    BY <2>1 DEF Refused, PlanRefused
  <2> QED  BY <2>2 DEF ts, plan
<1>7. CASE ~(r.registered = {} \/ ts = <<>>) /\ (~FitsMessage(payload) \/ failing # {})
  <2>1. 1 \in 1 .. 1 + Len(ts) /\ (failing # {} => 1 + First(failing) \in 1 .. 1 + Len(ts))
    BY <1>2, <1>4
  <2>2. PICK n \in 1 .. 1 + Len(ts), err \in {"PayloadTooLarge", "PayloadUnfragmentable"} :
          plan = Refused(TakeIds(r, n), err)
    BY <1>1, <1>7, <2>1
  <2>3. PlanRefused(r, plan, ts)
    BY <2>2 DEF Refused, PlanRefused
  <2> QED  BY <2>3 DEF ts, plan
<1>8. CASE ~(r.registered = {} \/ ts = <<>>) /\ FitsMessage(payload) /\ failing = {}
  <2>1. plan.err = "Ok" /\ plan.relay = TakeIds(r, 1 + Len(ts)) /\ plan.frames = Ext!FlattenSeq(ss)
    BY <1>1, <1>8
  <2>2. Len(ts) # 0
    BY <1>2, <1>8
  <2>3. ss \in Seq(Seq(U)) /\ Len(ss) = Len(ts) /\ \A k \in 1 .. Len(ts) : ss[k] = part(k)
    <3>1. \A k \in 1 .. Len(ts) : part(k) \in Seq(U)
      <4> SUFFICES ASSUME NEW k \in 1 .. Len(ts) PROVE part(k) \in Seq(U)
        OBVIOUS
      <4>1. T(k) \subseteq U
        OBVIOUS
      <4> HIDE DEF U
      <4> QED  BY <1>3, <4>1, ElementOfSeq
    <3> HIDE DEF U
    <3> QED  BY <1>2, <3>1
  <2> HIDE DEF ss, U
  <2>4. /\ plan.frames \in Seq(U)
        /\ \A x : In(x, plan.frames) <=> \E k \in 1 .. Len(ts) : In(x, part(k))
    BY <2>1, <2>2, <2>3, FlattenElements
  <2>5. ASSUME NEW k \in 1 .. Len(ts) PROVE \E x : In(x, plan.frames) /\ x.transport = ts[k]
    <3>1. split(k) # <<>>
      BY <1>5, <1>8
    <3>2. Len(split(k)) # 0
      <4>1. split(k) \in Seq(Pieces(Made(r, ts[k], payload, dest), ts[k], GroupFor(r, k)))
        <5>1. Made(r, ts[k], payload, dest).payload \in Seq(Nat) /\ Made(r, ts[k], payload, dest).frag = NoFrag
          BY DEF Made, Prepare
        <5>2. ts[k] \in Transport
          BY <1>2
        <5> QED  BY <5>1, <5>2, SplitPieces DEF split
      <4> QED  BY <3>1, <4>1
    <3>3. Len(part(k)) \in Nat /\ Len(part(k)) # 0
      BY <1>3, <3>2
    <3>4. In(part(k)[1], part(k))
      BY <3>3 DEF In
    <3> QED  BY <1>3, <2>4, <3>4 DEF FrameOf
  <2>6. ASSUME NEW x, In(x, plan.frames)
        PROVE  \E k \in 1 .. Len(ts) : FrameOf(x, ts[k], Made(r, ts[k], payload, dest), GroupFor(r, k))
    BY <1>3, <2>4, <2>6
  <2>7. Len(plan.frames) \in Nat /\ DOMAIN plan.frames = 1 .. Len(plan.frames)
    BY <2>4
  <2>8. PlanMade(r, plan, ts, payload, dest)
    BY <2>1, <2>5, <2>6, <2>7 DEF PlanMade
  <2> QED  BY <2>8 DEF ts, plan
<1> QED  BY <1>6, <1>7, <1>8

=============================================================================

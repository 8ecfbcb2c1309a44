------------------------ MODULE ReceiverTableLemmas ------------------------
(***************************************************************************)
(* What the operations of a receiver table do to any well-formed table and *)
(* to the map it stands for.                                               *)
(***************************************************************************)
EXTENDS PeerTable, FiniteSets, SequenceTheorems, FiniteSetTheorems, TLAPS

LEMMA RowFacts ==
  ASSUME NEW rs, WellFormed(rs), NEW i \in 1 .. Len(rs)
  PROVE  /\ rs[i] = [addr |-> rs[i].addr, transports |-> rs[i].transports]
         /\ rs[i] \in Row /\ rs[i].addr \in Peer
         /\ rs[i].transports \subseteq Transport /\ rs[i].transports # {}
<1>1. rs[i] \in Row  BY ElementOfSeq DEF WellFormed
<1> QED  BY <1>1 DEF Row

LEMMA TableShape ==
  ASSUME NEW rs, WellFormed(rs)
  PROVE  Len(rs) \in Nat /\ DOMAIN rs = 1 .. Len(rs) /\ rs \in Seq(Row)
BY LenProperties DEF WellFormed

\* In a well-formed table position finds the one row of the address.
LEMMA PositionOfRow ==
  ASSUME NEW rs, WellFormed(rs), NEW i \in 1 .. Len(rs)
  PROVE  Known(rs, rs[i].addr) /\ Position(rs, rs[i].addr) = i
<1>1. DOMAIN rs = 1 .. Len(rs) /\ Len(rs) \in Nat  BY TableShape
<1>2. RowsOf(rs, rs[i].addr) = {i}
  BY <1>1 DEF RowsOf, WellFormed
<1>3. \A j \in {i} : i <= j  BY <1>1
<1> QED  BY <1>2, <1>3, Zenon DEF Known, Position

LEMMA KnownHasRow ==
  ASSUME NEW rs, WellFormed(rs), NEW p, Known(rs, p)
  PROVE  /\ Position(rs, p) \in 1 .. Len(rs)
         /\ rs[Position(rs, p)].addr = p
         /\ TransportsFor(rs, p) = rs[Position(rs, p)].transports
<1>1. PICK i \in 1 .. Len(rs) : rs[i].addr = p
  BY TableShape DEF Known, RowsOf
<1>2. Position(rs, p) = i  BY <1>1, PositionOfRow
<1> QED  BY <1>1, <1>2 DEF TransportsFor

\* A map that agrees with every row and is empty elsewhere is the table's map.
LEMMA RouteMapIs ==
  ASSUME NEW rs, WellFormed(rs), NEW f \in [Peer -> SUBSET Transport],
         \A i \in 1 .. Len(rs) : f[rs[i].addr] = rs[i].transports,
         \A p \in Peer : (\A i \in 1 .. Len(rs) : rs[i].addr # p) => f[p] = {}
  PROVE  RouteMap(rs) = f
<1>1. SUFFICES ASSUME NEW p \in Peer
               PROVE  (IF Known(rs, p) THEN TransportsFor(rs, p) ELSE {}) = f[p]
  BY DEF RouteMap
<1>2. CASE Known(rs, p)
  BY <1>2, KnownHasRow
<1>3. CASE ~Known(rs, p)
  <2>1. \A i \in 1 .. Len(rs) : rs[i].addr # p
    BY <1>3, TableShape DEF Known, RowsOf
  <2> QED  BY <2>1, <1>3
<1> QED  BY <1>2, <1>3

LEMMA RouteMapAt ==
  ASSUME NEW rs, WellFormed(rs)
  PROVE  /\ RouteMap(rs) \in [Peer -> SUBSET Transport]
         /\ \A i \in 1 .. Len(rs) : RouteMap(rs)[rs[i].addr] = rs[i].transports
         /\ \A p \in Peer : ~Known(rs, p) => RouteMap(rs)[p] = {}
         /\ \A p \in Peer : RouteMap(rs)[p] # {} <=> Known(rs, p)
<1>1. ASSUME NEW p \in Peer, Known(rs, p)
      PROVE  TransportsFor(rs, p) \subseteq Transport /\ TransportsFor(rs, p) # {}
  <2>1. PICK k \in 1 .. Len(rs) : TransportsFor(rs, p) = rs[k].transports
    BY <1>1, KnownHasRow
  <2> QED  BY <2>1, RowFacts
<1>2. \A i \in 1 .. Len(rs) : RouteMap(rs)[rs[i].addr] = rs[i].transports
  BY PositionOfRow, RowFacts DEF RouteMap, TransportsFor
<1> QED  BY <1>1, <1>2 DEF RouteMap

\* Replacing the transports of a row keeps the table well formed.
LEMMA WithTransportsKeeps ==
  ASSUME NEW rs, WellFormed(rs), NEW i \in 1 .. Len(rs),
         NEW ts \in SUBSET Transport, ts # {}
  PROVE  /\ WellFormed(WithTransports(rs, i, ts))
         /\ RouteMap(WithTransports(rs, i, ts)) = [RouteMap(rs) EXCEPT ![rs[i].addr] = ts]
<1> DEFINE row == [addr |-> rs[i].addr, transports |-> ts]
           new == WithTransports(rs, i, ts)
<1>1. row \in Row /\ rs \in Seq(Row)  BY RowFacts, TableShape DEF Row
<1>2. /\ new \in Seq(Row) /\ Len(new) = Len(rs)
      /\ \A j \in 1 .. Len(rs) : new[j] = IF j = i THEN row ELSE rs[j]
  <2> HIDE DEF row
  <2>1. new = [rs EXCEPT ![i] = row]  BY DEF WithTransports, row
  <2> QED  BY <1>1, <2>1, ExceptSeq
<1>3. \A j \in 1 .. Len(rs) : new[j].addr = rs[j].addr
  BY <1>2
<1>4. WellFormed(new)
  BY <1>2, <1>3 DEF WellFormed
<1>5. RouteMap(new) = [RouteMap(rs) EXCEPT ![rs[i].addr] = ts]
  <2> DEFINE f == [RouteMap(rs) EXCEPT ![rs[i].addr] = ts]
  <2>1. RouteMap(rs) \in [Peer -> SUBSET Transport]  BY RouteMapAt
  <2>2. f \in [Peer -> SUBSET Transport]  BY <2>1
  <2>3. ASSUME NEW j \in 1 .. Len(new)
        PROVE  f[new[j].addr] = new[j].transports
    <3>1. j \in 1 .. Len(rs) /\ rs[j].addr \in Peer /\ new[j].addr = rs[j].addr
      BY <1>2, <1>3, RowFacts
    <3>2. CASE j = i
      BY <3>1, <3>2, <1>2, <2>1
    <3>3. CASE j # i
      <4>1. rs[j].addr # rs[i].addr  BY <3>1, <3>3 DEF WellFormed
      <4>2. new[j] = rs[j]  BY <1>2, <3>1, <3>3
      <4> QED  BY <3>1, <4>1, <4>2, <2>1, RouteMapAt
    <3> QED  BY <3>2, <3>3
  <2>4. ASSUME NEW p \in Peer, \A j \in 1 .. Len(new) : new[j].addr # p
        PROVE  f[p] = {}
    <3>1. \A j \in 1 .. Len(rs) : rs[j].addr # p  BY <2>4, <1>2, <1>3
    <3>2. ~Known(rs, p)  BY <3>1, TableShape DEF Known, RowsOf
    <3> QED  BY <3>1, <3>2, <2>1, RouteMapAt
  <2> HIDE DEF f, new
  <2> QED  BY <1>4, <2>2, <2>3, <2>4, RouteMapIs DEF f
<1> QED  BY <1>4, <1>5

\* Appending a row for an unknown peer.
LEMMA AppendKeeps ==
  ASSUME NEW rs, WellFormed(rs), NEW p \in Peer, NEW t \in Transport,
         ~Known(rs, p), Len(rs) < NR
  PROVE  LET new == Append(rs, [addr |-> p, transports |-> {t}])
         IN  WellFormed(new) /\ RouteMap(new) = [RouteMap(rs) EXCEPT ![p] = {t}]
<1> DEFINE row == [addr |-> p, transports |-> {t}]
           new == Append(rs, row)
<1>1. row \in Row  BY DEF Row
<1>2. Len(rs) \in Nat /\ rs \in Seq(Row) /\ NR \in Nat
  BY TableShape, TableAssumption DEF TableAssumption
<1>3. /\ new \in Seq(Row) /\ Len(new) = Len(rs) + 1
      /\ \A j \in 1 .. Len(rs) : new[j] = rs[j]
      /\ new[Len(rs) + 1] = row
  <2> HIDE DEF row
  <2> QED  BY <1>1, <1>2, AppendProperties
<1>4. \A j \in 1 .. Len(rs) : rs[j].addr # p
  BY TableShape DEF Known, RowsOf
<1>5. \A j \in 1 .. Len(new) : j \in 1 .. Len(rs) \/ j = Len(rs) + 1
  BY <1>2, <1>3
<1>6. WellFormed(new)
  <2>1. ASSUME NEW i \in 1 .. Len(new), NEW j \in 1 .. Len(new), new[i].addr = new[j].addr
        PROVE  i = j
    <3>1. row.addr = p  OBVIOUS
    <3>2. CASE i \in 1 .. Len(rs) /\ j \in 1 .. Len(rs)
      BY <3>2, <2>1, <1>3 DEF WellFormed
    <3>3. CASE i = Len(rs) + 1 /\ j \in 1 .. Len(rs)
      BY <3>1, <3>3, <2>1, <1>3, <1>4
    <3>4. CASE j = Len(rs) + 1 /\ i \in 1 .. Len(rs)
      BY <3>1, <3>4, <2>1, <1>3, <1>4
    <3> QED  BY <3>2, <3>3, <3>4, <1>5
  <2>2. Len(new) <= NR  BY <1>2, <1>3
  <2> QED  BY <1>3, <2>1, <2>2 DEF WellFormed
<1>7. RouteMap(new) = [RouteMap(rs) EXCEPT ![p] = {t}]
  <2> DEFINE f == [RouteMap(rs) EXCEPT ![p] = {t}]
  <2>1. RouteMap(rs) \in [Peer -> SUBSET Transport]  BY RouteMapAt
  <2>2. f \in [Peer -> SUBSET Transport]  BY <2>1
  <2>3. \A j \in 1 .. Len(new) : f[new[j].addr] = new[j].transports
    <3>1. ASSUME NEW j \in 1 .. Len(rs) PROVE f[rs[j].addr] = rs[j].transports
      BY <3>1, <1>4, <2>1, RouteMapAt, RowFacts
    <3>2. f[row.addr] = row.transports  BY <2>1
    <3> QED  BY <3>1, <3>2, <1>3, <1>5
  <2>4. ASSUME NEW q \in Peer, \A j \in 1 .. Len(new) : new[j].addr # q
        PROVE  f[q] = {}
    <3>1. Len(rs) + 1 \in 1 .. Len(new) /\ row.addr = p  BY <1>2, <1>3
    <3>2. q # p  BY <3>1, <2>4, <1>3
    <3>3. \A j \in 1 .. Len(rs) : rs[j].addr # q
      <4>1. \A j \in 1 .. Len(rs) : j \in 1 .. Len(new)  BY <1>2, <1>3
      <4> QED  BY <4>1, <2>4, <1>3
    <3>4. ~Known(rs, q)  BY <3>3, TableShape DEF Known, RowsOf
    <3> QED  BY <3>2, <3>4, <2>1, RouteMapAt
  <2> HIDE DEF f, new
  <2> QED  BY <1>6, <2>2, <2>3, <2>4, RouteMapIs DEF f
<1> QED  BY <1>6, <1>7

\* swap_remove drops row i and keeps every other row.
LEMMA SwapRemoveRows ==
  ASSUME NEW rs, WellFormed(rs), NEW i \in 1 .. Len(rs)
  PROVE  /\ SwapRemove(rs, i) \in Seq(Row) /\ Len(SwapRemove(rs, i)) = Len(rs) - 1
         /\ \A j \in 1 .. Len(rs) - 1 :
              SwapRemove(rs, i)[j] = IF j = i THEN rs[Len(rs)] ELSE rs[j]
<1> DEFINE last == rs[Len(rs)]
           moved == [rs EXCEPT ![i] = last]
<1>1. Len(rs) \in Nat /\ rs \in Seq(Row) /\ Len(rs) >= 1 /\ Len(rs) - 1 \in Int
  BY TableShape
<1>2. last \in Row  BY <1>1, ElementOfSeq
<1>3. /\ moved \in Seq(Row)
      /\ \A j \in 1 .. Len(rs) : moved[j] = IF j = i THEN last ELSE rs[j]
  <2> HIDE DEF last
  <2> QED  BY <1>1, <1>2, ExceptSeq
<1>4. \A j \in 1 .. Len(rs) - 1 : j \in 1 .. Len(rs) /\ moved[j] \in Row
  <2>1. \A j \in 1 .. Len(rs) : rs[j] \in Row  BY <1>1, ElementOfSeq
  <2>2. \A j \in 1 .. Len(rs) - 1 : j \in 1 .. Len(rs)  BY <1>1
  <2> QED  BY <2>1, <2>2, <1>2, <1>3
<1>5. SwapRemove(rs, i) = SubSeq(moved, 1, Len(rs) - 1)  BY DEF SwapRemove
<1> HIDE DEF moved
<1>6. /\ SubSeq(moved, 1, Len(rs) - 1) \in Seq(Row)
      /\ Len(SubSeq(moved, 1, Len(rs) - 1)) = IF 1 <= Len(rs) - 1 THEN Len(rs) - 1 - 1 + 1 ELSE 0
      /\ \A j \in 1 .. Len(rs) - 1 - 1 + 1 : SubSeq(moved, 1, Len(rs) - 1)[j] = moved[1 + j - 1]
  BY <1>1, <1>4, SubSeqProperties
<1>7. Len(SubSeq(moved, 1, Len(rs) - 1)) = Len(rs) - 1
  <2>1. ASSUME NEW n \in Nat, n >= 1
        PROVE  (IF 1 <= n - 1 THEN n - 1 - 1 + 1 ELSE 0) = n - 1
    BY <2>1
  <2> QED  BY <1>1, <1>6, <2>1, Zenon
<1>8. ASSUME NEW j \in 1 .. Len(rs) - 1
      PROVE  SubSeq(moved, 1, Len(rs) - 1)[j] = IF j = i THEN rs[Len(rs)] ELSE rs[j]
  <2>1. j \in 1 .. Len(rs) - 1 - 1 + 1 /\ 1 + j - 1 = j /\ j \in 1 .. Len(rs)  BY <1>1
  <2>2. SubSeq(moved, 1, Len(rs) - 1)[j] = moved[j]  BY <1>6, <2>1
  <2> QED  BY <2>1, <2>2, <1>3
<1> QED  BY <1>5, <1>6, <1>7, <1>8

\* Removing a row removes its peer from the map and no other.
LEMMA SwapRemoveKeeps ==
  ASSUME NEW rs, WellFormed(rs), NEW i \in 1 .. Len(rs)
  PROVE  /\ WellFormed(SwapRemove(rs, i))
         /\ RouteMap(SwapRemove(rs, i)) = [RouteMap(rs) EXCEPT ![rs[i].addr] = {}]
<1> DEFINE new == SwapRemove(rs, i)
           from(j) == IF j = i THEN Len(rs) ELSE j
<1>1. Len(rs) \in Nat /\ Len(rs) >= 1 /\ i \in 1 .. Len(rs)  BY TableShape
<1>2. new \in Seq(Row) /\ Len(new) = Len(rs) - 1  BY SwapRemoveRows
<1>3. ASSUME NEW j \in 1 .. Len(new)
      PROVE  from(j) \in 1 .. Len(rs) /\ from(j) # i /\ new[j] = rs[from(j)]
  BY <1>1, <1>2, SwapRemoveRows
<1>4. ASSUME NEW k \in 1 .. Len(rs), k # i
      PROVE  \E j \in 1 .. Len(new) : from(j) = k
  <2>1. CASE k = Len(rs)
    <3>1. i \in 1 .. Len(new) /\ from(i) = k  BY <1>1, <1>2, <1>4, <2>1
    <3> QED  BY <3>1
  <2>2. CASE k # Len(rs)
    <3>1. k \in 1 .. Len(new) /\ from(k) = k  BY <1>1, <1>2, <1>4, <2>2
    <3> QED  BY <3>1
  <2> QED  BY <2>1, <2>2
<1>5. ASSUME NEW j \in 1 .. Len(new), NEW k \in 1 .. Len(new), from(j) = from(k)
      PROVE  j = k
  BY <1>1, <1>2, <1>5
<1> HIDE DEF from
<1>6. WellFormed(new)
  <2>1. ASSUME NEW j \in 1 .. Len(new), NEW k \in 1 .. Len(new), new[j].addr = new[k].addr
        PROVE  j = k
    <3>1. from(j) = from(k)  BY <2>1, <1>3 DEF WellFormed
    <3> QED  BY <3>1, <1>5
  <2>2. Len(new) <= NR  BY <1>1, <1>2, TableAssumption DEF WellFormed, TableAssumption
  <2> HIDE DEF new
  <2> QED  BY <1>2, <2>1, <2>2 DEF WellFormed
<1>7. RouteMap(new) = [RouteMap(rs) EXCEPT ![rs[i].addr] = {}]
  <2> DEFINE f == [RouteMap(rs) EXCEPT ![rs[i].addr] = {}]
  <2>1. RouteMap(rs) \in [Peer -> SUBSET Transport] /\ rs[i].addr \in Peer
    BY RouteMapAt, RowFacts
  <2>2. f \in [Peer -> SUBSET Transport]  BY <2>1
  <2>3. ASSUME NEW j \in 1 .. Len(new) PROVE f[new[j].addr] = new[j].transports
    <3>1. PICK k \in 1 .. Len(rs) : k # i /\ new[j] = rs[k]  BY <1>3
    <3>2. rs[k].addr # rs[i].addr  BY <3>1 DEF WellFormed
    <3>3. rs[k].addr \in Peer /\ RouteMap(rs)[rs[k].addr] = rs[k].transports
      BY RouteMapAt, RowFacts
    <3> QED  BY <3>1, <3>2, <3>3, <2>1
  <2>4. ASSUME NEW p \in Peer, \A j \in 1 .. Len(new) : new[j].addr # p
        PROVE  f[p] = {}
    <3>1. CASE p = rs[i].addr  BY <3>1, <2>1
    <3>2. CASE p # rs[i].addr
      <4>1. \A k \in 1 .. Len(rs) : rs[k].addr # p
        BY <3>2, <2>4, <1>3, <1>4
      <4>2. ~Known(rs, p)  BY <4>1, TableShape DEF Known, RowsOf
      <4> QED  BY <3>2, <4>2, <2>1, RouteMapAt
    <3> QED  BY <3>1, <3>2
  <2> HIDE DEF f, new
  <2> QED  BY <1>6, <2>2, <2>3, <2>4, RouteMapIs DEF f
<1> QED  BY <1>6, <1>7

\* The rows of a well-formed table are as many as the peers it tracks.
LEMMA TrackedIsLen ==
  ASSUME NEW rs, WellFormed(rs)
  PROVE  /\ IsFiniteSet({p \in Peer : RouteMap(rs)[p] # {}})
         /\ Cardinality({p \in Peer : RouteMap(rs)[p] # {}}) = Len(rs)
<1> DEFINE tracked == {p \in Peer : RouteMap(rs)[p] # {}}
           addrOf == [i \in 1 .. Len(rs) |-> rs[i].addr]
<1>1. Len(rs) \in Nat  BY TableShape
<1>2. tracked = {p \in Peer : Known(rs, p)}  BY RouteMapAt
<1>3. \A i \in 1 .. Len(rs) : addrOf[i] \in tracked
  BY <1>2, PositionOfRow, RowFacts
<1>4. \A p \in tracked : \E i \in 1 .. Len(rs) : addrOf[i] = p
  <2>1. ASSUME NEW p \in tracked PROVE \E i \in 1 .. Len(rs) : rs[i].addr = p
    BY <1>2, <2>1, KnownHasRow
  <2> QED  BY <2>1
<1>5. \A i, j \in 1 .. Len(rs) : addrOf[i] = addrOf[j] => i = j
  BY DEF WellFormed
<1> HIDE DEF tracked
<1>6. addrOf \in Bijection(1 .. Len(rs), tracked)
  BY <1>3, <1>4, <1>5 DEF Bijection, Injection, Surjection, IsInjective
<1>7. ExistsBijection(1 .. Len(rs), tracked)
  BY <1>6 DEF ExistsBijection
<1> HIDE DEF addrOf
<1>8. IsFiniteSet(tracked) /\ Cardinality(tracked) = Len(rs)
  <2>1. ASSUME NEW n \in Nat, ExistsBijection(1 .. n, tracked)
        PROVE  IsFiniteSet(tracked) /\ Cardinality(tracked) = n
    BY <2>1, FS_CountingElements, FS_NatBijection
  <2> QED  BY <1>1, <1>7, <2>1
<1> QED  BY <1>8 DEF tracked

LEMMA EmptyTableFacts ==
  WellFormed(EmptyTable) /\ RouteMap(EmptyTable) = [p \in Peer |-> {}]
<1>1. EmptyTable \in Seq(Row) /\ Len(EmptyTable) = 0 /\ DOMAIN EmptyTable = {}
  BY DEF EmptyTable
<1>2. WellFormed(EmptyTable)
  BY <1>1, TableAssumption DEF WellFormed, TableAssumption
<1>3. \A p \in Peer : ~Known(EmptyTable, p)
  BY <1>1 DEF Known, RowsOf
<1> QED  BY <1>2, <1>3 DEF RouteMap

\* Each operation keeps the table well formed and does to the map what PeerMap says.
LEMMA AddMaps ==
  ASSUME NEW rs, WellFormed(rs), NEW p \in Peer, NEW t \in Transport
  PROVE  /\ WellFormed(Add(rs, p, t))
         /\ RouteMap(Add(rs, p, t)) =
              IF Known(rs, p) \/ Len(rs) < NR
              THEN [RouteMap(rs) EXCEPT ![p] = @ \cup {t}] ELSE RouteMap(rs)
<1>1. CASE Known(rs, p)
  <2>1. PICK i \in 1 .. Len(rs) : i = Position(rs, p) /\ rs[i].addr = p
    BY <1>1, KnownHasRow
  <2>2. Add(rs, p, t) = WithTransports(rs, i, rs[i].transports \cup {t})
    BY <1>1, <2>1 DEF Add
  <2>3. PICK ts \in SUBSET Transport : ts = rs[i].transports \cup {t} /\ ts # {}
    <3>1. rs[i].transports \subseteq Transport  BY RowFacts
    <3> QED  BY <3>1
  <2>4. RouteMap(rs)[p] = rs[i].transports /\ RouteMap(rs) \in [Peer -> SUBSET Transport]
    BY <2>1, RouteMapAt
  <2>5. [RouteMap(rs) EXCEPT ![p] = @ \cup {t}]
          = [RouteMap(rs) EXCEPT ![rs[i].addr] = ts]
    BY <2>1, <2>3, <2>4
  <2>6. /\ WellFormed(WithTransports(rs, i, ts))
        /\ RouteMap(WithTransports(rs, i, ts)) = [RouteMap(rs) EXCEPT ![rs[i].addr] = ts]
    BY <2>3, WithTransportsKeeps
  <2> QED  BY <1>1, <2>2, <2>3, <2>5, <2>6, Zenon
<1>2. CASE ~Known(rs, p) /\ Len(rs) < NR
  <2>1. Add(rs, p, t) = Append(rs, [addr |-> p, transports |-> {t}])
    BY <1>2 DEF Add
  <2>2. RouteMap(rs)[p] = {} /\ RouteMap(rs) \in [Peer -> SUBSET Transport]
    BY <1>2, RouteMapAt
  <2>3. [RouteMap(rs) EXCEPT ![p] = @ \cup {t}] = [RouteMap(rs) EXCEPT ![p] = {t}]
    BY <2>2
  <2> QED  BY <1>2, <2>1, <2>3, AppendKeeps
<1>3. CASE ~Known(rs, p) /\ ~(Len(rs) < NR)
  BY <1>3 DEF Add
<1> QED  BY <1>1, <1>2, <1>3

LEMMA RemoveTransportMaps ==
  ASSUME NEW rs, WellFormed(rs), NEW p \in Peer, NEW t \in Transport
  PROVE  /\ WellFormed(RemoveTransport(rs, p, t))
         /\ RouteMap(RemoveTransport(rs, p, t)) = [RouteMap(rs) EXCEPT ![p] = @ \ {t}]
<1>1. RouteMap(rs) \in [Peer -> SUBSET Transport]  BY RouteMapAt
<1>2. CASE Known(rs, p)
  <2>1. PICK i \in 1 .. Len(rs) : i = Position(rs, p) /\ rs[i].addr = p
    BY <1>2, KnownHasRow
  <2>2. RouteMap(rs)[p] = rs[i].transports /\ rs[i].transports \subseteq Transport
    BY <2>1, RouteMapAt, RowFacts
  <2>3. [RouteMap(rs) EXCEPT ![p] = @ \ {t}]
          = [RouteMap(rs) EXCEPT ![rs[i].addr] = rs[i].transports \ {t}]
    BY <2>1, <2>2, <1>1
  <2>4. CASE rs[i].transports \ {t} = {}
    <3>1. RemoveTransport(rs, p, t) = SwapRemove(rs, i)
      BY <1>2, <2>1, <2>4 DEF RemoveTransport
    <3> QED  BY <3>1, <2>3, <2>4, SwapRemoveKeeps
  <2>5. CASE rs[i].transports \ {t} # {}
    <3>1. RemoveTransport(rs, p, t) = WithTransports(rs, i, rs[i].transports \ {t})
      BY <1>2, <2>1, <2>5 DEF RemoveTransport
    <3>2. PICK ts \in SUBSET Transport : ts = rs[i].transports \ {t} /\ ts # {}
      BY <2>2, <2>5
    <3>3. /\ WellFormed(WithTransports(rs, i, ts))
          /\ RouteMap(WithTransports(rs, i, ts)) = [RouteMap(rs) EXCEPT ![rs[i].addr] = ts]
      BY <3>2, WithTransportsKeeps
    <3> QED  BY <3>1, <3>2, <3>3, <2>3, Zenon
  <2> QED  BY <2>4, <2>5
<1>3. CASE ~Known(rs, p)
  <2>1. RouteMap(rs)[p] = {}  BY <1>3, RouteMapAt
  <2>2. [RouteMap(rs) EXCEPT ![p] = @ \ {t}] = RouteMap(rs)  BY <2>1, <1>1
  <2> QED  BY <1>3, <2>2 DEF RemoveTransport
<1> QED  BY <1>2, <1>3

LEMMA RemoveMaps ==
  ASSUME NEW rs, WellFormed(rs), NEW p \in Peer
  PROVE  /\ WellFormed(Remove(rs, p))
         /\ RouteMap(Remove(rs, p)) = [RouteMap(rs) EXCEPT ![p] = @ \ Transport]
<1>1. RouteMap(rs) \in [Peer -> SUBSET Transport]  BY RouteMapAt
<1>2. [RouteMap(rs) EXCEPT ![p] = @ \ Transport] = [RouteMap(rs) EXCEPT ![p] = {}]
  BY <1>1
<1>3. CASE Known(rs, p)
  <2>1. PICK i \in 1 .. Len(rs) : i = Position(rs, p) /\ rs[i].addr = p
    BY <1>3, KnownHasRow
  <2>2. Remove(rs, p) = SwapRemove(rs, i)  BY <1>3, <2>1 DEF Remove
  <2> QED  BY <2>1, <2>2, <1>2, SwapRemoveKeeps
<1>4. CASE ~Known(rs, p)
  <2>1. RouteMap(rs)[p] = {}  BY <1>4, RouteMapAt
  <2>2. [RouteMap(rs) EXCEPT ![p] = {}] = RouteMap(rs)  BY <2>1, <1>1
  <2> QED  BY <1>2, <1>4, <2>2 DEF Remove
<1> QED  BY <1>3, <1>4

=============================================================================
